---------------------------- MODULE EnvelopeProofs ----------------------------
(* Proofs about module Envelope, for any hosts, keys and bounds: what the  *)
(* nonces, keys and sides of an interface's tunnels guarantee whatever the *)
(* network does to the frames.                                             *)
EXTENDS Envelope, TLAPS

-----------------------------------------------------------------------------
(* Nonces.                                                                 *)

\* A generated nonce is greater than the last one.
LEMMA NonceGrows ==
  ASSUME NEW last \in Nat, NEW odd \in BOOLEAN
  PROVE  NonceGenerate(last, odd) \in Nat /\ NonceGenerate(last, odd) > last
<1>1. last % 2 \in 0..1 BY SMT
<1>2. CASE odd BY <1>1, <1>2, SMT DEF NonceGenerate
<1>3. CASE ~odd BY <1>1, <1>3, SMT DEF NonceGenerate
<1> QED BY <1>2, <1>3

\* It has the parity of the side, if the last one had it or was the first.
LEMMA NonceOfSide ==
  ASSUME NEW last \in Nat, NEW odd \in BOOLEAN, last = 0 \/ (last % 2 = 1) = odd
  PROVE  (NonceGenerate(last, odd) % 2 = 1) = odd
<1>1. CASE odd
  <2>1. CASE last = 0
    <3>1. NonceGenerate(last, odd) = 1 BY <1>1, <2>1, SMT DEF NonceGenerate
    <3>2. 1 % 2 = 1 BY SMT
    <3> QED BY <1>1, <3>1, <3>2
  <2>2. CASE last % 2 = 1
    <3>1. NonceGenerate(last, odd) = last + 2 BY <1>1, <2>2, SMT DEF NonceGenerate
    <3>2. (last + 2) % 2 = 1 BY <2>2, SMT
    <3> QED BY <1>1, <3>1, <3>2
  <2> QED BY <1>1, <2>1, <2>2
<1>2. CASE ~odd
  <2>1. last % 2 = 0
    <3>1. CASE last = 0 BY <3>1, SMT
    <3>2. CASE ~(last % 2 = 1) BY <3>2, SMT
    <3> QED BY <1>2, <3>1, <3>2
  <2>2. NonceGenerate(last, odd) = last + 2
    BY <1>2, <2>1, SMT DEF NonceGenerate
  <2>3. (last + 2) % 2 = 0 BY <2>1, SMT
  <2> QED BY <1>2, <2>2, <2>3, SMT
<1> QED BY <1>1, <1>2

-----------------------------------------------------------------------------
(* Types.                                                                  *)

LEMMA KeyFacts ==
  /\ Keys \subseteq Nat /\ OutgoingKeys \subseteq Keys
  /\ \A h \in Hosts : IncomingKey[h] \in Keys /\ PermanentKey[h] \in Keys
BY EnvelopeAssumption DEF Keys

LEMMA ComputedType ==
  ASSUME NEW er \in TunnelType, NEW local \in Keys
  PROVE  ComputeSymmetricKey(er, local) \in TunnelType
<1>1. er.key \in Nat /\ local \in Nat BY KeyFacts DEF TunnelType
<1>2. (er.key > local) \in BOOLEAN BY <1>1
<1>3. {er.key, local} \in SUBSET Keys BY DEF TunnelType
<1> QED BY <1>2, <1>3 DEF TunnelType, ComputeSymmetricKey

LEMMA NewTunnelType ==
  ASSUME NEW peer \in Hosts, NEW key \in Keys, NEW out \in BOOLEAN
  PROVE  Tunnel(peer, key, out) \in TunnelType
BY EnvelopeAssumption DEF Tunnel, TunnelType

\* First packets carry keys drawn for outgoing tunnels.
FirstKeys ==
  /\ \A f \in net : f.first => f.key \in OutgoingKeys
  /\ \A h \in Hosts : \A id \in DOMAIN tunnels[h] :
       tunnels[h][id].out => outgoing[h] \in OutgoingKeys

\* What Open and FailToOpen put into the table is a tunnel.
LEMMA TriedType ==
  ASSUME TypeOK, FirstKeys, NEW f \in net, NEW h \in Hosts, NEW sym, NEW er \in TunnelFor(h, f)
  PROVE  /\ er \in TunnelType
         /\ Tried(h, er, [f EXCEPT !.sym = sym]) \in TunnelType
         /\ Tried(h, er, f) \in TunnelType
<1> f \in FrameType BY DEF TypeOK
<1>1. er \in TunnelType
  <2>1. CASE Known(h, f)
    BY <2>1 DEF TunnelFor, Known, TypeOK
  <2>2. CASE ~Known(h, f)
    <3>1. PICK k \in {x \in {f.key} : f.first /\ x # IncomingKey[h]} :
            er = ComputeSymmetricKey(Tunnel(f.from, k, FALSE), IncomingKey[h])
      BY <2>2 DEF TunnelFor
    <3>2. k \in Keys BY <3>1, KeyFacts DEF FirstKeys
    <3>3. f.from \in Hosts BY DEF FrameType
    <3>4. Tunnel(f.from, k, FALSE) \in TunnelType BY <3>2, <3>3, NewTunnelType
    <3> QED BY <3>1, <3>4, KeyFacts, ComputedType
  <2> QED BY <2>1, <2>2
<1>2. SecondKey(h, er) \in TunnelType
  BY <1>1, ComputedType, KeyFacts DEF SecondKey
<1> QED BY <1>1, <1>2 DEF Tried

Types == TypeOK /\ FirstKeys

\* A table with one more, or one other, tunnel still has its type.
Puts(h, id, er) == tunnels' = [tunnels EXCEPT ![h] = With(@, id, er)]

LEMMA TableType ==
  ASSUME TypeOK, NEW host \in Hosts, NEW ident \in Ids, NEW entry \in TunnelType,
         Puts(host, ident, entry)
  PROVE  /\ DOMAIN tunnels' = Hosts
         /\ \A g \in Hosts : DOMAIN tunnels'[g] \subseteq Ids
              /\ \A i \in DOMAIN tunnels'[g] : tunnels'[g][i] \in TunnelType
         /\ \A g \in Hosts : \A i \in DOMAIN tunnels'[g] :
              \/ g = host /\ i = ident /\ tunnels'[g][i] = entry
              \/ (g # host \/ i # ident) /\ i \in DOMAIN tunnels[g] /\ tunnels'[g][i] = tunnels[g][i]
         /\ ident \in DOMAIN tunnels'[host] /\ tunnels'[host][ident] = entry
         /\ \A g \in Hosts : DOMAIN tunnels[g] \subseteq DOMAIN tunnels'[g]
<1>1. DOMAIN tunnels' = Hosts BY DEF TypeOK, Puts
<1>2. tunnels'[host] = With(tunnels[host], ident, entry) BY DEF TypeOK, Puts
<1>3. \A g \in Hosts \ {host} : tunnels'[g] = tunnels[g] BY DEF TypeOK, Puts
<1>4. /\ DOMAIN tunnels'[host] = DOMAIN tunnels[host] \cup {ident}
      /\ tunnels'[host][ident] = entry
      /\ \A i \in DOMAIN tunnels[host] : i # ident => tunnels'[host][i] = tunnels[host][i]
  <2> DEFINE T == tunnels[host]
  <2>1. tunnels'[host] = With(T, ident, entry) BY <1>2
  <2> HIDE DEF T
  <2>2. /\ DOMAIN tunnels'[host] = DOMAIN T \cup {ident}
        /\ tunnels'[host][ident] = entry
        /\ \A i \in DOMAIN T : i # ident => tunnels'[host][i] = T[i]
    <3>1. DOMAIN With(T, ident, entry) = DOMAIN T \cup {ident} BY DEF With
    <3>2. With(T, ident, entry)[ident] = entry BY DEF With
    <3>3. \A i \in DOMAIN T : i # ident => With(T, ident, entry)[i] = T[i] BY DEF With
    <3> QED BY <2>1, <3>1, <3>2, <3>3
  <2> QED BY <2>2 DEF T
<1>5. \A g \in Hosts : \A i \in DOMAIN tunnels'[g] :
              \/ g = host /\ i = ident /\ tunnels'[g][i] = entry
              \/ (g # host \/ i # ident) /\ i \in DOMAIN tunnels[g] /\ tunnels'[g][i] = tunnels[g][i]
  BY <1>3, <1>4
<1>6. \A g \in Hosts : DOMAIN tunnels'[g] \subseteq Ids
              /\ \A i \in DOMAIN tunnels'[g] : tunnels'[g][i] \in TunnelType
  <2> TAKE g \in Hosts
  <2>1. CASE g = host BY <2>1, <1>4 DEF TypeOK
  <2>2. CASE g # host BY <2>2, <1>3 DEF TypeOK
  <2> QED BY <2>1, <2>2
<1>7. \A g \in Hosts : DOMAIN tunnels[g] \subseteq DOMAIN tunnels'[g] BY <1>3, <1>4
<1> QED BY <1>1, <1>4, <1>5, <1>6, <1>7

-----------------------------------------------------------------------------
(* What each action does, in the form the invariants need.                 *)

\* Dial: one tunnel more, under a nonce above the last and with a key pair
\* that nobody drew before.
Dials(h, g, k, theirs, n) ==
  LET er == ComputeSymmetricKey(Tunnel(g, theirs, TRUE), k)
  IN  /\ g # h
      /\ k \in OutgoingKeys /\ (\A i \in Hosts : k \notin drawn[i])
      /\ theirs \in {IncomingKey[g], PermanentKey[g]} /\ theirs # k
      /\ n = NonceGenerate(nonce[h], er.odd) /\ n \in 1..MaxNonce /\ n > nonce[h]
      /\ er \in TunnelType /\ TunnelId(er, n) \in Ids
      /\ outgoing' = [outgoing EXCEPT ![h] = k]
      /\ drawn' = [drawn EXCEPT ![h] = @ \cup {k}]
      /\ nonce' = [nonce EXCEPT ![h] = n]
      /\ sides' = [sides EXCEPT ![h] = @ \cup {er.odd}]
      /\ tunnels' = [tunnels EXCEPT ![h] = With(@, TunnelId(er, n), er)]
      /\ UNCHANGED <<net, opened, damaged, authenticators>>

LEMMA DialDoes ==
  ASSUME Types, NEW h \in Hosts, NEW g \in Hosts, Dial(h, g)
  PROVE  \E k \in Keys, theirs \in Keys, n \in Nat : Dials(h, g, k, theirs, n)
<1>1. PICK k \in OutgoingKeys \ UNION {drawn[i] : i \in Hosts},
           theirs \in {IncomingKey[g], PermanentKey[g]} :
       LET er == ComputeSymmetricKey(Tunnel(g, theirs, TRUE), k)
           n  == NonceGenerate(nonce[h], er.odd)
       IN  /\ n <= MaxNonce
           /\ outgoing' = [outgoing EXCEPT ![h] = k]
           /\ drawn' = [drawn EXCEPT ![h] = @ \cup {k}]
           /\ nonce' = [nonce EXCEPT ![h] = n]
           /\ sides' = [sides EXCEPT ![h] = @ \cup {er.odd}]
           /\ tunnels' = [tunnels EXCEPT ![h] = With(@, TunnelId(er, n), er)]
  BY DEF Dial
<1> DEFINE er == ComputeSymmetricKey(Tunnel(g, theirs, TRUE), k)
           n  == NonceGenerate(nonce[h], er.odd)
<1>2. g # h /\ UNCHANGED <<net, opened, damaged, authenticators>> BY DEF Dial
<1>3. k \in Keys /\ theirs \in Keys /\ theirs # k
  BY KeyFacts, EnvelopeAssumption
<1>4. Tunnel(g, theirs, TRUE) \in TunnelType BY <1>3, NewTunnelType
<1>5. er \in TunnelType BY <1>3, <1>4, ComputedType
<1>6. er.odd \in BOOLEAN BY <1>5 DEF TunnelType
<1>7. nonce[h] \in Nat BY EnvelopeAssumption DEF Types, TypeOK
<1>8. n \in Nat /\ n > nonce[h] BY <1>6, <1>7, NonceGrows
<1>9. n \in 1..MaxNonce
  <2> HIDE DEF n
  <2>1. n <= MaxNonce BY <1>1 DEF n
  <2>2. MaxNonce \in Nat BY EnvelopeAssumption
  <2> QED BY <2>1, <2>2, <1>8, <1>7, SMT
<1>10. TunnelId(er, n) \in Ids
  <2>1. er.sym = {theirs, k}
    BY <1>4 DEF ComputeSymmetricKey, Tunnel, TunnelType
  <2> HIDE DEF er, n
  <2>2. TunnelId(er, n) = <<{theirs, k}, n>> BY <2>1 DEF TunnelId
  <2> QED BY <2>2, <1>3, <1>9 DEF Ids
<1>11. \A i \in Hosts : k \notin drawn[i] OBVIOUS
<1>12. Dials(h, g, k, theirs, n)
  BY <1>1, <1>2, <1>3, <1>5, <1>8, <1>9, <1>10, <1>11 DEF Dials
<1> QED BY <1>3, <1>8, <1>12

\* Seal: one frame more, under a nonce above the last.
Seals(h, id, f) ==
  LET er == tunnels[h][id]
  IN  /\ id \in DOMAIN tunnels[h] /\ er \in TunnelType
      /\ f \in FrameType /\ f.from = h /\ f.to = er.peer /\ f.id = id /\ f.sym = er.sym
      /\ f.first => f.key \in OutgoingKeys /\ er.out
      /\ f.nonce = NonceGenerate(nonce[h], er.odd) /\ f.nonce \in Nat /\ f.nonce > nonce[h]
      /\ nonce' = [nonce EXCEPT ![h] = f.nonce]
      /\ sides' = [sides EXCEPT ![h] = @ \cup {er.odd}]
      /\ net' = net \cup {f}
      /\ UNCHANGED <<outgoing, drawn, tunnels, opened, damaged, authenticators>>

LEMMA SealDoes ==
  ASSUME Types, NEW h \in Hosts, NEW id \in DOMAIN tunnels[h], NEW first \in BOOLEAN,
         Seal(h, id, first)
  PROVE  \E f \in FrameType : Seals(h, id, f)
<1> DEFINE er == tunnels[h][id]
           n  == NonceGenerate(nonce[h], er.odd)
           f  == Frame(h, id, first, n)
<1>1. er \in TunnelType /\ id \in Ids BY DEF Types, TypeOK
<1>2. er.odd \in BOOLEAN BY <1>1 DEF TunnelType
<1>3. nonce[h] \in Nat BY EnvelopeAssumption DEF Types, TypeOK
<1>4. n \in Nat /\ n > nonce[h] BY <1>2, <1>3, NonceGrows
<1>5. n \in 1..MaxNonce
  <2> HIDE DEF n
  <2>1. n <= MaxNonce BY DEF Seal, n
  <2>2. MaxNonce \in Nat BY EnvelopeAssumption
  <2> QED BY <2>1, <2>2, <1>4, <1>3, SMT
<1>6. first => outgoing[h] \in OutgoingKeys /\ er.out
  <2>1. first => er.out BY <1>1 DEF Seal, TunnelType
  <2> QED BY <2>1 DEF Types, FirstKeys
<1>7. /\ f.from = h /\ f.to = er.peer /\ f.id = id /\ f.sym = er.sym /\ f.nonce = n
      /\ f.first => f.key \in OutgoingKeys /\ er.out
  BY <1>6 DEF Frame
<1>8. f \in FrameType
  <2> HIDE DEF n
  <2>1. er.peer \in Hosts /\ er.sym \in SUBSET Keys BY <1>1 DEF TunnelType
  <2>2. (IF first THEN outgoing[h] ELSE NoKey) \in Keys \cup {NoKey}
    BY <1>6, KeyFacts
  <2> QED BY <1>1, <1>5, <2>1, <2>2 DEF Frame, FrameType
<1>9. Seals(h, id, f)
  BY <1>1, <1>4, <1>7, <1>8 DEF Seal, Seals
<1> QED BY <1>8, <1>9

\* Open and FailToOpen: the tunnel of a frame's id becomes er.
Takes(h, f, er, base) ==
  /\ f \in net /\ h = f.to
  /\ base \in TunnelFor(h, f) /\ base \in TunnelType
  /\ f.nonce > base.nonce
  /\ er \in TunnelType /\ f.id \in Ids
  /\ tunnels' = [tunnels EXCEPT ![h] = With(@, f.id, er)]
  /\ UNCHANGED <<nonce, outgoing, drawn, sides, net, authenticators>>

Opens(h, f, er, base) ==
  /\ Takes(h, f, er, base)
  /\ er = [Tried(h, base, f) EXCEPT !.nonce = f.nonce]
  /\ Decrypts(Tried(h, base, f), f)
  /\ opened' = [opened EXCEPT ![h] = Append(@, f)]
  /\ UNCHANGED damaged

Fails(h, f, er, base) ==
  /\ Takes(h, f, er, base)
  /\ er = base \/ er = SecondKey(h, base)
  /\ UNCHANGED opened
  /\ damaged' \in 0..MaxDamaged
  /\ damaged' = 0 => damaged = 0 /\ ~Decrypts(Tried(h, base, f), f)

LEMMA ReceiveDoes ==
  ASSUME Types, NEW f \in net, Receive(f) \/ ReceiveDamaged(f)
  PROVE  \E h \in Hosts, er \in TunnelType, base \in TunnelType :
           Opens(h, f, er, base) \/ Fails(h, f, er, base)
<1> DEFINE h == f.to
           bad == [f EXCEPT !.sym = {}]
<1>1. f \in FrameType BY DEF Types, TypeOK
<1>2. h \in Hosts /\ f.id \in Ids /\ f.nonce \in 0..MaxNonce
  BY <1>1 DEF FrameType
<1>3. /\ bad.id = f.id /\ bad.nonce = f.nonce /\ bad.first = f.first
      /\ bad.key = f.key /\ bad.from = f.from
  BY <1>1 DEF FrameType
<1>4. TunnelFor(h, bad) = TunnelFor(h, f)
  BY <1>3 DEF TunnelFor, Known
<1>5. CASE Open(h, f) /\ UNCHANGED damaged
  <2>1. PICK base \in TunnelFor(h, f) :
          /\ f.nonce > base.nonce /\ Decrypts(Tried(h, base, f), f)
          /\ tunnels' = [tunnels EXCEPT ![h] =
                With(@, f.id, [Tried(h, base, f) EXCEPT !.nonce = f.nonce])]
          /\ opened' = [opened EXCEPT ![h] = Append(@, f)]
          /\ UNCHANGED <<nonce, outgoing, drawn, sides, net, damaged, authenticators>>
    BY <1>5 DEF Open, NewNonce
  <2>2. base \in TunnelType /\ Tried(h, base, f) \in TunnelType
    BY <1>2, TriedType DEF Types
  <2> DEFINE er == [Tried(h, base, f) EXCEPT !.nonce = f.nonce]
  <2>3. er \in TunnelType BY <2>2, <1>2 DEF TunnelType
  <2>4. Opens(h, f, er, base) BY <2>1, <2>2, <2>3, <1>2 DEF Opens, Takes
  <2> QED BY <2>2, <2>3, <2>4, <1>2
<1>6. CASE FailToOpen(h, f) /\ UNCHANGED damaged
  <2>1. PICK base \in TunnelFor(h, f) :
          /\ f.nonce > base.nonce /\ ~Decrypts(Tried(h, base, f), f)
          /\ tunnels' = [tunnels EXCEPT ![h] = With(@, f.id, Tried(h, base, f))]
          /\ UNCHANGED <<nonce, outgoing, drawn, sides, net, opened, authenticators>>
    BY <1>6 DEF FailToOpen, NewNonce
  <2>2. base \in TunnelType /\ Tried(h, base, f) \in TunnelType
    BY <1>2, TriedType DEF Types
  <2>3. Tried(h, base, f) = base \/ Tried(h, base, f) = SecondKey(h, base)
    BY DEF Tried
  <2>4. damaged' \in 0..MaxDamaged /\ damaged' = damaged BY <1>6 DEF Types, TypeOK
  <2>5. Fails(h, f, Tried(h, base, f), base)
    BY <2>1, <2>2, <2>3, <2>4, <1>2 DEF Fails, Takes
  <2> QED BY <2>2, <2>5, <1>2
<1>7. CASE ReceiveDamaged(f)
  <2>1. PICK base \in TunnelFor(h, f) :
          /\ f.nonce > base.nonce
          /\ tunnels' = [tunnels EXCEPT ![h] = With(@, f.id, Tried(h, base, bad))]
          /\ UNCHANGED <<nonce, outgoing, drawn, sides, net, opened, authenticators>>
    BY <1>7, <1>3, <1>4 DEF ReceiveDamaged, FailToOpen, NewNonce
  <2>2. base \in TunnelType /\ Tried(h, base, bad) \in TunnelType
    BY <1>2, TriedType DEF Types
  <2>3. Tried(h, base, bad) = base \/ Tried(h, base, bad) = SecondKey(h, base)
    BY DEF Tried
  <2>4. damaged' \in 0..MaxDamaged /\ damaged' # 0
    BY <1>7, EnvelopeAssumption, SMT DEF ReceiveDamaged, Types, TypeOK
  <2>5. Fails(h, f, Tried(h, base, bad), base)
    BY <2>1, <2>2, <2>3, <2>4, <1>2 DEF Fails, Takes
  <2> QED BY <2>2, <2>5, <1>2
<1> QED BY <1>5, <1>6, <1>7 DEF Receive, Open

\* Every step is one of these.
LEMMA StepForms ==
  ASSUME Types, [Next]_vars
  PROVE  \/ \E h, g \in Hosts : \E k \in Keys, theirs \in Keys, n \in Nat : Dials(h, g, k, theirs, n)
         \/ \E h \in Hosts : \E id \in DOMAIN tunnels[h], f \in FrameType : Seals(h, id, f)
         \/ \E h \in Hosts, f \in net, er \in TunnelType, base \in TunnelType :
              Opens(h, f, er, base)
         \/ \E h \in Hosts, f \in net, er \in TunnelType, base \in TunnelType :
              Fails(h, f, er, base)
         \/ \E h, g \in Hosts : cryptoGenAuthenticator(h, g)
         \/ UNCHANGED vars
<1>1. CASE \E h, g \in Hosts : Dial(h, g) BY <1>1, DialDoes
<1>2. CASE \E h \in Hosts : \E id \in DOMAIN tunnels[h], first \in BOOLEAN : Seal(h, id, first)
  BY <1>2, SealDoes
<1>3. CASE \E f \in net : Receive(f) \/ ReceiveDamaged(f)
  BY <1>3, ReceiveDoes
<1> QED BY <1>1, <1>2, <1>3 DEF Next

-----------------------------------------------------------------------------
(* Types are invariant.                                                    *)

LEMMA TypesInit == Init => Types
BY EnvelopeAssumption DEF Init, Types, TypeOK, FirstKeys

LEMMA TypesDial ==
  ASSUME Types, NEW h \in Hosts, NEW g \in Hosts, NEW k \in Keys, NEW theirs \in Keys,
         NEW n \in Nat, Dials(h, g, k, theirs, n)
  PROVE  Types'
<1> DEFINE er == ComputeSymmetricKey(Tunnel(g, theirs, TRUE), k)
           id == TunnelId(er, n)
<1>1. /\ k \in OutgoingKeys /\ n \in 1..MaxNonce /\ er \in TunnelType /\ id \in Ids
      /\ outgoing' = [outgoing EXCEPT ![h] = k]
      /\ drawn' = [drawn EXCEPT ![h] = @ \cup {k}]
      /\ nonce' = [nonce EXCEPT ![h] = n]
      /\ sides' = [sides EXCEPT ![h] = @ \cup {er.odd}]
      /\ tunnels' = [tunnels EXCEPT ![h] = With(@, id, er)]
      /\ UNCHANGED <<net, opened, damaged>>
  BY DEF Dials
<1> HIDE DEF er, id
<1>2. /\ DOMAIN tunnels' = Hosts
      /\ \A i \in Hosts : DOMAIN tunnels'[i] \subseteq Ids
           /\ \A j \in DOMAIN tunnels'[i] : tunnels'[i][j] \in TunnelType
      /\ \A i \in Hosts : \A j \in DOMAIN tunnels'[i] :
           \/ i = h
           \/ j \in DOMAIN tunnels[i] /\ tunnels'[i][j] = tunnels[i][j]
  <2>1. Puts(h, id, er) BY <1>1 DEF Puts
  <2> QED BY <1>1, <2>1, TableType DEF Types
<1>3. outgoing' \in [Hosts -> OutgoingKeys \cup {NoKey}] BY <1>1 DEF Types, TypeOK
<1>4. drawn' \in [Hosts -> SUBSET OutgoingKeys] BY <1>1 DEF Types, TypeOK
<1>5. nonce' \in [Hosts -> 0..MaxNonce]
  <2>1. n \in 0..MaxNonce BY <1>1, SMT
  <2> QED BY <1>1, <2>1 DEF Types, TypeOK
<1>6. sides' \in [Hosts -> SUBSET BOOLEAN]
  <2>1. er.odd \in BOOLEAN BY <1>1 DEF TunnelType
  <2> QED BY <1>1, <2>1 DEF Types, TypeOK
<1>7. TypeOK'
  BY <1>1, <1>2, <1>3, <1>4, <1>5, <1>6 DEF Types, TypeOK
<1>8. FirstKeys'
  <2>1. \A i \in Hosts : i # h => outgoing'[i] = outgoing[i] BY <1>1 DEF Types, TypeOK
  <2>2. outgoing'[h] \in OutgoingKeys BY <1>1 DEF Types, TypeOK
  <2> QED BY <1>1, <1>2, <2>1, <2>2 DEF Types, FirstKeys
<1> QED BY <1>7, <1>8 DEF Types

LEMMA TypesSeal ==
  ASSUME Types, NEW h \in Hosts, NEW id \in DOMAIN tunnels[h], NEW f \in FrameType,
         Seals(h, id, f)
  PROVE  Types'
<1>1. f.nonce \in 0..MaxNonce
  <2>1. f.nonce \in 1..MaxNonce BY DEF FrameType
  <2> QED BY <2>1, SMT
<1>2. nonce' \in [Hosts -> 0..MaxNonce] BY <1>1 DEF Seals, Types, TypeOK
<1>3. sides' \in [Hosts -> SUBSET BOOLEAN]
  <2>1. tunnels[h][id].odd \in BOOLEAN BY DEF Seals, TunnelType
  <2> QED BY <2>1 DEF Seals, Types, TypeOK
<1>4. net' \subseteq FrameType BY DEF Seals, Types, TypeOK
<1>5. TypeOK' BY <1>2, <1>3, <1>4 DEF Seals, Types, TypeOK
<1>6. FirstKeys' BY DEF Seals, Types, FirstKeys
<1> QED BY <1>5, <1>6 DEF Types

\* Decryption leaves a tunnel's key and side, or takes the permanent key.
Rekeyed(h, base, er) ==
  \/ er.sym = base.sym /\ er.odd = base.odd
  \/ /\ base.key # PermanentKey[h]
     /\ er.sym = {base.key, PermanentKey[h]} /\ er.odd = (base.key > PermanentKey[h])

LEMMA TriedKeepsOut ==
  ASSUME NEW h \in Hosts, NEW f \in net, NEW base \in TunnelType, NEW er \in TunnelType,
         Opens(h, f, er, base) \/ Fails(h, f, er, base)
  PROVE  /\ er.out = base.out /\ er.key = base.key /\ er.peer = base.peer
         /\ Rekeyed(h, base, er)
         /\ base.nonce <= er.nonce
<1>1. f.nonce > base.nonce /\ base.nonce \in 0..MaxNonce
  BY DEF Opens, Fails, Takes, TunnelType
<1>2. \A t \in TunnelType : \A n : [t EXCEPT !.nonce = n].out = t.out /\ [t EXCEPT !.nonce = n].peer = t.peer
        /\ [t EXCEPT !.nonce = n].key = t.key /\ [t EXCEPT !.nonce = n].sym = t.sym
        /\ [t EXCEPT !.nonce = n].odd = t.odd /\ [t EXCEPT !.nonce = n].nonce = n
  BY DEF TunnelType
<1>3. /\ SecondKey(h, base).out = base.out /\ SecondKey(h, base).key = base.key
      /\ SecondKey(h, base).peer = base.peer
      /\ SecondKey(h, base).nonce = base.nonce
      /\ Rekeyed(h, base, SecondKey(h, base)) /\ Rekeyed(h, base, base)
  BY DEF SecondKey, ComputeSymmetricKey, TunnelType, Rekeyed
<1>4. base.nonce <= base.nonce BY <1>1, EnvelopeAssumption, SMT
<1>5. CASE Fails(h, f, er, base)
  BY <1>3, <1>4, <1>5 DEF Fails
<1>6. CASE Opens(h, f, er, base)
  <2>1. PICK t \in {base, SecondKey(h, base)} : er = [t EXCEPT !.nonce = f.nonce]
    BY <1>6 DEF Opens, Tried
  <2>2. SecondKey(h, base) \in TunnelType
    BY ComputedType, KeyFacts DEF SecondKey
  <2>3. t \in TunnelType BY <2>1, <2>2
  <2>4. er.out = t.out /\ er.peer = t.peer /\ er.key = t.key /\ er.sym = t.sym /\ er.odd = t.odd /\ er.nonce = f.nonce
    BY <2>1, <2>3, <1>2
  <2>5. f.nonce \in 0..MaxNonce
    BY <2>4 DEF TunnelType
  <2>6. base.nonce <= f.nonce BY <1>1, <2>5, EnvelopeAssumption, SMT
  <2> QED BY <2>1, <2>4, <2>6, <1>3 DEF Rekeyed
<1> QED BY <1>5, <1>6

\* The tunnel a frame is for is in the table, or is new and made from the
\* public key of a first packet.
LEMMA BaseIs ==
  ASSUME Types, NEW h \in Hosts, NEW f \in net, NEW base \in TunnelFor(h, f)
  PROVE  \/ f.id \in DOMAIN tunnels[h] /\ base = tunnels[h][f.id]
         \/ /\ f.id \notin DOMAIN tunnels[h] /\ f.first /\ f.key # IncomingKey[h]
            /\ base.key = f.key /\ base.peer = f.from /\ ~base.out /\ base.nonce = 0
            /\ base.sym = {f.key, IncomingKey[h]} /\ base.odd = (f.key > IncomingKey[h])
<1>1. CASE Known(h, f) BY <1>1 DEF TunnelFor, Known
<1>2. CASE ~Known(h, f)
  <2>1. PICK k \in {x \in {f.key} : f.first /\ x # IncomingKey[h]} :
          base = ComputeSymmetricKey(Tunnel(f.from, k, FALSE), IncomingKey[h])
    BY <1>2 DEF TunnelFor
  <2>2. k = f.key /\ f.first /\ f.key # IncomingKey[h] BY <2>1
  <2>3. base = [peer |-> f.from, key |-> f.key, sym |-> {f.key, IncomingKey[h]},
                odd |-> f.key > IncomingKey[h], nonce |-> 0, out |-> FALSE]
    BY <2>1, <2>2 DEF ComputeSymmetricKey, Tunnel
  <2> QED BY <1>2, <2>2, <2>3 DEF Known
<1> QED BY <1>1, <1>2

LEMMA TypesReceive ==
  ASSUME Types, NEW h \in Hosts, NEW f \in net, NEW er \in TunnelType, NEW base \in TunnelType,
         Opens(h, f, er, base) \/ Fails(h, f, er, base)
  PROVE  Types'
<1>1. /\ f.id \in Ids /\ base \in TunnelFor(h, f)
      /\ tunnels' = [tunnels EXCEPT ![h] = With(@, f.id, er)]
      /\ UNCHANGED <<nonce, outgoing, drawn, sides, net>>
  BY DEF Opens, Fails, Takes
<1>2. /\ DOMAIN tunnels' = Hosts
      /\ \A i \in Hosts : DOMAIN tunnels'[i] \subseteq Ids
           /\ \A j \in DOMAIN tunnels'[i] : tunnels'[i][j] \in TunnelType
      /\ \A i \in Hosts : \A j \in DOMAIN tunnels'[i] :
           \/ i = h /\ j = f.id /\ tunnels'[i][j] = er
           \/ j \in DOMAIN tunnels[i] /\ tunnels'[i][j] = tunnels[i][j]
  <2> DEFINE id == f.id
  <2>1. id \in Ids /\ Puts(h, id, er) BY <1>1 DEF Puts
  <2> HIDE DEF id
  <2>2. /\ DOMAIN tunnels' = Hosts
        /\ \A i \in Hosts : DOMAIN tunnels'[i] \subseteq Ids
             /\ \A j \in DOMAIN tunnels'[i] : tunnels'[i][j] \in TunnelType
        /\ \A i \in Hosts : \A j \in DOMAIN tunnels'[i] :
             \/ i = h /\ j = id /\ tunnels'[i][j] = er
             \/ (i # h \/ j # id) /\ j \in DOMAIN tunnels[i] /\ tunnels'[i][j] = tunnels[i][j]
    BY <2>1, TableType DEF Types
  <2> QED BY <2>2 DEF id
<1>3. opened' \in [Hosts -> Seq(FrameType)]
  <2>1. CASE Opens(h, f, er, base)
    <3>1. f \in FrameType BY DEF Types, TypeOK
    <3>2. opened[h] \in Seq(FrameType) BY DEF Types, TypeOK
    <3>3. Append(opened[h], f) \in Seq(FrameType) BY <3>1, <3>2
    <3> QED BY <2>1, <3>3 DEF Opens, Types, TypeOK
  <2>2. CASE Fails(h, f, er, base) BY <2>2 DEF Fails, Types, TypeOK
  <2> QED BY <2>1, <2>2
<1>4. damaged' \in 0..MaxDamaged BY DEF Opens, Fails, Types, TypeOK
<1>5. TypeOK' BY <1>1, <1>2, <1>3, <1>4 DEF Types, TypeOK
<1>6. er.out => outgoing[h] \in OutgoingKeys
  <2>1. er.out = base.out BY TriedKeepsOut
  <2> QED BY <2>1, <1>1, BaseIs DEF Types, FirstKeys
<1>7. FirstKeys' BY <1>1, <1>2, <1>6 DEF Types, FirstKeys
<1> QED BY <1>5, <1>7 DEF Types

LEMMA TypesStep == Types /\ [Next]_vars => Types'
<1> SUFFICES ASSUME Types, [Next]_vars PROVE Types' OBVIOUS
<1>1. CASE \E h, g \in Hosts : cryptoGenAuthenticator(h, g)
  BY <1>1 DEF cryptoGenAuthenticator, Types, TypeOK, FirstKeys
<1>2. CASE UNCHANGED vars
  BY <1>2 DEF vars, Types, TypeOK, FirstKeys
<1> QED BY <1>1, <1>2, StepForms, TypesDial, TypesSeal, TypesReceive

\* Every variable keeps its type, in every behaviour of the interfaces and
\* whatever arrives.
THEOREM TypeCorrect == Spec => []TypeOK
<1>1. Spec => []Types BY TypesInit, TypesStep, PTL DEF Spec
<1>2. Types => TypeOK BY DEF Types
<1> QED BY <1>1, <1>2, PTL

\* How every step but those about authenticators changes the table.
LEMMA TakesTable ==
  ASSUME Types, NEW h \in Hosts, NEW f \in net, NEW er \in TunnelType, NEW base \in TunnelType,
         Takes(h, f, er, base)
  PROVE  /\ \A g \in Hosts : \A i \in DOMAIN tunnels'[g] :
              \/ g = h /\ i = f.id /\ tunnels'[g][i] = er
              \/ (g # h \/ i # f.id) /\ i \in DOMAIN tunnels[g] /\ tunnels'[g][i] = tunnels[g][i]
         /\ f.id \in DOMAIN tunnels'[h] /\ tunnels'[h][f.id] = er
         /\ \A g \in Hosts : DOMAIN tunnels[g] \subseteq DOMAIN tunnels'[g]
<1> DEFINE id == f.id
<1>1. id \in Ids /\ Puts(h, id, er) BY DEF Takes, Puts
<1> HIDE DEF id
<1>2. /\ \A g \in Hosts : \A i \in DOMAIN tunnels'[g] :
              \/ g = h /\ i = id /\ tunnels'[g][i] = er
              \/ (g # h \/ i # id) /\ i \in DOMAIN tunnels[g] /\ tunnels'[g][i] = tunnels[g][i]
      /\ id \in DOMAIN tunnels'[h] /\ tunnels'[h][id] = er
      /\ \A g \in Hosts : DOMAIN tunnels[g] \subseteq DOMAIN tunnels'[g]
  BY <1>1, TableType DEF Types
<1> QED BY <1>2 DEF id

-----------------------------------------------------------------------------
(* Nonces are fresh.                                                       *)

\* The counter has reached every nonce used.
NonceInv ==
  /\ \A f \in net : f.nonce <= nonce[f.from]
  /\ NoncesDistinct

LEMMA NonceInit == Init => NonceInv
BY DEF Init, NonceInv, NoncesDistinct

LEMMA NonceStep == Types /\ NonceInv /\ [Next]_vars => NonceInv'
<1> SUFFICES ASSUME Types, NonceInv, [Next]_vars PROVE NonceInv' OBVIOUS
<1>t. /\ nonce \in [Hosts -> 0..MaxNonce] /\ net \subseteq FrameType
      /\ \A f \in net : f.from \in Hosts /\ f.nonce \in Nat
  BY DEF Types, TypeOK, FrameType
<1>n. \A h \in Hosts : nonce[h] \in Nat BY <1>t
<1>1. ASSUME NEW h \in Hosts, NEW id \in DOMAIN tunnels[h], NEW f \in FrameType, Seals(h, id, f)
      PROVE  NonceInv'
  <2>1. f.from = h /\ f.nonce \in Nat /\ f.nonce > nonce[h] BY <1>1 DEF Seals
  <2>2. net' = net \cup {f} /\ nonce' = [nonce EXCEPT ![h] = f.nonce] BY <1>1 DEF Seals
  <2>3. nonce'[h] = f.nonce /\ \A g \in Hosts : g # h => nonce'[g] = nonce[g] BY <2>2, <1>t
  <2>4. \A g \in net : g.from = h => g.nonce < f.nonce
    <3> SUFFICES ASSUME NEW g \in net, g.from = h PROVE g.nonce < f.nonce OBVIOUS
    <3>1. g.nonce \in Nat /\ g.nonce <= nonce[h] BY <1>t DEF NonceInv
    <3> QED BY <3>1, <2>1, <1>n, SMT
  <2>5. \A g \in net' : g.nonce <= nonce'[g.from]
    <3> SUFFICES ASSUME NEW g \in net' PROVE g.nonce <= nonce'[g.from] OBVIOUS
    <3>1. CASE g = f BY <3>1, <2>1, <2>3
    <3>2. CASE g \in net /\ g.from = h
      <4>1. g.nonce < f.nonce /\ g.nonce \in Nat BY <3>2, <2>4, <1>t
      <4>2. nonce'[g.from] = f.nonce BY <3>2, <2>3
      <4> QED BY <4>1, <4>2, <2>1, SMT
    <3>3. CASE g \in net /\ g.from # h BY <3>3, <2>3, <1>t DEF NonceInv
    <3> QED BY <3>1, <3>2, <3>3, <2>2
  <2>6. NoncesDistinct'
    <3> SUFFICES ASSUME NEW a \in net', NEW b \in net', a.from = b.from, a.nonce = b.nonce
                 PROVE  a = b
      BY DEF NoncesDistinct
    <3>1. CASE a \in net /\ b \in net BY <3>1 DEF NonceInv, NoncesDistinct
    <3>2. CASE a = f /\ b \in net
      <4>1. b.nonce < f.nonce /\ b.nonce = f.nonce BY <3>2, <2>1, <2>4
      <4> QED BY <4>1, <2>1, SMT
    <3>3. CASE b = f /\ a \in net
      <4>1. a.nonce < f.nonce /\ a.nonce = f.nonce BY <3>3, <2>1, <2>4
      <4> QED BY <4>1, <2>1, SMT
    <3> QED BY <3>1, <3>2, <3>3, <2>2
  <2> QED BY <2>5, <2>6 DEF NonceInv
<1>2. ASSUME NEW h \in Hosts, NEW g \in Hosts, NEW k \in Keys, NEW theirs \in Keys,
             NEW n \in Nat, Dials(h, g, k, theirs, n)
      PROVE  NonceInv'
  <2>1. net' = net /\ nonce' = [nonce EXCEPT ![h] = n] /\ n > nonce[h] BY <1>2 DEF Dials
  <2>2. \A f \in net : f.nonce <= nonce'[f.from]
    <3> SUFFICES ASSUME NEW f \in net PROVE f.nonce <= nonce'[f.from] OBVIOUS
    <3>1. f.nonce <= nonce[f.from] BY DEF NonceInv
    <3>2. CASE f.from = h
      <4>1. nonce'[f.from] = n BY <3>2, <2>1, <1>t
      <4>2. f.nonce \in Nat /\ f.nonce <= nonce[h] /\ nonce[h] \in Nat BY <3>1, <3>2, <1>t, <1>n
      <4> QED BY <4>1, <4>2, <2>1, SMT
    <3>3. CASE f.from # h BY <3>1, <3>3, <2>1, <1>t
    <3> QED BY <3>2, <3>3
  <2> QED BY <2>1, <2>2 DEF NonceInv, NoncesDistinct
<1>3. CASE nonce' = nonce /\ net' = net BY <1>3 DEF NonceInv, NoncesDistinct
<1> QED
  BY <1>1, <1>2, <1>3, StepForms DEF Opens, Fails, Takes, cryptoGenAuthenticator, vars

\* An interface uses no nonce twice, for any number of tunnels and frames.
THEOREM NoncesFresh == Spec => []NoncesDistinct
<1>1. Spec => [](Types /\ NonceInv)
  BY TypesInit, TypesStep, NonceInit, NonceStep, PTL DEF Spec
<1>2. NonceInv => NoncesDistinct BY DEF NonceInv
<1> QED BY <1>1, <1>2, PTL

-----------------------------------------------------------------------------
(* Parity.                                                                 *)

\* The counter itself has the parity of the one side it served.
ParityInv ==
  /\ \A h \in Hosts : \A odd \in BOOLEAN :
       sides[h] \subseteq {odd} => nonce[h] = 0 \/ (nonce[h] % 2 = 1) = odd
  /\ \A f \in net : sides[f.from] # {}
  /\ ParityOfOneSide

LEMMA ParityInit == Init => ParityInv
BY DEF Init, ParityInv, ParityOfOneSide

Uses(h, o, n) ==
  /\ n = NonceGenerate(nonce[h], o)
  /\ nonce' = [nonce EXCEPT ![h] = n]
  /\ sides' = [sides EXCEPT ![h] = @ \cup {o}]

\* A generated nonce keeps the relation between counter and sides.
LEMMA ParityNonce ==
  ASSUME Types, ParityInv, NEW h \in Hosts, NEW o \in BOOLEAN, NEW n \in Nat,
         Uses(h, o, n)
  PROVE  /\ \A g \in Hosts : \A odd \in BOOLEAN :
              sides'[g] \subseteq {odd} => nonce'[g] = 0 \/ (nonce'[g] % 2 = 1) = odd
         /\ \A odd \in BOOLEAN : sides'[h] \subseteq {odd} => (n % 2 = 1) = odd
         /\ \A g \in Hosts : g # h => sides'[g] = sides[g]
         /\ sides'[h] = sides[h] \cup {o}
<1>1. /\ nonce'[h] = n /\ sides'[h] = sides[h] \cup {o}
      /\ \A g \in Hosts : g # h => nonce'[g] = nonce[g] /\ sides'[g] = sides[g]
  BY DEF Types, TypeOK, Uses
<1>2. \A odd \in BOOLEAN : sides'[h] \subseteq {odd} => (n % 2 = 1) = odd
  <2> SUFFICES ASSUME NEW odd \in BOOLEAN, sides'[h] \subseteq {odd}
               PROVE  (n % 2 = 1) = odd
    OBVIOUS
  <2>1. o = odd /\ sides[h] \subseteq {o} BY <1>1
  <2>2. nonce[h] = 0 \/ (nonce[h] % 2 = 1) = o BY <2>1 DEF ParityInv
  <2>3. nonce[h] \in Nat BY DEF Types, TypeOK
  <2>4. (n % 2 = 1) = o BY <2>2, <2>3, NonceOfSide DEF Uses
  <2> QED BY <2>1, <2>4
<1> QED BY <1>1, <1>2 DEF ParityInv

LEMMA ParityStep == Types /\ ParityInv /\ [Next]_vars => ParityInv'
<1> SUFFICES ASSUME Types, ParityInv, [Next]_vars PROVE ParityInv' OBVIOUS
<1>t. \A f \in net : f.from \in Hosts BY DEF Types, TypeOK, FrameType
<1>1. ASSUME NEW h \in Hosts, NEW id \in DOMAIN tunnels[h], NEW f \in FrameType, Seals(h, id, f)
      PROVE  ParityInv'
  <2> DEFINE o == tunnels[h][id].odd
  <2>1. o \in BOOLEAN BY <1>1 DEF Seals, TunnelType
  <2> DEFINE n == f.nonce
  <2>2. Uses(h, o, n) /\ n \in Nat /\ f.from = h /\ net' = net \cup {f}
    BY <1>1 DEF Seals, Uses
  <2> HIDE DEF o, n
  <2>3. /\ \A g \in Hosts : \A odd \in BOOLEAN :
              sides'[g] \subseteq {odd} => nonce'[g] = 0 \/ (nonce'[g] % 2 = 1) = odd
        /\ \A odd \in BOOLEAN : sides'[h] \subseteq {odd} => (n % 2 = 1) = odd
        /\ \A g \in Hosts : g # h => sides'[g] = sides[g]
        /\ sides'[h] = sides[h] \cup {o}
    BY <2>1, <2>2, ParityNonce
  <2>4. \A g \in net' : sides'[g.from] # {} BY <2>2, <2>3, <1>t DEF ParityInv
  <2>5. ParityOfOneSide'
    <3> SUFFICES ASSUME NEW g \in net', NEW odd \in BOOLEAN, sides'[g.from] = {odd}
                 PROVE  (g.nonce % 2 = 1) = odd
      BY DEF ParityOfOneSide
    <3>1. CASE g = f
      <4>1. sides'[h] \subseteq {odd} BY <3>1, <2>2
      <4> QED BY <4>1, <3>1, <2>3 DEF n
    <3>2. CASE g \in net
      <4>1. sides[g.from] # {} /\ g.from \in Hosts BY <3>2, <1>t DEF ParityInv
      <4>2. sides[g.from] = {odd} BY <4>1, <2>3
      <4> QED BY <3>2, <4>2 DEF ParityInv, ParityOfOneSide
    <3> QED BY <3>1, <3>2, <2>2
  <2> QED BY <2>3, <2>4, <2>5 DEF ParityInv
<1>2. ASSUME NEW h \in Hosts, NEW g \in Hosts, NEW k \in Keys, NEW theirs \in Keys,
             NEW n \in Nat, Dials(h, g, k, theirs, n)
      PROVE  ParityInv'
  <2> DEFINE o == ComputeSymmetricKey(Tunnel(g, theirs, TRUE), k).odd
  <2>1. o \in BOOLEAN BY <1>2 DEF Dials, TunnelType
  <2>2. Uses(h, o, n) /\ net' = net BY <1>2 DEF Dials, Uses
  <2> HIDE DEF o
  <2>3. /\ \A j \in Hosts : \A odd \in BOOLEAN :
              sides'[j] \subseteq {odd} => nonce'[j] = 0 \/ (nonce'[j] % 2 = 1) = odd
        /\ \A j \in Hosts : j # h => sides'[j] = sides[j]
        /\ sides'[h] = sides[h] \cup {o}
    BY <2>1, <2>2, ParityNonce
  <2>4. \A f \in net : sides'[f.from] # {} BY <2>3, <1>t DEF ParityInv
  <2>5. \A f \in net : \A odd \in BOOLEAN : sides'[f.from] = {odd} => (f.nonce % 2 = 1) = odd
    <3> SUFFICES ASSUME NEW f \in net, NEW odd \in BOOLEAN, sides'[f.from] = {odd}
                 PROVE  (f.nonce % 2 = 1) = odd
      OBVIOUS
    <3>1. sides[f.from] # {} /\ f.from \in Hosts BY <1>t DEF ParityInv
    <3>2. sides[f.from] = {odd} BY <3>1, <2>3
    <3> QED BY <3>2 DEF ParityInv, ParityOfOneSide
  <2> QED BY <2>2, <2>3, <2>4, <2>5 DEF ParityInv, ParityOfOneSide
<1>3. CASE nonce' = nonce /\ net' = net /\ sides' = sides
  BY <1>3 DEF ParityInv, ParityOfOneSide
<1> QED
  BY <1>1, <1>2, <1>3, StepForms DEF Opens, Fails, Takes, cryptoGenAuthenticator, vars

\* The nonces of an interface that has been on one side only have the parity
\* of that side.
THEOREM ParityHolds == Spec => []ParityOfOneSide
<1>1. Spec => [](Types /\ ParityInv)
  BY TypesInit, TypesStep, ParityInit, ParityStep, PTL DEF Spec
<1>2. ParityInv => ParityOfOneSide BY DEF ParityInv
<1> QED BY <1>1, <1>2, PTL

-----------------------------------------------------------------------------
(* Sides.                                                                  *)

\* The key pairs of a host.
LocalKeys(h) == drawn[h] \cup {IncomingKey[h], PermanentKey[h]}

\* A tunnel's key and side come from its remote's key and one local key pair.
Agreed(h, er) ==
  \E l \in LocalKeys(h) : er.key # l /\ er.sym = {er.key, l} /\ er.odd = (er.key > l)

KeyInv ==
  /\ \A h \in Hosts : \A id \in DOMAIN tunnels[h] : Agreed(h, tunnels[h][id])
  /\ \A g, h \in Hosts : g # h => drawn[g] \cap drawn[h] = {}

LEMMA KeyInit == Init => KeyInv
BY DEF Init, KeyInv

LEMMA KeyStep == Types /\ KeyInv /\ [Next]_vars => KeyInv'
<1> SUFFICES ASSUME Types, KeyInv, [Next]_vars PROVE KeyInv' OBVIOUS
<1>1. ASSUME NEW h \in Hosts, NEW g \in Hosts, NEW k \in Keys, NEW theirs \in Keys,
             NEW n \in Nat, Dials(h, g, k, theirs, n)
      PROVE  KeyInv'
  <2> DEFINE er == ComputeSymmetricKey(Tunnel(g, theirs, TRUE), k)
             id == TunnelId(er, n)
  <2>1. /\ theirs # k /\ (\A i \in Hosts : k \notin drawn[i])
        /\ drawn' = [drawn EXCEPT ![h] = @ \cup {k}]
        /\ er \in TunnelType /\ id \in Ids
    BY <1>1 DEF Dials
  <2>2. er.key = theirs /\ er.sym = {theirs, k} /\ er.odd = (theirs > k)
    BY DEF ComputeSymmetricKey, Tunnel
  <2>3. \A j \in Hosts : \A i \in DOMAIN tunnels'[j] :
          \/ j = h /\ tunnels'[j][i] = er
          \/ i \in DOMAIN tunnels[j] /\ tunnels'[j][i] = tunnels[j][i]
    <3>1. Puts(h, id, er) BY <1>1 DEF Dials, Puts
    <3> HIDE DEF er, id
    <3> QED BY <2>1, <3>1, TableType DEF Types
  <2> HIDE DEF er, id
  <2>4. drawn'[h] = drawn[h] \cup {k} /\ \A j \in Hosts : j # h => drawn'[j] = drawn[j]
    BY <2>1 DEF Types, TypeOK
  <2>5. \A j \in Hosts : LocalKeys(j) \subseteq LocalKeys(j)'
    BY <2>4 DEF LocalKeys
  <2>6. k \in LocalKeys(h)' BY <2>4 DEF LocalKeys
  <2>7. Agreed(h, er)' BY <2>1, <2>2, <2>6 DEF Agreed
  <2>8. \A j \in Hosts : \A i \in DOMAIN tunnels'[j] : Agreed(j, tunnels[j][i])'
    <3> SUFFICES ASSUME NEW j \in Hosts, NEW i \in DOMAIN tunnels'[j]
                 PROVE  Agreed(j, tunnels[j][i])'
      OBVIOUS
    <3>1. CASE j = h /\ tunnels'[j][i] = er BY <3>1, <2>7 DEF Agreed
    <3>2. CASE i \in DOMAIN tunnels[j] /\ tunnels'[j][i] = tunnels[j][i]
      <4>1. Agreed(j, tunnels[j][i]) BY <3>2 DEF KeyInv
      <4> QED BY <4>1, <3>2, <2>5 DEF Agreed
    <3> QED BY <3>1, <3>2, <2>3
  <2>9. \A i, j \in Hosts : i # j => drawn'[i] \cap drawn'[j] = {}
    BY <2>1, <2>4 DEF KeyInv
  <2> QED BY <2>8, <2>9 DEF KeyInv
<1>2. ASSUME NEW h \in Hosts, NEW f \in net, NEW er \in TunnelType, NEW base \in TunnelType,
             Opens(h, f, er, base) \/ Fails(h, f, er, base)
      PROVE  KeyInv'
  <2>1. Takes(h, f, er, base) /\ drawn' = drawn BY <1>2 DEF Opens, Fails, Takes
  <2>2. er.key = base.key /\ Rekeyed(h, base, er) BY <1>2, TriedKeepsOut
  <2>3. Agreed(h, base)
    <3>1. base \in TunnelFor(h, f) BY <2>1 DEF Takes
    <3>2. CASE f.id \in DOMAIN tunnels[h] /\ base = tunnels[h][f.id]
      BY <3>2 DEF KeyInv
    <3>3. CASE /\ f.key # IncomingKey[h] /\ base.key = f.key
               /\ base.sym = {f.key, IncomingKey[h]} /\ base.odd = (f.key > IncomingKey[h])
      BY <3>3 DEF Agreed, LocalKeys
    <3> QED BY <3>1, <3>2, <3>3, BaseIs
  <2>4. Agreed(h, er)
    <3>1. CASE er.sym = base.sym /\ er.odd = base.odd
      BY <3>1, <2>2, <2>3 DEF Agreed
    <3>2. CASE /\ base.key # PermanentKey[h]
               /\ er.sym = {base.key, PermanentKey[h]} /\ er.odd = (base.key > PermanentKey[h])
      BY <3>2, <2>2 DEF Agreed, LocalKeys
    <3> QED BY <3>1, <3>2, <2>2 DEF Rekeyed
  <2>5. \A j \in Hosts : \A i \in DOMAIN tunnels'[j] :
          \/ j = h /\ tunnels'[j][i] = er
          \/ i \in DOMAIN tunnels[j] /\ tunnels'[j][i] = tunnels[j][i]
    BY <2>1, TakesTable
  <2>6. \A j \in Hosts : \A i \in DOMAIN tunnels'[j] : Agreed(j, tunnels'[j][i])
    BY <2>4, <2>5 DEF KeyInv
  <2> QED BY <2>1, <2>6 DEF KeyInv, Agreed, LocalKeys
<1>3. CASE tunnels' = tunnels /\ drawn' = drawn
  BY <1>3 DEF KeyInv, Agreed, LocalKeys
<1> QED BY <1>1, <1>2, <1>3, StepForms DEF Seals, cryptoGenAuthenticator, vars

\* Two hosts have no key pair in common.
LEMMA LocalKeysApart ==
  ASSUME Types, KeyInv, NEW g \in Hosts, NEW h \in Hosts, g # h
  PROVE  LocalKeys(g) \cap LocalKeys(h) = {} /\ LocalKeys(g) \subseteq Nat
<1>1. drawn[g] \subseteq OutgoingKeys /\ drawn[h] \subseteq OutgoingKeys
  BY DEF Types, TypeOK
<1>2. drawn[g] \cap drawn[h] = {} BY DEF KeyInv
<1> QED BY <1>1, <1>2, EnvelopeAssumption DEF LocalKeys

LEMMA AgreedSides == Types /\ KeyInv => SidesAgree
<1> SUFFICES ASSUME Types, KeyInv, NEW g \in Hosts, NEW h \in Hosts, g # h,
                    NEW i \in DOMAIN tunnels[h], NEW j \in DOMAIN tunnels[g],
                    tunnels[h][i].sym = tunnels[g][j].sym
             PROVE  tunnels[h][i].odd # tunnels[g][j].odd
  BY DEF SidesAgree
<1> DEFINE a == tunnels[h][i]
           b == tunnels[g][j]
<1>1. PICK l \in LocalKeys(h) : a.key # l /\ a.sym = {a.key, l} /\ a.odd = (a.key > l)
  BY DEF KeyInv, Agreed
<1>2. PICK m \in LocalKeys(g) : b.key # m /\ b.sym = {b.key, m} /\ b.odd = (b.key > m)
  BY DEF KeyInv, Agreed
<1>3. l # m /\ l \in Nat /\ m \in Nat BY LocalKeysApart
<1>4. {a.key, l} = {b.key, m} BY <1>1, <1>2
<1>5. a.key = m /\ b.key = l BY <1>1, <1>2, <1>3, <1>4
<1>6. (m > l) # (l > m) BY <1>3, SMT
<1> QED BY <1>1, <1>2, <1>5, <1>6

\* The ends of a tunnel that hold the same key are on different sides.
THEOREM SidesDiffer == Spec => []SidesAgree
<1>1. Spec => [](Types /\ KeyInv)
  BY TypesInit, TypesStep, KeyInit, KeyStep, PTL DEF Spec
<1> QED BY <1>1, AgreedSides, PTL

-----------------------------------------------------------------------------
(* Order of opening.                                                       *)

\* A tunnel id was made with a key pair drawn before.
Spent(id) ==
  \E k \in OutgoingKeys, x \in Nat, n \in Nat :
    /\ id = <<{k, x}, n>> /\ x \notin OutgoingKeys
    /\ \E i \in Hosts : k \in drawn[i]

OpenInv ==
  /\ \A f \in net : Spent(f.id)
  /\ \A h \in Hosts : \A id \in DOMAIN tunnels[h] : Spent(id)
  /\ \A h \in Hosts : \A i \in DOMAIN opened[h] :
       /\ opened[h][i].id \in DOMAIN tunnels[h]
       /\ opened[h][i].nonce <= tunnels[h][opened[h][i].id].nonce
  /\ OpenedInOrder

LEMMA SpentSame == ASSUME drawn' = drawn PROVE \A i : Spent(i) => Spent(i)'
BY DEF Spent

LEMMA OpenInit == Init => OpenInv
BY DEF Init, OpenInv, OpenedInOrder

\* The id of a newly dialled tunnel is in no table yet.
LEMMA DialledIdNew ==
  ASSUME Types, NEW h \in Hosts, NEW g \in Hosts, NEW k \in Keys, NEW theirs \in Keys,
         NEW n \in Nat, Dials(h, g, k, theirs, n)
  PROVE  LET id == TunnelId(ComputeSymmetricKey(Tunnel(g, theirs, TRUE), k), n)
         IN  ~Spent(id) /\ Spent(id)' /\ \A i : Spent(i) => Spent(i)'
<1> DEFINE er == ComputeSymmetricKey(Tunnel(g, theirs, TRUE), k)
           id == TunnelId(er, n)
<1>1. er.sym = {theirs, k} BY DEF ComputeSymmetricKey, Tunnel
<1>2. id = <<{k, theirs}, n>>
  <2> HIDE DEF er
  <2> QED BY <1>1 DEF TunnelId
<1>3. /\ k \in OutgoingKeys /\ (\A i \in Hosts : k \notin drawn[i])
      /\ theirs \in Nat /\ theirs \notin OutgoingKeys
      /\ drawn' = [drawn EXCEPT ![h] = @ \cup {k}]
  BY KeyFacts, EnvelopeAssumption DEF Dials
<1> HIDE DEF id
<1>4. ~Spent(id)
  <2> SUFFICES ASSUME NEW y \in OutgoingKeys, NEW x \in Nat, NEW m \in Nat,
                      id = <<{y, x}, m>>, x \notin OutgoingKeys, NEW i \in Hosts, y \in drawn[i]
               PROVE  FALSE
    BY DEF Spent
  <2>1. {k, theirs} = {y, x} BY <1>2
  <2>2. k # y /\ k # x BY <1>3
  <2> QED BY <2>1, <2>2
<1>5. \A i \in Hosts : drawn[i] \subseteq drawn'[i] BY <1>3 DEF Types, TypeOK
<1>6. k \in drawn'[h] BY <1>3 DEF Types, TypeOK
<1>7. Spent(id)'
  BY <1>2, <1>3, <1>6 DEF Spent
<1>8. \A i : Spent(i) => Spent(i)' BY <1>5 DEF Spent
<1> QED BY <1>4, <1>7, <1>8 DEF id

LEMMA OpenStep == Types /\ OpenInv /\ [Next]_vars => OpenInv'
<1> SUFFICES ASSUME Types, OpenInv, [Next]_vars PROVE OpenInv' OBVIOUS
<1>1. ASSUME NEW h \in Hosts, NEW g \in Hosts, NEW k \in Keys, NEW theirs \in Keys,
             NEW n \in Nat, Dials(h, g, k, theirs, n)
      PROVE  OpenInv'
  <2> DEFINE er == ComputeSymmetricKey(Tunnel(g, theirs, TRUE), k)
             id == TunnelId(er, n)
  <2>1. er \in TunnelType /\ id \in Ids /\ net' = net /\ opened' = opened /\ Puts(h, id, er)
    BY <1>1 DEF Dials, Puts
  <2>2. ~Spent(id) /\ Spent(id)' /\ \A i : Spent(i) => Spent(i)'
    BY <1>1, DialledIdNew
  <2> HIDE DEF er, id
  <2>3. /\ \A j \in Hosts : \A i \in DOMAIN tunnels'[j] :
              \/ j = h /\ i = id /\ tunnels'[j][i] = er
              \/ (j # h \/ i # id) /\ i \in DOMAIN tunnels[j] /\ tunnels'[j][i] = tunnels[j][i]
        /\ \A j \in Hosts : DOMAIN tunnels[j] \subseteq DOMAIN tunnels'[j]
    BY <2>1, TableType DEF Types
  <2>4. \A j \in Hosts : \A i \in DOMAIN tunnels'[j] : Spent(i)'
    BY <2>2, <2>3 DEF OpenInv
  <2>5. \A j \in Hosts : \A i \in DOMAIN tunnels[j] : i # id
    BY <2>2 DEF OpenInv
  <2>6. \A j \in Hosts : \A i \in DOMAIN tunnels[j] :
          i \in DOMAIN tunnels'[j] /\ tunnels'[j][i] = tunnels[j][i]
    BY <2>3, <2>5
  <2>7. \A j \in Hosts : \A i \in DOMAIN opened'[j] :
          /\ opened'[j][i].id \in DOMAIN tunnels'[j]
          /\ opened'[j][i].nonce <= tunnels'[j][opened'[j][i].id].nonce
    BY <2>1, <2>6 DEF OpenInv
  <2>8. \A f \in net' : Spent(f.id)' BY <2>1, <2>2 DEF OpenInv
  <2> QED BY <2>1, <2>4, <2>7, <2>8 DEF OpenInv, OpenedInOrder
<1>2. ASSUME NEW h \in Hosts, NEW id \in DOMAIN tunnels[h], NEW f \in FrameType, Seals(h, id, f)
      PROVE  OpenInv'
  <2>1. /\ net' = net \cup {f} /\ f.id = id /\ tunnels' = tunnels /\ opened' = opened
        /\ drawn' = drawn
    BY <1>2 DEF Seals
  <2>2. \A g \in net' : Spent(g.id)' BY <2>1, SpentSame DEF OpenInv
  <2>3. OpenedInOrder' BY <2>1 DEF OpenInv, OpenedInOrder
  <2>4. \A g \in Hosts : \A i \in DOMAIN tunnels'[g] : Spent(i)'
    BY <2>1, SpentSame DEF OpenInv
  <2> QED BY <2>1, <2>2, <2>3, <2>4 DEF OpenInv
<1>3. ASSUME NEW h \in Hosts, NEW f \in net, NEW er \in TunnelType, NEW base \in TunnelType,
             Opens(h, f, er, base) \/ Fails(h, f, er, base)
      PROVE  OpenInv'
  <2>1. Takes(h, f, er, base) /\ drawn' = drawn /\ net' = net
    BY <1>3 DEF Opens, Fails, Takes
  <2>2. base.nonce <= er.nonce /\ f.nonce > base.nonce /\ f.to = h
    BY <1>3, TriedKeepsOut DEF Opens, Fails, Takes
  <2>3. /\ \A g \in Hosts : \A i \in DOMAIN tunnels'[g] :
              \/ g = h /\ i = f.id /\ tunnels'[g][i] = er
              \/ (g # h \/ i # f.id) /\ i \in DOMAIN tunnels[g] /\ tunnels'[g][i] = tunnels[g][i]
        /\ f.id \in DOMAIN tunnels'[h] /\ tunnels'[h][f.id] = er
        /\ \A g \in Hosts : DOMAIN tunnels[g] \subseteq DOMAIN tunnels'[g]
    BY <2>1, TakesTable
  <2>n. /\ \A g \in Hosts : \A i \in DOMAIN tunnels[g] : tunnels[g][i].nonce \in 0..MaxNonce
        /\ er.nonce \in 0..MaxNonce /\ base.nonce \in 0..MaxNonce /\ f.nonce \in 1..MaxNonce
    BY DEF Types, TypeOK, TunnelType, FrameType
  <2>4. /\ \A g \in Hosts : \A i \in DOMAIN tunnels'[g] : Spent(i)'
        /\ \A g \in net' : Spent(g.id)'
    <3>1. \A i : Spent(i) => Spent(i)' BY <2>1, SpentSame
    <3> QED BY <2>1, <2>3, <3>1 DEF OpenInv
  <2>5. f.id \in DOMAIN tunnels[h] => base = tunnels[h][f.id]
    <3>1. base \in TunnelFor(h, f) BY <2>1 DEF Takes
    <3> QED BY <3>1, BaseIs
  <2>6. \A g \in Hosts : \A i \in DOMAIN tunnels[g] :
          i \in DOMAIN tunnels'[g] /\ tunnels[g][i].nonce <= tunnels'[g][i].nonce
    <3> SUFFICES ASSUME NEW g \in Hosts, NEW i \in DOMAIN tunnels[g]
                 PROVE  i \in DOMAIN tunnels'[g] /\ tunnels[g][i].nonce <= tunnels'[g][i].nonce
      OBVIOUS
    <3>1. i \in DOMAIN tunnels'[g] BY <2>3
    <3>2. CASE g = h /\ i = f.id BY <3>1, <3>2, <2>2, <2>3, <2>5
    <3>3. CASE g # h \/ i # f.id
      <4>1. tunnels'[g][i] = tunnels[g][i] BY <3>1, <3>3, <2>3
      <4>2. tunnels[g][i].nonce \in Nat BY <2>n, EnvelopeAssumption
      <4> QED BY <3>1, <4>1, <4>2, SMT
    <3> QED BY <3>2, <3>3
  <2>7. \A g \in Hosts : \A i \in DOMAIN opened[g] :
          /\ opened[g][i].id \in DOMAIN tunnels'[g]
          /\ opened[g][i].nonce <= tunnels'[g][opened[g][i].id].nonce
    <3> SUFFICES ASSUME NEW g \in Hosts, NEW i \in DOMAIN opened[g]
                 PROVE  /\ opened[g][i].id \in DOMAIN tunnels'[g]
                        /\ opened[g][i].nonce <= tunnels'[g][opened[g][i].id].nonce
      OBVIOUS
    <3> DEFINE o == opened[g][i]
    <3>1. o.id \in DOMAIN tunnels[g] /\ o.nonce <= tunnels[g][o.id].nonce /\ o \in net
      BY DEF OpenInv, OpenedInOrder
    <3>2. o.id \in DOMAIN tunnels'[g] /\ tunnels[g][o.id].nonce <= tunnels'[g][o.id].nonce
      BY <3>1, <2>6
    <3>3. o.nonce \in Nat BY <3>1 DEF Types, TypeOK, FrameType
    <3>4. tunnels[g][o.id].nonce \in Nat BY <3>1, <2>n
    <3>5. tunnels'[g][o.id].nonce \in Nat
      <4>1. tunnels'[g][o.id] = er \/ tunnels'[g][o.id] = tunnels[g][o.id] BY <3>2, <2>3
      <4> QED BY <4>1, <3>4, <2>n
    <3> HIDE DEF o
    <3>6. o.nonce <= tunnels'[g][o.id].nonce BY <3>1, <3>2, <3>3, <3>4, <3>5, SMT
    <3> QED BY <3>2, <3>6 DEF o
  <2>8. CASE Fails(h, f, er, base)
    <3>1. opened' = opened BY <2>8 DEF Fails
    <3>2. OpenedInOrder' BY <3>1, <2>1 DEF OpenInv, OpenedInOrder
    <3> QED BY <3>1, <3>2, <2>1, <2>4, <2>7 DEF OpenInv
  <2>9. CASE Opens(h, f, er, base)
    <3>1. opened' = [opened EXCEPT ![h] = Append(@, f)] BY <2>9 DEF Opens
    <3>2. opened[h] \in Seq(FrameType) /\ f \in FrameType BY DEF Types, TypeOK
    <3> DEFINE s == opened[h]
               N == Len(s)
    <3>3. /\ opened'[h] = Append(s, f) /\ \A g \in Hosts : g # h => opened'[g] = opened[g]
      BY <3>1 DEF Types, TypeOK
    <3>4. /\ DOMAIN s = 1..N /\ N \in Nat
          /\ DOMAIN opened'[h] = 1..(N + 1)
          /\ opened'[h][N + 1] = f
          /\ \A i \in 1..N : opened'[h][i] = s[i]
      BY <3>2, <3>3
    <3>5. er.nonce = f.nonce
      <4>1. PICK t \in {base, SecondKey(h, base)} : er = [t EXCEPT !.nonce = f.nonce]
        BY <2>9 DEF Opens, Tried
      <4>2. t \in TunnelType BY ComputedType, KeyFacts DEF SecondKey
      <4> QED BY <4>1, <4>2 DEF TunnelType
    <3>6. \A i \in 1..N : s[i].id = f.id => s[i].nonce < f.nonce
      <4> SUFFICES ASSUME NEW i \in 1..N, s[i].id = f.id PROVE s[i].nonce < f.nonce
        OBVIOUS
      <4>1. s[i].id \in DOMAIN tunnels[h] /\ s[i].nonce <= tunnels[h][s[i].id].nonce /\ s[i] \in net
        BY <3>4 DEF OpenInv, OpenedInOrder
      <4>2. s[i].nonce <= base.nonce BY <4>1, <2>5
      <4>3. s[i].nonce \in 1..MaxNonce BY <4>1 DEF Types, TypeOK, FrameType
      <4> QED BY <4>2, <4>3, <2>2, <2>n, EnvelopeAssumption, SMT
    <3> HIDE DEF s, N
    <3>7. \A i \in DOMAIN opened'[h] :
            /\ opened'[h][i].id \in DOMAIN tunnels'[h]
            /\ opened'[h][i].nonce <= tunnels'[h][opened'[h][i].id].nonce
      <4> SUFFICES ASSUME NEW i \in 1..(N + 1)
                   PROVE  /\ opened'[h][i].id \in DOMAIN tunnels'[h]
                          /\ opened'[h][i].nonce <= tunnels'[h][opened'[h][i].id].nonce
        BY <3>4
      <4>1. CASE i = N + 1
        <5>1. f.nonce <= f.nonce BY <2>n, EnvelopeAssumption, SMT
        <5> QED BY <4>1, <5>1, <3>4, <3>5, <2>3
      <4>2. CASE i # N + 1
        <5>1. i \in 1..N BY <4>2, <3>4, SMT
        <5>2. i \in DOMAIN opened[h] /\ opened'[h][i] = opened[h][i] BY <5>1, <3>4 DEF s
        <5> QED BY <5>2, <2>7
      <4> QED BY <4>1, <4>2
    <3>8. \A i \in DOMAIN opened'[h] :
            /\ opened'[h][i] \in net /\ opened'[h][i].to = h
            /\ \A j \in 1..(i - 1) :
                 opened'[h][i].id = opened'[h][j].id => opened'[h][j].nonce < opened'[h][i].nonce
      <4> SUFFICES ASSUME NEW i \in 1..(N + 1)
                   PROVE  /\ opened'[h][i] \in net /\ opened'[h][i].to = h
                          /\ \A j \in 1..(i - 1) : opened'[h][i].id = opened'[h][j].id
                               => opened'[h][j].nonce < opened'[h][i].nonce
        BY <3>4
      <4>1. CASE i = N + 1
        <5>1. \A j \in 1..(i - 1) : j \in 1..N BY <4>1, <3>4, SMT
        <5>2. \A j \in 1..(i - 1) : opened'[h][j] = s[j] BY <5>1, <3>4
        <5> QED BY <4>1, <5>1, <5>2, <3>4, <3>6, <2>2
      <4>2. CASE i # N + 1
        <5>1. i \in 1..N /\ \A j \in 1..(i - 1) : j \in 1..N BY <4>2, <3>4, SMT
        <5>2. opened'[h][i] = s[i] /\ \A j \in 1..(i - 1) : opened'[h][j] = s[j]
          BY <5>1, <3>4
        <5>3. i \in DOMAIN opened[h] BY <5>1, <3>4 DEF s
        <5> QED BY <5>2, <5>3 DEF OpenInv, OpenedInOrder, s
      <4> QED BY <4>1, <4>2
    <3>9. OpenedInOrder'
      BY <3>3, <3>8, <2>1 DEF OpenInv, OpenedInOrder
    <3>10. \A g \in Hosts : \A i \in DOMAIN opened'[g] :
             /\ opened'[g][i].id \in DOMAIN tunnels'[g]
             /\ opened'[g][i].nonce <= tunnels'[g][opened'[g][i].id].nonce
      BY <3>3, <3>7, <2>7
    <3> QED BY <3>9, <3>10, <2>4 DEF OpenInv
  <2> QED BY <1>3, <2>8, <2>9
<1>4. CASE UNCHANGED <<net, tunnels, opened, drawn>>
  <2>1. \A i : Spent(i) => Spent(i)' BY <1>4, SpentSame
  <2>2. OpenedInOrder' BY <1>4 DEF OpenInv, OpenedInOrder
  <2> QED BY <1>4, <2>1, <2>2 DEF OpenInv
<1> QED BY <1>1, <1>2, <1>3, <1>4, StepForms DEF cryptoGenAuthenticator, vars

\* What a tunnel passes on was sealed for it and comes in the order of
\* sealing, each frame once.
THEOREM OpenedOnceInOrder == Spec => []OpenedInOrder
<1>1. Spec => [](Types /\ OpenInv)
  BY TypesInit, TypesStep, OpenInit, OpenStep, PTL DEF Spec
<1>2. OpenInv => OpenedInOrder BY DEF OpenInv
<1> QED BY <1>1, <1>2, PTL

-----------------------------------------------------------------------------
(* What the receiver can decrypt.                                          *)

\* An id of a tunnel that d dialled to g: it names the tunnel's key, made from
\* one of the two keys of g and a key pair that d drew.
Way(d, g, id) ==
  /\ d # g
  /\ \E k \in OutgoingKeys, theirs \in {IncomingKey[g], PermanentKey[g]}, n \in Nat :
       id = <<{theirs, k}, n>>

\* Who dialled a tunnel, and who sends first packets on it.
WayInv ==
  /\ \A h \in Hosts : \A id \in DOMAIN tunnels[h] :
       /\ tunnels[h][id].out => Way(h, tunnels[h][id].peer, id)
       /\ ~tunnels[h][id].out => Way(tunnels[h][id].peer, h, id)
  /\ \A f \in net : f.first => Way(f.from, f.to, f.id)

Intact(id) == damaged = 0 /\ KeysCurrent(id)

\* A tunnel at either end of an id.
Sound(er, id) ==
  er.sym = id[1] /\ (~er.out => er.key \in id[1] \cap OutgoingKeys)

\* While nothing was damaged and the first packets carried the key the tunnel
\* was made with, both ends and all frames hold the key that the id names.
SoundInv ==
  /\ \A h \in Hosts : \A id \in DOMAIN tunnels[h] : Intact(id) => Sound(tunnels[h][id], id)
  /\ \A f \in net : Intact(f.id) => f.sym = f.id[1]

LEMMA WayInit == Init => WayInv /\ SoundInv
BY DEF Init, WayInv, SoundInv

\* An id names one key pair drawn, and the host that was dialled.
LEMMA WayNames ==
  ASSUME NEW d \in Hosts, NEW g \in Hosts, NEW id, Way(d, g, id)
  PROVE  /\ \E k \in OutgoingKeys :
              /\ id[1] \cap OutgoingKeys = {k}
              /\ id[1] = {k, IncomingKey[g]} \/ id[1] = {k, PermanentKey[g]}
         /\ \A p \in Hosts : ~Way(g, p, id)
<1>1. PICK k \in OutgoingKeys, theirs \in {IncomingKey[g], PermanentKey[g]}, n \in Nat :
        id = <<{theirs, k}, n>>
  BY DEF Way
<1>2. theirs \notin OutgoingKeys BY EnvelopeAssumption
<1>3. id[1] = {theirs, k} BY <1>1
<1>4. id[1] \cap OutgoingKeys = {k} BY <1>2, <1>3
<1>5. ASSUME NEW p \in Hosts, Way(g, p, id) PROVE FALSE
  <2>1. g # p BY <1>5 DEF Way
  <2>2. PICK l \in OutgoingKeys, ours \in {IncomingKey[p], PermanentKey[p]}, m \in Nat :
          id = <<{ours, l}, m>>
    BY <1>5 DEF Way
  <2>3. id[1] = {ours, l} BY <2>2
  <2>4. ours \notin OutgoingKeys BY EnvelopeAssumption
  <2>5. ours = theirs BY <1>2, <1>3, <2>3, <2>4
  <2> QED BY <2>1, <2>5, EnvelopeAssumption
<1> QED BY <1>3, <1>4, <1>5

\* Whatever tunnel a frame is for, new or known, it decrypts there.
LEMMA Decryptable ==
  ASSUME Types, WayInv, SoundInv, NEW f \in net, Intact(f.id),
         NEW h \in Hosts, h = f.to, NEW base \in TunnelFor(h, f)
  PROVE  Decrypts(Tried(h, base, f), f)
<1>1. f.sym = f.id[1] BY DEF SoundInv
<1>2. CASE f.id \in DOMAIN tunnels[h] /\ base = tunnels[h][f.id]
  <2>1. base.sym = f.id[1] BY <1>2 DEF SoundInv, Sound
  <2> QED BY <1>1, <2>1 DEF Tried, Decrypts
<1>3. CASE /\ f.id \notin DOMAIN tunnels[h] /\ f.first
           /\ base.key = f.key /\ base.sym = {f.key, IncomingKey[h]}
  <2>1. f.from \in Hosts /\ f.to \in Hosts BY DEF Types, TypeOK, FrameType
  <2>2. Way(f.from, h, f.id) BY <1>3 DEF WayInv
  <2>3. PICK k \in OutgoingKeys :
          /\ f.id[1] \cap OutgoingKeys = {k}
          /\ f.id[1] = {k, IncomingKey[h]} \/ f.id[1] = {k, PermanentKey[h]}
    BY <2>1, <2>2, WayNames
  <2>4. f.key \in f.sym BY <1>3 DEF Intact, KeysCurrent
  <2>5. f.key \in OutgoingKeys BY <1>3 DEF Types, FirstKeys
  <2>6. f.key = k BY <1>1, <2>3, <2>4, <2>5
  <2>7. base.key # PermanentKey[h] BY <1>3, <2>5, EnvelopeAssumption
  <2>8. SecondKey(h, base).sym = {k, PermanentKey[h]}
    <3>1. base \in TunnelType
      <4>1. base \in TunnelFor(h, f) OBVIOUS
      <4> QED BY <4>1, TriedType DEF Types
    <3> QED BY <1>3, <2>6, <2>7, <3>1 DEF SecondKey, ComputeSymmetricKey, TunnelType
  <2>9. base.sym = {k, IncomingKey[h]} BY <1>3, <2>6
  <2> QED BY <1>1, <2>3, <2>8, <2>9 DEF Tried, Decrypts
<1> QED BY <1>2, <1>3, BaseIs

\* A frame that may be opened finds a tunnel.
LEMMA Addressable ==
  ASSUME Types, WayInv, SoundInv, NEW f \in net, Intact(f.id),
         f.first \/ Known(f.to, f)
  PROVE  TunnelFor(f.to, f) # {}
<1> DEFINE h == f.to
<1>1. f.from \in Hosts /\ h \in Hosts BY DEF Types, TypeOK, FrameType
<1>2. CASE ~f.first BY <1>2 DEF TunnelFor, Known
<1>3. CASE f.first
  <2>1. Way(f.from, h, f.id) BY <1>3 DEF WayInv
  <2>2. f.key \in OutgoingKeys BY <1>3 DEF Types, FirstKeys
  <2>3. CASE ~Known(h, f)
    <3>1. f.key # IncomingKey[h] BY <1>1, <2>2, EnvelopeAssumption
    <3> QED BY <1>3, <2>3, <3>1 DEF TunnelFor
  <2>4. CASE Known(h, f)
    <3> DEFINE er == tunnels[h][f.id]
    <3>1. er.peer \in Hosts BY <1>1, <2>4 DEF Known, Types, TypeOK, TunnelType
    <3>2. ~er.out
      <4>1. ~Way(h, er.peer, f.id) BY <1>1, <2>1, <3>1, WayNames
      <4> QED BY <1>1, <2>4, <4>1 DEF WayInv, Known
    <3>3. er.key \in f.id[1] \cap OutgoingKeys
      BY <1>1, <2>4, <3>2 DEF SoundInv, Sound, Known
    <3>4. f.key \in f.id[1] \cap OutgoingKeys
      <4>1. f.key \in f.sym BY <1>3 DEF Intact, KeysCurrent
      <4> QED BY <2>2, <4>1 DEF SoundInv
    <3>5. f.key = er.key BY <1>1, <2>1, <3>3, <3>4, WayNames
    <3> QED BY <2>4, <3>5 DEF TunnelFor
  <2> QED BY <2>3, <2>4
<1> QED BY <1>2, <1>3

\* What was intact after a step was intact before it.
LEMMA IntactBefore ==
  ASSUME net \subseteq net', damaged' = 0 => damaged = 0
  PROVE  \A i : Intact(i)' => Intact(i)
BY DEF Intact, KeysCurrent

LEMMA WayStep == Types /\ WayInv /\ SoundInv /\ [Next]_vars => WayInv' /\ SoundInv'
<1> SUFFICES ASSUME Types, WayInv, SoundInv, [Next]_vars PROVE WayInv' /\ SoundInv'
  OBVIOUS
<1>1. ASSUME NEW h \in Hosts, NEW g \in Hosts, NEW k \in Keys, NEW theirs \in Keys,
             NEW n \in Nat, Dials(h, g, k, theirs, n)
      PROVE  WayInv' /\ SoundInv'
  <2> DEFINE er == ComputeSymmetricKey(Tunnel(g, theirs, TRUE), k)
             id == TunnelId(er, n)
  <2>1. /\ g # h /\ k \in OutgoingKeys /\ theirs \in {IncomingKey[g], PermanentKey[g]}
        /\ er \in TunnelType /\ id \in Ids /\ net' = net /\ damaged' = damaged
    BY <1>1 DEF Dials
  <2>2. er.sym = {theirs, k} /\ er.out = TRUE /\ er.peer = g
    BY DEF ComputeSymmetricKey, Tunnel
  <2>3. id = <<{theirs, k}, n>> BY <2>2 DEF TunnelId
  <2>4. Puts(h, id, er) BY <1>1 DEF Dials, Puts
  <2> HIDE DEF er, id
  <2>5. \A j \in Hosts : \A i \in DOMAIN tunnels'[j] :
          \/ j = h /\ i = id /\ tunnels'[j][i] = er
          \/ i \in DOMAIN tunnels[j] /\ tunnels'[j][i] = tunnels[j][i]
    BY <2>1, <2>4, TableType DEF Types
  <2>6. Way(h, g, id) BY <2>1, <2>3 DEF Way
  <2>7. Sound(er, id) BY <2>2, <2>3 DEF Sound
  <2>8. WayInv'
    <3>1. \A j \in Hosts : \A i \in DOMAIN tunnels'[j] :
            /\ tunnels'[j][i].out => Way(j, tunnels'[j][i].peer, i)
            /\ ~tunnels'[j][i].out => Way(tunnels'[j][i].peer, j, i)
      BY <2>2, <2>5, <2>6 DEF WayInv
    <3> QED BY <2>1, <3>1 DEF WayInv, Way
  <2>9. SoundInv'
    <3>1. \A i : Intact(i)' => Intact(i) BY <2>1, IntactBefore
    <3>2. \A j \in Hosts : \A i \in DOMAIN tunnels'[j] : Intact(i)' => Sound(tunnels'[j][i], i)
      BY <2>5, <2>7, <3>1 DEF SoundInv
    <3> QED BY <2>1, <3>1, <3>2 DEF SoundInv, Sound
  <2> QED BY <2>8, <2>9
<1>2. ASSUME NEW h \in Hosts, NEW id \in DOMAIN tunnels[h], NEW f \in FrameType,
             Seals(h, id, f)
      PROVE  WayInv' /\ SoundInv'
  <2> DEFINE er == tunnels[h][id]
  <2>1. /\ net' = net \cup {f} /\ tunnels' = tunnels /\ damaged' = damaged
        /\ f.from = h /\ f.to = er.peer /\ f.id = id /\ f.sym = er.sym
        /\ f.first => er.out
    BY <1>2 DEF Seals
  <2>2. f.first => Way(f.from, f.to, f.id) BY <2>1 DEF WayInv
  <2>3. \A i : Intact(i)' => Intact(i) BY <2>1, IntactBefore
  <2>4. Intact(f.id)' => f.sym = f.id[1]
    BY <2>1, <2>3 DEF SoundInv, Sound
  <2>5. WayInv' BY <2>1, <2>2 DEF WayInv, Way
  <2>6. SoundInv' BY <2>1, <2>3, <2>4 DEF SoundInv, Sound
  <2> QED BY <2>5, <2>6
<1>3. ASSUME NEW h \in Hosts, NEW f \in net, NEW er \in TunnelType, NEW base \in TunnelType,
             Opens(h, f, er, base) \/ Fails(h, f, er, base)
      PROVE  WayInv' /\ SoundInv'
  <2>1. Takes(h, f, er, base) /\ net' = net /\ base \in TunnelFor(h, f) /\ h = f.to
    BY <1>3 DEF Opens, Fails, Takes
  <2>2. er.out = base.out /\ er.key = base.key /\ er.peer = base.peer
    BY <1>3, TriedKeepsOut
  <2>3. \A j \in Hosts : \A i \in DOMAIN tunnels'[j] :
          \/ j = h /\ i = f.id /\ tunnels'[j][i] = er
          \/ i \in DOMAIN tunnels[j] /\ tunnels'[j][i] = tunnels[j][i]
    BY <2>1, TakesTable
  <2>4. \/ f.id \in DOMAIN tunnels[h] /\ base = tunnels[h][f.id]
        \/ f.first /\ base.key = f.key /\ base.peer = f.from /\ ~base.out
    BY <2>1, BaseIs
  <2>5. /\ er.out => Way(h, er.peer, f.id)
        /\ ~er.out => Way(er.peer, h, f.id)
    BY <2>1, <2>2, <2>4 DEF WayInv
  <2>6. damaged' = 0 => damaged = 0 BY <1>3 DEF Opens, Fails
  <2>7. \A i : Intact(i)' => Intact(i) BY <2>1, <2>6, IntactBefore
  <2>8. Intact(f.id)' => Sound(er, f.id)
    <3> SUFFICES ASSUME Intact(f.id)' PROVE Sound(er, f.id) OBVIOUS
    <3>1. Intact(f.id) BY <2>7
    <3>2. Decrypts(Tried(h, base, f), f) BY <2>1, <3>1, Decryptable
    <3>3. damaged' = 0 BY DEF Intact
    <3>4. er = [Tried(h, base, f) EXCEPT !.nonce = f.nonce]
      BY <1>3, <3>2, <3>3 DEF Opens, Fails
    <3>5. Tried(h, base, f) \in TunnelType
      BY <2>1, TriedType DEF Types
    <3>6. er.sym = f.sym
      BY <3>2, <3>4, <3>5 DEF Decrypts, TunnelType
    <3>7. f.sym = f.id[1] BY <3>1 DEF SoundInv
    <3>8. ~er.out => er.key \in f.id[1] \cap OutgoingKeys
      <4>1. CASE f.id \in DOMAIN tunnels[h] /\ base = tunnels[h][f.id]
        BY <2>2, <3>1, <4>1 DEF SoundInv, Sound
      <4>2. CASE f.first /\ base.key = f.key
        <5>1. f.key \in f.sym BY <3>1, <4>2 DEF Intact, KeysCurrent
        <5>2. f.key \in OutgoingKeys BY <4>2 DEF Types, FirstKeys
        <5> QED BY <2>2, <3>7, <4>2, <5>1, <5>2
      <4> QED BY <2>4, <4>1, <4>2
    <3> QED BY <3>6, <3>7, <3>8 DEF Sound
  <2>9. WayInv'
    <3>1. \A j \in Hosts : \A i \in DOMAIN tunnels'[j] :
            /\ tunnels'[j][i].out => Way(j, tunnels'[j][i].peer, i)
            /\ ~tunnels'[j][i].out => Way(tunnels'[j][i].peer, j, i)
      BY <2>3, <2>5 DEF WayInv
    <3> QED BY <2>1, <3>1 DEF WayInv, Way
  <2>10. SoundInv'
    <3>1. \A j \in Hosts : \A i \in DOMAIN tunnels'[j] : Intact(i)' => Sound(tunnels'[j][i], i)
      BY <2>3, <2>7, <2>8 DEF SoundInv
    <3> QED BY <2>1, <2>7, <3>1 DEF SoundInv, Sound
  <2> QED BY <2>9, <2>10
<1>4. CASE UNCHANGED <<tunnels, net, damaged>>
  BY <1>4 DEF WayInv, SoundInv, Way, Sound, Intact, KeysCurrent
<1> QED BY <1>1, <1>2, <1>3, <1>4, StepForms DEF cryptoGenAuthenticator, vars

\* As long as nothing was damaged and the first packets of a tunnel carry the
\* key it was made with, every frame of it that finds its tunnel, or is a first
\* packet, decrypts: with the tunnel's key, or at the second attempt with the
\* permanent key (envelopeOpenStartingAtCrypto), whatever else arrived before.
THEOREM LegitimateFramesDecrypt == Spec => []LegitimateOpens
<1>1. Spec => [](Types /\ WayInv /\ SoundInv)
  BY TypesInit, TypesStep, WayInit, WayStep, PTL DEF Spec
<1>2. Types /\ WayInv /\ SoundInv => LegitimateOpens
  <2> SUFFICES ASSUME Types, WayInv, SoundInv, NEW f \in net, Intact(f.id),
                      f.first \/ Known(f.to, f)
               PROVE  \E er \in TunnelFor(f.to, f) : Decrypts(Tried(f.to, er, f), f)
    BY DEF LegitimateOpens, Intact
  <2>1. f.to \in Hosts BY DEF Types, TypeOK, FrameType
  <2> QED BY <2>1, Addressable, Decryptable
<1> QED BY <1>1, <1>2, PTL

-----------------------------------------------------------------------------
(* Authenticators.                                                         *)

AuthInv ==
  \A h \in Hosts : \A a \in authenticators[h] :
    /\ a.for \in Hosts /\ a.for # h
    /\ a.plain = PermanentKey[a.for]
    /\ a.sym = {PermanentKey[a.for], PermanentKey[h]}

\* authenticators is a function on the hosts.
AuthTable == authenticators \in [Hosts -> {authenticators[h] : h \in Hosts}]

LEMMA AuthStep == AuthTable /\ AuthInv /\ [Next]_vars => AuthTable' /\ AuthInv'
<1> SUFFICES ASSUME AuthTable, AuthInv, [Next]_vars PROVE AuthTable' /\ AuthInv' OBVIOUS
<1>1. ASSUME NEW h \in Hosts, NEW g \in Hosts, cryptoGenAuthenticator(h, g)
      PROVE  AuthTable' /\ AuthInv'
  <2> DEFINE a == [for |-> g, nonce |-> Cardinality(authenticators[h]), plain |-> PermanentKey[g],
                   sym |-> {PermanentKey[g], PermanentKey[h]}]
  <2>1. g # h /\ authenticators' = [authenticators EXCEPT ![h] = @ \cup {a}]
    BY <1>1 DEF cryptoGenAuthenticator
  <2>2. /\ authenticators'[h] = authenticators[h] \cup {a}
        /\ \A i \in Hosts : i # h => authenticators'[i] = authenticators[i]
    BY <2>1 DEF AuthTable
  <2>3. a.for = g /\ a.plain = PermanentKey[g] /\ a.sym = {PermanentKey[g], PermanentKey[h]}
    OBVIOUS
  <2> HIDE DEF a
  <2>4. AuthInv' BY <2>1, <2>2, <2>3 DEF AuthInv
  <2>5. AuthTable' BY <2>1 DEF AuthTable
  <2> QED BY <2>4, <2>5
<1>2. CASE UNCHANGED authenticators BY <1>2 DEF AuthInv, AuthTable
<1> QED
  BY <1>1, <1>2 DEF Next, Dial, Seal, Receive, ReceiveDamaged, Open, FailToOpen, vars

LEMMA AuthDirected == AuthInv => AuthenticatorsDirected
<1> SUFFICES ASSUME AuthInv, NEW h \in Hosts, NEW s \in Hosts, NEW r \in Hosts,
                    NEW a \in authenticators[h], s # r
             PROVE  cryptoAuthenticatorIsValid(PermanentKey[s], PermanentKey[r], a)
                      <=> s = h /\ r = a.for
  BY DEF AuthenticatorsDirected
<1>1. /\ a.for \in Hosts /\ a.for # h /\ a.plain = PermanentKey[a.for]
      /\ a.sym = {PermanentKey[a.for], PermanentKey[h]}
  BY DEF AuthInv
<1>2. \A x, y \in Hosts : PermanentKey[x] = PermanentKey[y] => x = y BY EnvelopeAssumption
<1>3. ASSUME s = h, r = a.for
      PROVE  cryptoAuthenticatorIsValid(PermanentKey[s], PermanentKey[r], a)
  BY <1>1, <1>3 DEF cryptoAuthenticatorIsValid
<1>4. ASSUME cryptoAuthenticatorIsValid(PermanentKey[s], PermanentKey[r], a)
      PROVE  s = h /\ r = a.for
  <2>1. a.sym = {PermanentKey[s], PermanentKey[r]} /\ a.plain = PermanentKey[r]
    BY <1>4 DEF cryptoAuthenticatorIsValid
  <2>2. r = a.for BY <2>1, <1>1, <1>2
  <2>3. PermanentKey[h] \in {PermanentKey[s], PermanentKey[r]} BY <2>1, <1>1
  <2>4. s = h BY <2>2, <2>3, <1>1, <1>2
  <2> QED BY <2>2, <2>4
<1> QED BY <1>3, <1>4

\* An authenticator proves its sender to its recipient, and nothing else.
THEOREM AuthenticatorsProve == Spec => []AuthenticatorsDirected
<1>1. Init => AuthTable /\ AuthInv BY DEF Init, AuthTable, AuthInv
<1>2. Spec => [](AuthTable /\ AuthInv) BY <1>1, AuthStep, PTL DEF Spec
<1> QED BY <1>2, AuthDirected, PTL
=============================================================================
