------------------------- MODULE EtnRoundTripProofs -------------------------
(***************************************************************************)
(* What TLAPS proves of the receiver in module EtnCodec: that the decoder  *)
(* never writes over what it has decoded (NeverOverwritten), and that what *)
(* was sent arrives (RoundTripAlways), for every type graph, every value   *)
(* of it and every length of the wire.                                     *)
(*                                                                         *)
(* Encoder and decoder take one step for one value, so the values are      *)
(* numbered in the order they are walked.  WholeInv says what the encoder  *)
(* leaves behind: at each of its steps the values it had left and the      *)
(* place on the wire it was at (Walk), counts that rise, and indices that  *)
(* are the counts of what they stand for (Numbered).  RoundInv says that   *)
(* the decoder retraces this walk: it is at the same place, has values of  *)
(* the same types left (Tracked), and the memory it has filled agrees with *)
(* that of the sender, up to the values still left (Agrees).  What agrees  *)
(* now agrees later because the memory stays (MemoryInv).                  *)
(***************************************************************************)
EXTENDS EtnCodecProofs

-----------------------------------------------------------------------------
(* What the decoder does with a value of each kind: it fails if the wire   *)
(* does not have the units for it, and stores what the wire has otherwise. *)

Ahead(k) == decoder.pos + k <= Len(wire)
Unit(k) == wire[decoder.pos + k]

\* The reference of a string, a tuple, an any value or a union.
RefCell(len) == Cell(DTop.addr, [data |-> Block, len |-> len])
HeldCell(t) == Cell(DTop.addr, [type |-> t, data |-> Block])
InBlock(t) == <<Value(t, Block, FALSE)>>

GotScalar ==
  \/ ~Ahead(1) /\ DecodeFails
  \/ Ahead(1) /\ Stores(1, 0, Cell(DTop.addr, Unit(1)), <<>>)

GotTuple ==
  \/ ~Ahead(1) /\ DecodeFails
  \/ IsScalar(DType.elem) /\ Ahead(1) /\ ~Ahead(1 + Unit(1)) /\ DecodeFails
  \/ /\ IsScalar(DType.elem) /\ Ahead(1) /\ Ahead(1 + Unit(1)) /\ Unit(1) \in Nat
     /\ Stores(1 + Unit(1), Unit(1), Over(RefCell(Unit(1)), Copied(Block, 2, Unit(1))), <<>>)
  \/ /\ ~IsScalar(DType.elem) /\ Ahead(1) /\ Unit(1) \in Nat
     /\ Stores(1, 0, RefCell(Unit(1)), Elements(DTop.type, Block, Unit(1)))

GotArray ==
  \/ IsScalar(DType.elem) /\ ~Ahead(DType.size) /\ DecodeFails
  \/ /\ IsScalar(DType.elem) /\ Ahead(DType.size)
     /\ Stores(DType.size, DType.size, Copied(DTop.addr, 1, DType.size), <<>>)
  \/ /\ ~IsScalar(DType.elem) /\ Ahead(0)
     /\ Stores(0, 0, <<>>, Elements(DTop.type, DTop.addr, DType.size))

GotStruct == Ahead(0) /\ Stores(0, 0, <<>>, Fields(DTop.type, DTop.addr))

GotPtr ==
  \/ ~Ahead(1) /\ DecodeFails
  \/ Ahead(1) /\ Unit(1) \notin {PtrNil, PtrIndex, PtrInline} /\ DecodeFails
  \/ Ahead(1) /\ Unit(1) = PtrIndex /\ ~Ahead(2) /\ DecodeFails
  \/ Ahead(2) /\ Unit(1) = PtrIndex /\ ~(Unit(2) < decoder.next + 1) /\ DecodeFails
  \/ Ahead(1) /\ Unit(1) = PtrNil /\ Stores(1, 0, Cell(DTop.addr, Nil), <<>>)
  \/ /\ Ahead(2) /\ Unit(1) = PtrIndex /\ Unit(2) < decoder.next + 1
     /\ Stores(2, 0, Cell(DTop.addr, IF Unit(2) \in DOMAIN Indexed THEN Indexed[Unit(2)] ELSE Junk), <<>>)
  \/ Ahead(1) /\ Unit(1) = PtrInline /\ Stores(1, 0, Cell(DTop.addr, Block), InBlock(DType.elem))

Hashed(s) == Ahead(1) /\ Unit(1) = HashSize /\ Ahead(1 + HashSize) /\ HashAt(wire, decoder.pos, s)

GotAny ==
  \/ (\A s \in DOMAIN Hashes : ~Hashed(s)) /\ DecodeFails
  \/ \E s \in DOMAIN Hashes :
       /\ Ahead(1) /\ Ahead(1 + Unit(1)) /\ Unit(1) \in Nat
       /\ \A r \in DOMAIN Hashes : Hashed(r) => s = r
       /\ Stores(1 + Unit(1), 1 + Unit(1), HeldCell(s), InBlock(s))

GotUnion ==
  \/ ~Ahead(1) /\ DecodeFails
  \/ Ahead(1) /\ ~(Unit(1) < Len(DType.fields)) /\ DecodeFails
  \/ \E i \in DOMAIN DType.fields :
       /\ Ahead(1) /\ Unit(1) = i - 1
       /\ Stores(1, 1, HeldCell(DType.fields[i]), InBlock(DType.fields[i]))

\* A step of the decoder inside a value.
GotValue ==
  /\ decoder.stack # <<>> /\ phase = "decode"
  /\ \/ DType.kind = "scalar" /\ GotScalar
     \/ DType.kind \in {"string", "tuple"} /\ GotTuple
     \/ DType.kind = "array" /\ GotArray
     \/ DType.kind = "struct" /\ GotStruct
     \/ DType.kind = "ptr" /\ GotPtr
     \/ DType.kind = "any" /\ GotAny
     \/ DType.kind = "union" /\ GotUnion
     \/ DType.kind \in {"dict", "iface"} /\ DecodeFails

AWay(way) == \E n, skip, cells, values : way = DWay(n, skip, cells, values)

Takes1(ways) ==
  \E n, skip, cells, values :
    DWay(n, skip, cells, values) \in ways /\ Stores(n, skip, cells, values)

LEMMA TakenWay ==
  ASSUME NEW ways, \A way \in ways : AWay(way), Decodes(ways)
  PROVE  (ways = {} /\ DecodeFails) \/ Takes1(ways)
<1>1. CASE ways = {} /\ DecodeFails BY <1>1
<1>2. CASE ~(ways = {} /\ DecodeFails)
  <2>1. PICK way \in ways :
          /\ decoder' = [decoder EXCEPT !.stack = way.values \o Tail(@), !.pos = @ + way.units,
                                        !.next = @ + 1 + way.skip, !.table = Indexed,
                                        !.blocks = @ + 1]
          /\ memory' = Over(way.cells, memory)
    BY <1>2 DEF Decodes
  <2>2. /\ decoded' = Append(decoded, [type |-> DTop.type, addr |-> DTop.addr,
                                       count |-> decoder.next])
        /\ UNCHANGED <<world, phase, wire, foreign, encoder, verifier, encoded>>
    BY <1>2 DEF Decodes
  <2>3. PICK n, skip, cells, values : way = DWay(n, skip, cells, values) BY DEF AWay
  <2>4. way.units = n /\ way.skip = skip /\ way.cells = cells /\ way.values = values
    BY <2>3 DEF DWay
  <2>5. Stores(n, skip, cells, values) BY <2>1, <2>2, <2>4 DEF Stores
  <2> QED BY <2>3, <2>5 DEF Takes1
<1> QED BY <1>1, <1>2

\* At most one way, or a choice of ways of one shape.
LEMMA TakenGets ==
  ASSUME NEW n, NEW skip, NEW cells, NEW values, Decodes(Gets(n, skip, cells, values))
  PROVE  (~Ahead(n) /\ DecodeFails) \/ (Ahead(n) /\ Stores(n, skip, cells, values))
<1> DEFINE ways == Gets(n, skip, cells, values)
<1>1. \A way : way \in ways <=> Ahead(n) /\ way = DWay(n, skip, cells, values) BY GetsIs DEF Ahead
<1> HIDE DEF ways
<1>2. \A way \in ways : AWay(way) BY <1>1 DEF AWay
<1>3. (ways = {} /\ DecodeFails) \/ Takes1(ways) BY <1>2, TakenWay DEF ways
<1>4. CASE ways = {} /\ DecodeFails BY <1>1, <1>4
<1>5. CASE Takes1(ways)
  <2>1. PICK m, sk, cs, vs : DWay(m, sk, cs, vs) \in ways /\ Stores(m, sk, cs, vs) BY <1>5 DEF Takes1
  <2>2. Ahead(n) /\ DWay(m, sk, cs, vs) = DWay(n, skip, cells, values) BY <1>1, <2>1
  <2>3. m = n /\ sk = skip /\ cs = cells /\ vs = values BY <2>2 DEF DWay
  <2> QED BY <2>1, <2>2, <2>3
<1> QED BY <1>3, <1>4, <1>5

LEMMA NoWay == ASSUME Decodes({}) PROVE DecodeFails
BY DEF Decodes

LEMMA UnitFacts ==
  ASSUME DecoderInv(decoder, wire), NEW m, WireInv(wire, m)
  PROVE  /\ \A k \in Nat \ {0} : Ahead(k) => DNext(k) = {Unit(k)} /\ Unit(k) \in Nat
         /\ \A k \in Nat \ {0} : ~Ahead(k) => DNext(k) = {}
         /\ Ahead(0) /\ decoder.pos \in Nat /\ Len(wire) \in Nat
<1>1. decoder.pos \in Nat /\ decoder.pos <= Len(wire) BY DEF DecoderInv, DecoderType
<1>2. Len(wire) \in Nat BY DNextIs
<1>3. ASSUME NEW k \in Nat \ {0}
      PROVE  /\ Ahead(k) => DNext(k) = {Unit(k)} /\ Unit(k) \in Nat
             /\ ~Ahead(k) => DNext(k) = {}
  <2>1. \A x : x \in DNext(k) <=> Ahead(k) /\ x = Unit(k) BY DNextIs DEF Ahead, Unit
  <2>2. Ahead(k) => Unit(k) \in Nat BY DNextIs DEF Ahead, Unit
  <2> QED BY <2>1, <2>2
<1>4. Ahead(0) BY <1>1, <1>2 DEF Ahead
<1> QED BY <1>1, <1>2, <1>3, <1>4


LEMMA DecodeScalarGot ==
  ASSUME DecoderInv(decoder, wire), NEW m, WireInv(wire, m), DecodeScalar
  PROVE  GotScalar
<1> DEFINE of(y) == Gets(1, 0, Cell(DTop.addr, y), <<>>)
           ways == UNION {of(y) : y \in DNext(1)}
<1>1. Decodes(ways) BY DEF DecodeScalar
<1>2. CASE Ahead(1)
  <2>1. DNext(1) = {Unit(1)} BY <1>2, UnitFacts
  <2> HIDE DEF of
  <2>2. ways = of(Unit(1)) BY <2>1
  <2>3. Decodes(of(Unit(1))) BY <1>1, <2>2
  <2> QED BY <1>2, <2>3, TakenGets DEF of, GotScalar
<1>3. CASE ~Ahead(1)
  <2>1. DNext(1) = {} BY <1>3, UnitFacts
  <2> HIDE DEF of
  <2>2. ways = {} BY <2>1
  <2>3. Decodes({}) BY <1>1, <2>2
  <2> QED BY <1>3, <2>3, NoWay DEF GotScalar
<1> QED BY <1>2, <1>3

LEMMA DecodeTupleGot ==
  ASSUME DecoderInv(decoder, wire), NEW m, WireInv(wire, m), DecodeTuple
  PROVE  GotTuple
<1> DEFINE ways == UNION {DTupleWaysOf(len) : len \in DNext(1)}
           u == Unit(1)
<1>1. Decodes(ways) BY DEF DecodeTuple, DTupleWaysOf
<1>2. decoder.pos \in Nat /\ Len(wire) \in Nat BY UnitFacts
<1>3. CASE Ahead(1)
  <2>1. DNext(1) = {u} /\ u \in Nat BY <1>3, UnitFacts
  <2>2. ways = DTupleWaysOf(u) BY <2>1
  <2>3. Decodes(DTupleWaysOf(u)) BY <1>1, <2>2
  <2>4. CASE ~IsScalar(DType.elem)
    <3>1. DTupleWaysOf(u) = Gets(1, 0, RefCell(u), Elements(DTop.type, Block, u))
      BY <2>4 DEF DTupleWaysOf, RefCell
    <3>2. Decodes(Gets(1, 0, RefCell(u), Elements(DTop.type, Block, u))) BY <2>3, <3>1
    <3>3. Ahead(1) /\ Stores(1, 0, RefCell(u), Elements(DTop.type, Block, u)) BY <1>3, <3>2, TakenGets
    <3> QED BY <2>1, <2>4, <3>3 DEF GotTuple
  <2>5. CASE IsScalar(DType.elem)
    <3>1. (decoder.pos + 1 + u > Len(wire)) <=> ~Ahead(1 + u) BY <1>2, <2>1 DEF Ahead
    <3> HIDE DEF u
    <3>2. CASE ~Ahead(1 + u)
      <4>1. DTupleWaysOf(u) = {} BY <2>5, <3>1, <3>2 DEF DTupleWaysOf
      <4>2. Decodes({}) BY <2>3, <4>1
      <4> QED BY <1>3, <2>5, <3>2, <4>2, NoWay DEF GotTuple, u
    <3>3. CASE Ahead(1 + u)
      <4> DEFINE cells == Over(RefCell(u), Copied(Block, 2, u))
      <4>1. DTupleWaysOf(u) = Gets(1 + u, u, cells, <<>>)
        BY <2>5, <3>1, <3>3 DEF DTupleWaysOf, RefCell
      <4> HIDE DEF cells
      <4>2. Decodes(Gets(1 + u, u, cells, <<>>)) BY <2>3, <4>1
      <4>3. Stores(1 + u, u, cells, <<>>) BY <3>3, <4>2, TakenGets
      <4> QED BY <1>3, <2>1, <2>5, <3>3, <4>3 DEF GotTuple, cells, u
    <3> QED BY <3>2, <3>3
  <2> QED BY <2>4, <2>5
<1>4. CASE ~Ahead(1)
  <2>1. DNext(1) = {} BY <1>4, UnitFacts
  <2>2. ways = {} BY <2>1
  <2>3. Decodes({}) BY <1>1, <2>2
  <2> QED BY <1>4, <2>3, NoWay DEF GotTuple
<1> QED BY <1>3, <1>4

LEMMA DecodeArrayGot ==
  ASSUME DecoderInv(decoder, wire), NEW m, WireInv(wire, m), DecodeArray
  PROVE  GotArray
<1> DEFINE s == DType.size
<1>1. Decoding({"array"}) BY DEF DecodeArray
<1>2. decoder.pos \in Nat /\ Len(wire) \in Nat /\ Ahead(0) BY UnitFacts
<1>3. s \in Nat BY <1>1, DecodingTop, TypeFacts
<1>4. (decoder.pos + s > Len(wire)) <=> ~Ahead(s) BY <1>2, <1>3 DEF Ahead
<1> HIDE DEF s
<1>5. CASE ~IsScalar(DType.elem)
  <2> DEFINE values == Elements(DTop.type, DTop.addr, s)
  <2>1. Decodes(Gets(0, 0, <<>>, values)) BY <1>5 DEF DecodeArray, s
  <2> HIDE DEF values
  <2>2. Stores(0, 0, <<>>, values) BY <1>2, <2>1, TakenGets
  <2> QED BY <1>2, <1>5, <2>2 DEF GotArray, values, s
<1>6. CASE IsScalar(DType.elem)
  <2> DEFINE cells == Copied(DTop.addr, 1, s)
  <2>1. Decodes(IF decoder.pos + s > Len(wire) THEN {} ELSE Gets(s, s, cells, <<>>)) BY <1>6 DEF DecodeArray, s
  <2> HIDE DEF cells
  <2>2. CASE ~Ahead(s)
    <3>1. Decodes({}) BY <1>4, <2>1, <2>2
    <3> QED BY <1>6, <2>2, <3>1, NoWay DEF GotArray, s
  <2>3. CASE Ahead(s)
    <3>1. Decodes(Gets(s, s, cells, <<>>)) BY <1>4, <2>1, <2>3
    <3>2. Stores(s, s, cells, <<>>) BY <2>3, <3>1, TakenGets
    <3> QED BY <1>6, <2>3, <3>2 DEF GotArray, cells, s
  <2> QED BY <2>2, <2>3
<1> QED BY <1>5, <1>6

LEMMA DecodeStructGot ==
  ASSUME DecoderInv(decoder, wire), NEW m, WireInv(wire, m), DecodeStruct
  PROVE  GotStruct
<1> DEFINE values == Fields(DTop.type, DTop.addr)
<1>1. Decodes(Gets(0, 0, <<>>, values)) /\ Ahead(0) BY UnitFacts DEF DecodeStruct
<1> HIDE DEF values
<1>2. Stores(0, 0, <<>>, values) BY <1>1, TakenGets
<1> QED BY <1>1, <1>2 DEF GotStruct, values

LEMMA DecodePtrGot ==
  ASSUME DecoderInv(decoder, wire), NEW m, WireInv(wire, m), DecodePtr
  PROVE  GotPtr
<1> DEFINE ways == UNION {DPtrWaysOf(e) : e \in DNext(1)}
           u == Unit(1)
           w == Unit(2)
           indices == {x \in DNext(2) : x < decoder.next + 1}
<1>1. Decodes(ways) BY DEF DecodePtr, DPtrWaysOf, DIndexWaysOf
<1>2. decoder.pos \in Nat /\ Len(wire) \in Nat BY UnitFacts
<1>3. CASE ~Ahead(1)
  <2>1. DNext(1) = {} BY <1>3, UnitFacts
  <2>2. ways = {} BY <2>1
  <2>3. Decodes({}) BY <1>1, <2>2
  <2> QED BY <1>3, <2>3, NoWay DEF GotPtr
<1>4. CASE Ahead(1)
  <2>1. DNext(1) = {u} BY <1>4, UnitFacts
  <2>2. ways = DPtrWaysOf(u) BY <2>1
  <2>3. Decodes(DPtrWaysOf(u)) BY <1>1, <2>2
  <2>4. CASE u = PtrNil
    <3>1. DPtrWaysOf(u) = Gets(1, 0, Cell(DTop.addr, Nil), <<>>)
      BY <2>4 DEF DPtrWaysOf, PtrNil, PtrIndex, PtrInline
    <3>2. Decodes(Gets(1, 0, Cell(DTop.addr, Nil), <<>>)) BY <2>3, <3>1
    <3>3. Stores(1, 0, Cell(DTop.addr, Nil), <<>>) BY <1>4, <3>2, TakenGets
    <3> QED BY <1>4, <2>4, <3>3 DEF GotPtr
  <2>5. CASE u = PtrInline
    <3>1. DPtrWaysOf(u) = Gets(1, 0, Cell(DTop.addr, Block), InBlock(DType.elem))
      BY <2>5 DEF DPtrWaysOf, PtrNil, PtrIndex, PtrInline, InBlock
    <3>2. Decodes(Gets(1, 0, Cell(DTop.addr, Block), InBlock(DType.elem))) BY <2>3, <3>1
    <3>3. Stores(1, 0, Cell(DTop.addr, Block), InBlock(DType.elem)) BY <1>4, <3>2, TakenGets
    <3> QED BY <1>4, <2>5, <3>3 DEF GotPtr
  <2>6. CASE u \notin {PtrNil, PtrIndex, PtrInline}
    <3>1. DPtrWaysOf(u) = {} BY <2>6 DEF DPtrWaysOf
    <3>2. Decodes({}) BY <2>3, <3>1
    <3> QED BY <1>4, <2>6, <3>2, NoWay DEF GotPtr
  <2>7. CASE u = PtrIndex
    <3>1. DPtrWaysOf(u) = UNION {DIndexWaysOf(idx) : idx \in indices}
      BY <2>7 DEF DPtrWaysOf, PtrNil, PtrIndex, PtrInline
    <3>2. CASE ~Ahead(2)
      <4>1. DNext(2) = {} BY <3>2, UnitFacts
      <4>2. indices = {} BY <4>1
      <4> HIDE DEF indices
      <4>3. DPtrWaysOf(u) = {} BY <3>1, <4>2
      <4>4. Decodes({}) BY <2>3, <4>3
      <4> QED BY <1>4, <2>7, <3>2, <4>4, NoWay DEF GotPtr
    <3>3. CASE Ahead(2)
      <4>1. DNext(2) = {w} BY <3>3, UnitFacts
      <4>2. CASE ~(w < decoder.next + 1)
        <5>1. indices = {} BY <4>1, <4>2
        <5> HIDE DEF indices
        <5>2. DPtrWaysOf(u) = {} BY <3>1, <5>1
        <5>3. Decodes({}) BY <2>3, <5>2
        <5> QED BY <2>7, <3>3, <4>2, <5>3, NoWay DEF GotPtr
      <4>3. CASE w < decoder.next + 1
        <5> DEFINE cells == Cell(DTop.addr, IF w \in DOMAIN Indexed THEN Indexed[w] ELSE Junk)
        <5>1. indices = {w} BY <4>1, <4>3
        <5> HIDE DEF indices, w
        <5>a. UNION {DIndexWaysOf(idx) : idx \in {w}} = DIndexWaysOf(w) OBVIOUS
        <5>2. DPtrWaysOf(u) = DIndexWaysOf(w) BY <3>1, <5>1, <5>a
        <5>3. DIndexWaysOf(w) = Gets(2, 0, cells, <<>>) BY DEF DIndexWaysOf
        <5> HIDE DEF cells
        <5>4. Decodes(Gets(2, 0, cells, <<>>)) BY <2>3, <5>2, <5>3
        <5>5. Stores(2, 0, cells, <<>>) BY <3>3, <5>4, TakenGets
        <5> QED BY <2>7, <3>3, <4>3, <5>5 DEF GotPtr, cells, w
      <4> QED BY <4>2, <4>3
    <3> QED BY <3>2, <3>3
  <2> QED BY <2>4, <2>5, <2>6, <2>7
<1> QED BY <1>3, <1>4

LEMMA DecodeAnyGot ==
  ASSUME DecoderInv(decoder, wire), NEW m, WireInv(wire, m), DecodeAny
  PROVE  GotAny
<1> DEFINE u == Unit(1)
           inner == UNION {DAnyWaysOf(u, t) : t \in Found(u)}
<1>1. Decodes(DAnyWays) \/ ((\E len \in DNext(1) : len < HashSize) /\ DecodeFails)
  BY DEF DecodeAny, DAnyWays, DAnyWaysOf, Found
<1>2. decoder.pos \in Nat /\ Len(wire) \in Nat BY UnitFacts
<1>3. HashSize \in Nat BY HashFacts
<1>4. CASE ~Ahead(1)
  <2>1. DNext(1) = {} BY <1>4, UnitFacts
  <2>2. DAnyWays = {} BY <2>1 DEF DAnyWays
  <2>3. Decodes({}) \/ DecodeFails BY <1>1, <2>2
  <2>4. DecodeFails BY <2>3, NoWay
  <2> QED BY <1>4, <2>4 DEF GotAny, Hashed
<1>5. CASE Ahead(1)
  <2>1. DNext(1) = {u} /\ u \in Nat BY <1>5, UnitFacts
  <2>2. DAnyWays = inner BY <2>1 DEF DAnyWays
  <2>3. Ahead(1 + u) <=> decoder.pos + (1 + u) <= Len(wire) BY DEF Ahead
  <2>4. \A s \in DOMAIN Hashes : Hashed(s) => u = HashSize /\ s \in Found(u) /\ Ahead(1 + u)
    <3> SUFFICES ASSUME NEW s \in DOMAIN Hashes, Hashed(s)
                 PROVE  u = HashSize /\ s \in Found(u) /\ Ahead(1 + u)
      OBVIOUS
    <3>1. u = HashSize /\ Ahead(1 + HashSize) /\ HashAt(wire, decoder.pos, s) BY DEF Hashed
    <3>2. \A i \in 1..HashSize : DNext(1 + i) = {Hashes[s][i]}
      <4> TAKE i \in 1..HashSize
      <4>1. 1 + i \in Nat \ {0} /\ decoder.pos + (1 + i) = decoder.pos + 1 + i /\ decoder.pos + (1 + i) <= Len(wire)
        BY <1>2, <1>3, <3>1 DEF Ahead
      <4>2. wire[decoder.pos + 1 + i] = Hashes[s][i] BY <3>1 DEF HashAt
      <4> QED BY <4>1, <4>2, DNextIs
    <3>3. s \in Found(u) BY <3>2 DEF Found
    <3> QED BY <3>1, <3>3
  <2>5. ASSUME u = HashSize, NEW s \in Found(u), Ahead(1 + u) PROVE HashAt(wire, decoder.pos, s)
    <3>1. \A i \in 1..HashSize : wire[decoder.pos + 1 + i] = Hashes[s][i]
      <4> TAKE i \in 1..HashSize
      <4>1. 1 + i \in Nat \ {0} /\ decoder.pos + (1 + i) = decoder.pos + 1 + i /\ i <= HashSize
        BY <1>2, <1>3
      <4>2. i <= u BY <2>5, <4>1
      <4>3. DNext(1 + i) = {Hashes[s][i]} BY <4>2 DEF Found
      <4>4. wire[decoder.pos + (1 + i)] = Hashes[s][i] BY <4>1, <4>3, DNextIs
      <4> QED BY <4>1, <4>4
    <3> QED BY <3>1 DEF HashAt
  <2> HIDE DEF u
  <2>6. CASE Decodes(DAnyWays)
    <3>1. Decodes(inner) BY <2>2, <2>6
    <3>2. \A way : way \in inner <=> \E s \in Found(u) : way \in DAnyWaysOf(u, s) OBVIOUS
    <3> HIDE DEF inner
    <3>3. \A s : \A way : way \in DAnyWaysOf(u, s) <=> Ahead(1 + u) /\ way = DWay(1 + u, 1 + u, HeldCell(s), InBlock(s))
      BY <2>3, GetsIs DEF DAnyWaysOf, HeldCell, InBlock
    <3>4. \A way \in inner : AWay(way) BY <3>2, <3>3 DEF AWay
    <3>5. CASE inner = {} /\ DecodeFails
      <4>1. \A s \in DOMAIN Hashes : ~Hashed(s) BY <2>4, <3>2, <3>3, <3>5
      <4> QED BY <3>5, <4>1 DEF GotAny
    <3>6. CASE Takes1(inner)
      <4>1. PICK n, sk, cs, vs : DWay(n, sk, cs, vs) \in inner /\ Stores(n, sk, cs, vs) BY <3>6 DEF Takes1
      <4>2. PICK s \in Found(u) : DWay(n, sk, cs, vs) \in DAnyWaysOf(u, s) BY <3>2, <4>1
      <4>3. Ahead(1 + u) /\ DWay(n, sk, cs, vs) = DWay(1 + u, 1 + u, HeldCell(s), InBlock(s)) BY <3>3, <4>2
      <4>4. n = 1 + u /\ sk = 1 + u /\ cs = HeldCell(s) /\ vs = InBlock(s) BY <4>3 DEF DWay
      <4>5. Stores(1 + u, 1 + u, HeldCell(s), InBlock(s)) BY <4>1, <4>4
      <4>6. s \in DOMAIN Hashes BY DEF Found
      <4>7. \A r \in DOMAIN Hashes : Hashed(r) => s = r
        <5> SUFFICES ASSUME NEW r \in DOMAIN Hashes, Hashed(r) PROVE s = r OBVIOUS
        <5>1. HashAt(wire, decoder.pos, r) /\ u = HashSize BY <2>4 DEF Hashed
        <5>2. HashAt(wire, decoder.pos, s) BY <2>5, <4>3, <5>1
        <5> QED BY <4>6, <5>1, <5>2, OneHash
      <4> QED BY <1>5, <2>1, <4>3, <4>5, <4>6, <4>7 DEF GotAny, u
    <3> QED BY <3>1, <3>4, <3>5, <3>6, TakenWay
  <2>7. CASE (\E len \in DNext(1) : len < HashSize) /\ DecodeFails
    <3>1. u < HashSize BY <2>1, <2>7
    <3>2. u # HashSize BY <1>3, <2>1, <3>1
    <3>3. \A s \in DOMAIN Hashes : ~Hashed(s) BY <2>4, <3>2
    <3> QED BY <2>7, <3>3 DEF GotAny
  <2> QED BY <1>1, <2>6, <2>7
<1> QED BY <1>4, <1>5

LEMMA DecodeUnionGot ==
  ASSUME DecoderInv(decoder, wire), NEW m, WireInv(wire, m), DecodeUnion
  PROVE  GotUnion
<1> DEFINE f == DType.fields
           u == Unit(1)
           ids == {x \in DNext(1) : x < Len(f)}
           ways == UNION {DUnionWaysOf(id) : id \in ids}
<1>1. Decoding({"union"}) BY DEF DecodeUnion
<1>2. f \in Seq(DOMAIN Types) BY <1>1, DecodingTop, TypeFacts
<1>3. Decodes(ways) BY DEF DecodeUnion, DUnionWaysOf
<1>4. CASE ~Ahead(1)
  <2>1. DNext(1) = {} BY <1>4, UnitFacts
  <2>2. ways = {} BY <2>1
  <2>3. Decodes({}) BY <1>3, <2>2
  <2> QED BY <1>4, <2>3, NoWay DEF GotUnion
<1>5. CASE Ahead(1)
  <2>1. DNext(1) = {u} /\ u \in Nat BY <1>5, UnitFacts
  <2> HIDE DEF u
  <2>2. CASE ~(u < Len(f))
    <3>1. ids = {} BY <2>1, <2>2
    <3> HIDE DEF ids
    <3>2. ways = {} BY <3>1
    <3>3. Decodes({}) BY <1>3, <3>2
    <3> QED BY <1>5, <2>2, <3>3, NoWay DEF GotUnion, u
  <2>3. CASE u < Len(f)
    <3>1. ids = {u} BY <2>1, <2>3
    <3> HIDE DEF ids
    <3>2. UNION {DUnionWaysOf(id) : id \in {u}} = DUnionWaysOf(u) OBVIOUS
    <3>3. Decodes(DUnionWaysOf(u)) BY <1>3, <3>1, <3>2
    <3> DEFINE i == u + 1
    <3>4. i \in DOMAIN f /\ u = i - 1 BY <1>2, <2>1, <2>3
    <3>5. DUnionWaysOf(u) = Gets(1, 1, HeldCell(f[i]), InBlock(f[i])) BY DEF DUnionWaysOf, HeldCell, InBlock
    <3> HIDE DEF i
    <3>6. Decodes(Gets(1, 1, HeldCell(f[i]), InBlock(f[i]))) BY <3>3, <3>5
    <3>7. Stores(1, 1, HeldCell(f[i]), InBlock(f[i])) BY <1>5, <3>6, TakenGets
    <3> QED BY <1>5, <3>4, <3>7 DEF GotUnion, u
  <2> QED BY <2>2, <2>3
<1> QED BY <1>4, <1>5

\* A step of the decoder starts or ends a decoding, or takes the value on top.
LEMMA GotForm ==
  ASSUME DecoderInv(decoder, wire), NEW m, WireInv(wire, m), Decode
  PROVE  DecodeStart \/ DecodeArguments \/ DecodeEnd \/ GotValue
<1> DEFINE kind == DType.kind
<1>1. ASSUME NEW kinds, Decoding(kinds) PROVE decoder.stack # <<>> /\ phase = "decode" /\ kind \in kinds
  BY <1>1 DEF Decoding, DType, DTop
<1>2. ASSUME DecodeScalar PROVE GotValue
  <2>1. GotScalar BY <1>2, DecodeScalarGot
  <2> QED BY <1>1, <1>2, <2>1 DEF DecodeScalar, GotValue
<1>3. ASSUME DecodeTuple PROVE GotValue
  <2>1. GotTuple BY <1>3, DecodeTupleGot
  <2> QED BY <1>1, <1>3, <2>1 DEF DecodeTuple, GotValue
<1>4. ASSUME DecodeArray PROVE GotValue
  <2>1. GotArray BY <1>4, DecodeArrayGot
  <2> QED BY <1>1, <1>4, <2>1 DEF DecodeArray, GotValue
<1>5. ASSUME DecodeStruct PROVE GotValue
  <2>1. GotStruct BY <1>5, DecodeStructGot
  <2> QED BY <1>1, <1>5, <2>1 DEF DecodeStruct, GotValue
<1>6. ASSUME DecodePtr PROVE GotValue
  <2>1. GotPtr BY <1>6, DecodePtrGot
  <2> QED BY <1>1, <1>6, <2>1 DEF DecodePtr, GotValue
<1>7. ASSUME DecodeAny PROVE GotValue
  <2>1. GotAny BY <1>7, DecodeAnyGot
  <2> QED BY <1>1, <1>7, <2>1 DEF DecodeAny, GotValue
<1>8. ASSUME DecodeUnion PROVE GotValue
  <2>1. GotUnion BY <1>8, DecodeUnionGot
  <2> QED BY <1>1, <1>8, <2>1 DEF DecodeUnion, GotValue
<1>9. ASSUME DecodeNotImplemented PROVE GotValue
  BY <1>1, <1>9 DEF DecodeNotImplemented, GotValue
<1> QED BY <1>2, <1>3, <1>4, <1>5, <1>6, <1>7, <1>8, <1>9 DEF Decode

-----------------------------------------------------------------------------
(* The memory of the decoder.  Every value on the stack has a place of its *)
(* own, in which nothing was stored yet.                                   *)

Within(c, v) == c[1] = v.addr[1] /\ v.addr[2] <= c[2] /\ c[2] < v.addr[2] + Extent[v.type]

Inside(v, u) ==
  /\ v.addr[1] = u.addr[1] /\ u.addr[2] <= v.addr[2]
  /\ v.addr[2] + Extent[v.type] <= u.addr[2] + Extent[u.type]

Apart(u, v) ==
  \/ u.addr[1] # v.addr[1]
  \/ u.addr[2] + Extent[u.type] <= v.addr[2]
  \/ v.addr[2] + Extent[v.type] <= u.addr[2]

Clear(cells, s) == \A c \in DOMAIN cells, i \in DOMAIN s : ~Within(c, s[i])
Spread(s) == \A i, j \in DOMAIN s : i # j => Apart(s[i], s[j])
Below(s, b) == \A i \in DOMAIN s : s[i].addr[1] < b

\* What is stored and the values that are left for the value on top stay in its
\* place or in a new block, and out of each other's way.
Tidy(cells, values) ==
  /\ DOMAIN cells \subseteq DAddress
  /\ \A c \in DOMAIN cells : Within(c, DTop) \/ c[1] = decoder.blocks
  /\ \A i \in DOMAIN values : Inside(values[i], DTop) \/ values[i].addr[1] = decoder.blocks
  /\ Clear(cells, values) /\ Spread(values)

LEMMA PlaceFacts ==
  ASSUME LaidOut
  PROVE  /\ \A v \in DItem : /\ v.addr[1] \in Nat /\ v.addr[2] \in Nat /\ Extent[v.type] \in Nat
                             /\ v.addr = <<v.addr[1], v.addr[2]>>
         /\ \A c \in DAddress : c[1] \in Nat /\ c[2] \in Nat /\ c = <<c[1], c[2]>>
<1>1. \A c \in DAddress : c[1] \in Nat /\ c[2] \in Nat /\ c = <<c[1], c[2]>> BY DEF DAddress
<1>2. Extent \in [DOMAIN Types -> Nat] BY DEF LaidOut
<1>3. \A v \in DItem : v.type \in DOMAIN Types /\ v.addr \in DAddress BY DEF DItem
<1> QED BY <1>1, <1>2, <1>3

LEMMA PlaceRules ==
  ASSUME LaidOut, NEW u \in DItem, NEW v \in DItem, NEW w \in DItem, NEW c \in DAddress
  PROVE  /\ Within(c, v) /\ Inside(v, u) => Within(c, u)
         /\ Inside(v, u) /\ Apart(u, w) => Apart(v, w)
         /\ Within(c, u) /\ Apart(u, w) => ~Within(c, w)
         /\ Apart(u, w) => Apart(w, u)
<1>1. /\ u.addr[1] \in Nat /\ u.addr[2] \in Nat /\ Extent[u.type] \in Nat
      /\ v.addr[1] \in Nat /\ v.addr[2] \in Nat /\ Extent[v.type] \in Nat
      /\ w.addr[1] \in Nat /\ w.addr[2] \in Nat /\ Extent[w.type] \in Nat
      /\ c[1] \in Nat /\ c[2] \in Nat
  BY PlaceFacts
<1> QED BY <1>1 DEF Within, Inside, Apart

\* The place of a reference: the value on top, with nothing in it but its cell.
LEMMA TopCell ==
  ASSUME LaidOut, decoder.stack # <<>>, DTop \in DItem, decoder.blocks \in Nat, DTop.addr[1] < decoder.blocks,
         DType.kind \in {"scalar", "string", "tuple", "ptr", "any", "union"}
  PROVE  /\ DTop.addr \in DAddress /\ Within(DTop.addr, DTop) /\ Block \in DAddress
         /\ \A x : DOMAIN Cell(DTop.addr, x) = {DTop.addr}
<1>1. DTop.type \in DOMAIN Types /\ DTop.addr \in DAddress BY DEF DItem
<1>2. Extent[DTop.type] \in Nat /\ DTop.addr[2] \in Nat BY PlaceFacts
<1>3. Extent[DTop.type] >= 1 BY <1>1 DEF LaidOut, DType
<1>4. Within(DTop.addr, DTop) BY <1>2, <1>3 DEF Within
<1>5. Block \in DAddress BY DEF Block, DAddress
<1> QED BY <1>1, <1>4, <1>5 DEF Cell

LEMMA TidyCell ==
  ASSUME LaidOut, decoder.stack # <<>>, DTop \in DItem, decoder.blocks \in Nat, DTop.addr[1] < decoder.blocks,
         DType.kind \in {"scalar", "string", "tuple", "ptr", "any", "union"}, NEW x,
         NEW values \in Seq(DItem), \A i \in DOMAIN values : values[i].addr[1] = decoder.blocks, Spread(values)
  PROVE  Tidy(Cell(DTop.addr, x), values)
<1> DEFINE cells == Cell(DTop.addr, x)
<1>1. DTop.addr \in DAddress /\ Within(DTop.addr, DTop) /\ DOMAIN cells = {DTop.addr} BY TopCell
<1> HIDE DEF cells
<1>2. DTop.addr[1] \in Nat BY PlaceFacts
<1>3. Clear(cells, values) BY <1>1, <1>2 DEF Clear, Within
<1> QED BY <1>1, <1>3 DEF Tidy, cells

LEMMA SpreadNone == Spread(<<>>) /\ <<>> \in Seq(DItem) /\ DOMAIN <<>> = {}
BY DEF Spread

LEMMA SpreadOne ==
  ASSUME NEW t \in DOMAIN Types, decoder.blocks \in Nat
  PROVE  /\ InBlock(t) \in Seq(DItem) /\ Spread(InBlock(t))
         /\ \A i \in DOMAIN InBlock(t) : InBlock(t)[i].addr[1] = decoder.blocks
<1> DEFINE v == Value(t, Block, FALSE)
<1>1. Block \in DAddress /\ Block[1] = decoder.blocks BY DEF Block, DAddress
<1>2. v \in DItem /\ v.addr = Block BY <1>1, AddressFacts DEF Value
<1> HIDE DEF v
<1>3. InBlock(t) = <<v>> BY DEF InBlock, v
<1>4. <<v>> \in Seq(DItem) /\ DOMAIN <<v>> = {1} /\ <<v>>[1] = v BY <1>2
<1> QED BY <1>1, <1>2, <1>3, <1>4 DEF Spread

\* Elements lie one after the other.
LEMMA Rows ==
  ASSUME NEW s \in Nat, NEW x \in Nat, x <= s, NEW i \in Nat, NEW j \in Nat, i < j
  PROVE  i * s + x <= j * s /\ i * s \in Nat /\ j * s \in Nat
<1>1. (i + 1) * s = i * s + s /\ i * s \in Nat /\ j * s \in Nat OBVIOUS
<1>2. PICK k \in Nat : j = (i + 1) + k
  <2>1. j - (i + 1) \in Nat /\ j = (i + 1) + (j - (i + 1)) OBVIOUS
  <2> QED BY <2>1
<1>3. ((i + 1) + k) * s = (i + 1) * s + k * s /\ k * s \in Nat OBVIOUS
<1>4. j * s = (i + 1) * s + k * s BY <1>2, <1>3
<1> QED BY <1>1, <1>3, <1>4

LEMMA ElementsSpread ==
  ASSUME LaidOut, NEW t \in DOMAIN Types, Types[t].kind \in {"string", "tuple", "array"}, ~IsScalar(Types[t].elem),
         NEW a \in DAddress, NEW n \in Nat
  PROVE  /\ Elements(t, a, n) \in Seq(DItem) /\ Spread(Elements(t, a, n))
         /\ \A i \in DOMAIN Elements(t, a, n) :
              LET v == Elements(t, a, n)[i]
              IN  v.addr[1] = a[1] /\ a[2] <= v.addr[2]
                  /\ v.addr[2] + Extent[v.type] <= a[2] + n * Types[Types[t].elem].size
<1> DEFINE e == Types[t].elem
           s == Types[e].size
           x == Extent[e]
           v(i) == Value(e, At(a, (i - 1) * s), FALSE)
           vs == [i \in 1..n |-> v(i)]
<1>1. e \in DOMAIN Types BY TypeFacts
<1>2. s \in Nat BY <1>1, TypeFacts
<1>3. x \in Nat BY <1>1 DEF LaidOut
<1>4. x <= s BY <1>1 DEF LaidOut, IsScalar
<1>5. Elements(t, a, n) = vs BY DEF Elements
<1>6. Elements(t, a, n) \in Seq(DItem) BY ElementsTypes
<1>7. a[1] \in Nat /\ a[2] \in Nat BY DEF DAddress
<1>8. \A i \in 1..n : /\ v(i).type = e /\ v(i).addr[1] = a[1] /\ v(i).addr[2] = a[2] + (i - 1) * s
  BY DEF Value, At
<1> HIDE DEF v, e, s, x
<1>9. DOMAIN vs = 1..n /\ \A i \in 1..n : vs[i] = v(i) OBVIOUS
<1> HIDE DEF vs
<1>10. \A i, j \in 1..n : i < j => (i - 1) * s + x <= (j - 1) * s
  <2> SUFFICES ASSUME NEW i \in 1..n, NEW j \in 1..n, i < j PROVE (i - 1) * s + x <= (j - 1) * s OBVIOUS
  <2>1. i - 1 \in Nat /\ j - 1 \in Nat /\ i - 1 < j - 1 OBVIOUS
  <2> HIDE DEF s
  <2> DEFINE k == i - 1
             l == j - 1
  <2>2. k \in Nat /\ l \in Nat /\ k < l BY <2>1
  <2> HIDE DEF k, l
  <2>3. k * s + x <= l * s BY <1>2, <1>3, <1>4, <2>2, Rows
  <2> QED BY <2>3 DEF k, l
<1>11. \A i \in 1..n : (i - 1) * s + x <= n * s /\ (i - 1) * s \in Nat /\ n * s \in Nat
  <2> TAKE i \in 1..n
  <2> DEFINE k == i - 1
  <2>1. k \in Nat /\ k < n OBVIOUS
  <2> HIDE DEF k
  <2>2. k * s + x <= n * s /\ k * s \in Nat /\ n * s \in Nat BY <1>2, <1>3, <1>4, <2>1, Rows
  <2> QED BY <2>2 DEF k
<1>12. Spread(vs)
  <2> SUFFICES ASSUME NEW i \in 1..n, NEW j \in 1..n, i # j PROVE Apart(v(i), v(j)) BY <1>9 DEF Spread
  <2> DEFINE p == (i - 1) * s
             q == (j - 1) * s
  <2>1. p \in Nat /\ q \in Nat BY <1>11
  <2>2. i < j \/ j < i OBVIOUS
  <2>3. p + x <= q \/ q + x <= p BY <1>10, <2>2
  <2>4. v(i).type = e /\ v(i).addr[2] = a[2] + p /\ v(j).type = e /\ v(j).addr[2] = a[2] + q BY <1>8
  <2> HIDE DEF p, q
  <2>5. a[2] + p + x <= a[2] + q \/ a[2] + q + x <= a[2] + p BY <1>3, <1>7, <2>1, <2>3
  <2> QED BY <2>4, <2>5 DEF Apart, x
<1>13. \A i \in 1..n : /\ v(i).addr[1] = a[1] /\ a[2] <= v(i).addr[2]
                      /\ v(i).addr[2] + Extent[v(i).type] <= a[2] + n * s
  <2> TAKE i \in 1..n
  <2> DEFINE p == (i - 1) * s
             q == n * s
  <2>1. p \in Nat /\ q \in Nat /\ p + x <= q BY <1>11
  <2>2. v(i).type = e /\ v(i).addr[1] = a[1] /\ v(i).addr[2] = a[2] + p BY <1>8
  <2> HIDE DEF p
  <2>3. a[2] <= a[2] + p /\ a[2] + p + x <= a[2] + q BY <1>3, <1>7, <2>1
  <2> QED BY <2>2, <2>3 DEF x, q
<1> QED BY <1>5, <1>6, <1>9, <1>12, <1>13 DEF s, e

LEMMA FieldsSpread ==
  ASSUME LaidOut, NEW v \in DItem, Types[v.type].kind = "struct"
  PROVE  /\ Fields(v.type, v.addr) \in Seq(DItem) /\ Spread(Fields(v.type, v.addr))
         /\ \A i \in DOMAIN Fields(v.type, v.addr) : Inside(Fields(v.type, v.addr)[i], v)
<1> DEFINE t == v.type
           a == v.addr
           f == Types[t].fields
           o == Types[t].offsets
           g(i) == Value(f[i], At(a, o[i]), FALSE)
<1>1. t \in DOMAIN Types /\ a \in DAddress BY DEF DItem
<1>2. f \in Seq(DOMAIN Types) /\ o \in [DOMAIN f -> Nat] BY <1>1, TypeFacts
<1>3. Fields(t, a) \in Seq(DItem) BY <1>1, FieldsTypes
<1>4. DOMAIN Fields(t, a) = DOMAIN f /\ \A i \in DOMAIN f : Fields(t, a)[i] = g(i) BY DEF Fields
<1>5. \A i \in DOMAIN f : g(i).type = f[i] /\ g(i).addr[1] = a[1] /\ g(i).addr[2] = a[2] + o[i]
  BY DEF Value, At
<1>6. a[1] \in Nat /\ a[2] \in Nat /\ Extent[t] \in Nat BY PlaceFacts
<1>7. \A i \in DOMAIN f : o[i] \in Nat /\ Extent[f[i]] \in Nat BY <1>2 DEF LaidOut
<1>8. \A i \in DOMAIN f :
        /\ o[i] + Extent[f[i]] <= Extent[t]
        /\ \A j \in DOMAIN f : i # j => o[i] + Extent[f[i]] <= o[j] \/ o[j] + Extent[f[j]] <= o[i]
  BY <1>1 DEF LaidOut
<1> HIDE DEF f, o, g
<1>9. \A i \in DOMAIN f : Inside(g(i), v)
  <2> TAKE i \in DOMAIN f
  <2>1. o[i] \in Nat /\ Extent[f[i]] \in Nat /\ o[i] + Extent[f[i]] <= Extent[t] BY <1>7, <1>8
  <2>2. a[2] <= a[2] + o[i] /\ a[2] + o[i] + Extent[f[i]] <= a[2] + Extent[t] BY <1>6, <2>1
  <2> QED BY <1>5, <2>2 DEF Inside
<1>10. \A i, j \in DOMAIN f : i # j => Apart(g(i), g(j))
  <2> SUFFICES ASSUME NEW i \in DOMAIN f, NEW j \in DOMAIN f, i # j PROVE Apart(g(i), g(j)) OBVIOUS
  <2>1. /\ o[i] \in Nat /\ Extent[f[i]] \in Nat /\ o[j] \in Nat /\ Extent[f[j]] \in Nat
        /\ o[i] + Extent[f[i]] <= o[j] \/ o[j] + Extent[f[j]] <= o[i]
    BY <1>7, <1>8
  <2>2. a[2] + o[i] + Extent[f[i]] <= a[2] + o[j] \/ a[2] + o[j] + Extent[f[j]] <= a[2] + o[i] BY <1>6, <2>1
  <2> QED BY <1>5, <2>2 DEF Apart
<1> QED BY <1>3, <1>4, <1>9, <1>10 DEF Spread

LEMMA CopiedCells ==
  ASSUME LaidOut, NEW a \in DAddress, NEW n, NEW len \in Nat
  PROVE  /\ DOMAIN Copied(a, n, len) \subseteq DAddress
         /\ \A c \in DOMAIN Copied(a, n, len) : c[1] = a[1] /\ a[2] <= c[2] /\ c[2] < a[2] + len
<1>1. DOMAIN Copied(a, n, len) = {At(a, i) : i \in 0..len - 1} BY DEF Copied
<1>2. a[1] \in Nat /\ a[2] \in Nat BY DEF DAddress
<1>3. ASSUME NEW i \in 0..len - 1
      PROVE  At(a, i) \in DAddress /\ At(a, i)[1] = a[1] /\ a[2] <= At(a, i)[2] /\ At(a, i)[2] < a[2] + len
  <2>1. At(a, i) = <<a[1], a[2] + i>> BY DEF At
  <2>2. a[2] + i \in Nat /\ a[2] <= a[2] + i /\ a[2] + i < a[2] + len BY <1>2
  <2> HIDE <1>1
  <2> QED BY <1>2, <2>1, <2>2 DEF DAddress
<1> QED BY <1>1, <1>3

LEMMA TidyBlock ==
  ASSUME LaidOut, decoder.stack # <<>>, DTop \in DItem, decoder.blocks \in Nat, DTop.addr[1] < decoder.blocks,
         DType.kind \in {"string", "tuple"}, NEW n, NEW len \in Nat
  PROVE  Tidy(Over(RefCell(len), Copied(Block, n, len)), <<>>)
<1> DEFINE f == RefCell(len)
           g == Copied(Block, n, len)
           none == <<>>
<1>1. DTop.addr \in DAddress /\ Within(DTop.addr, DTop) /\ Block \in DAddress /\ DOMAIN f = {DTop.addr}
  BY TopCell DEF RefCell
<1>2. DOMAIN g \subseteq DAddress /\ \A c \in DOMAIN g : c[1] = Block[1] BY <1>1, CopiedCells
<1>3. Block[1] = decoder.blocks BY DEF Block
<1>4. Spread(none) /\ DOMAIN none = {} BY SpreadNone
<1> HIDE DEF f, g, none
<1>5. DOMAIN Over(f, g) = DOMAIN f \cup DOMAIN g BY DEF Over
<1>6. Clear(Over(f, g), none) BY <1>4 DEF Clear
<1>7. Tidy(Over(f, g), none) BY <1>1, <1>2, <1>3, <1>4, <1>5, <1>6 DEF Tidy
<1> QED BY <1>7 DEF f, g, none

LEMMA TidyRow ==
  ASSUME LaidOut, decoder.stack # <<>>, DTop \in DItem, decoder.blocks \in Nat, DTop.addr[1] < decoder.blocks,
         DType.kind = "array", IsScalar(DType.elem), NEW n
  PROVE  Tidy(Copied(DTop.addr, n, DType.size), <<>>)
<1> DEFINE s == DType.size
           f == Copied(DTop.addr, n, s)
           none == <<>>
<1>1. DTop.type \in DOMAIN Types /\ DTop.addr \in DAddress /\ DType = Types[DTop.type] BY DEF DItem, DType
<1>2. s \in Nat BY <1>1, TypeFacts
<1>3. s <= Extent[DTop.type] BY <1>1 DEF LaidOut, IsScalar
<1>4. /\ DOMAIN f \subseteq DAddress
      /\ \A c \in DOMAIN f : c[1] = DTop.addr[1] /\ DTop.addr[2] <= c[2] /\ c[2] < DTop.addr[2] + s
  BY <1>1, <1>2, CopiedCells
<1>5. Spread(none) /\ DOMAIN none = {} BY SpreadNone
<1>6. DTop.addr[2] \in Nat /\ Extent[DTop.type] \in Nat /\ \A c \in DAddress : c[2] \in Nat BY PlaceFacts
<1> HIDE DEF f, none, s
<1>7. \A c \in DOMAIN f : Within(c, DTop)
  <2> TAKE c \in DOMAIN f
  <2>1. c[2] \in Nat BY <1>4, <1>6
  <2>2. c[2] < DTop.addr[2] + Extent[DTop.type] BY <1>2, <1>3, <1>4, <1>6, <2>1
  <2> QED BY <1>4, <2>2 DEF Within
<1>8. Clear(f, none) BY <1>5 DEF Clear
<1>9. Tidy(f, none) BY <1>4, <1>5, <1>7, <1>8 DEF Tidy
<1> QED BY <1>9 DEF f, none, s

LEMMA FurtherEnd ==
  ASSUME NEW p \in Nat, NEW e \in Nat, NEW b \in Nat, NEW q \in Nat, NEW m \in Nat, p + e <= b + q, q <= m
  PROVE  p + e <= b + m
OBVIOUS

LEMMA TidyElements ==
  ASSUME LaidOut, decoder.stack # <<>>, DTop \in DItem, decoder.blocks \in Nat, DTop.addr[1] < decoder.blocks,
         DType.kind = "array", ~IsScalar(DType.elem)
  PROVE  /\ Tidy(<<>>, Elements(DTop.type, DTop.addr, DType.size))
         /\ Elements(DTop.type, DTop.addr, DType.size) \in Seq(DItem)
<1> DEFINE t == DTop.type
           a == DTop.addr
           n == Types[t].size
           s == Types[Types[t].elem].size
           vs == Elements(t, a, n)
           none == <<>>
<1>1. t \in DOMAIN Types /\ a \in DAddress /\ DType = Types[t] BY DEF DItem, DType
<1>2. n \in Nat BY <1>1, TypeFacts
<1>3. /\ vs \in Seq(DItem) /\ Spread(vs)
      /\ \A i \in DOMAIN vs : vs[i].addr[1] = a[1] /\ a[2] <= vs[i].addr[2]
                              /\ vs[i].addr[2] + Extent[vs[i].type] <= a[2] + n * s
  BY <1>1, <1>2, ElementsSpread
<1>4. n * s <= Extent[t] BY <1>1 DEF LaidOut, IsScalar
<1>5. s \in Nat BY <1>1, TypeFacts
<1>6. n * s \in Nat BY <1>2, <1>5
<1>7. a[2] \in Nat /\ Extent[t] \in Nat /\ \A v \in DItem : v.addr[2] \in Nat /\ Extent[v.type] \in Nat
  BY PlaceFacts
<1> DEFINE q == n * s
<1> HIDE DEF vs, none
<1>8. \A i \in DOMAIN vs : Inside(vs[i], DTop)
  <2> TAKE i \in DOMAIN vs
  <2>1. vs[i] \in DItem BY <1>3
  <2>2. vs[i].addr[2] \in Nat /\ Extent[vs[i].type] \in Nat BY <1>7, <2>1
  <2>3. vs[i].addr[2] + Extent[vs[i].type] <= a[2] + q BY <1>3
  <2>4. q \in Nat /\ q <= Extent[t] BY <1>4, <1>6
  <2>5. PICK b, m : b = a[2] /\ m = Extent[t] /\ b \in Nat /\ m \in Nat BY <1>7
  <2>6. PICK p, e : p = vs[i].addr[2] /\ e = Extent[vs[i].type] /\ p \in Nat /\ e \in Nat BY <2>2
  <2> HIDE DEF q
  <2>7. p + e <= b + q /\ q <= m BY <2>3, <2>4, <2>5, <2>6
  <2>8. p + e <= b + m BY <2>4, <2>5, <2>6, <2>7, FurtherEnd
  <2>9. vs[i].addr[2] + Extent[vs[i].type] <= a[2] + Extent[t] BY <2>5, <2>6, <2>8
  <2> QED BY <1>3, <2>9 DEF Inside
<1>9. DOMAIN none = {} BY DEF none
<1>10. Clear(none, vs) BY <1>9 DEF Clear
<1>11. Tidy(none, vs) BY <1>3, <1>8, <1>9, <1>10 DEF Tidy
<1> QED BY <1>1, <1>3, <1>11 DEF vs, none

LEMMA TidyFields ==
  ASSUME LaidOut, DTop \in DItem, DType.kind = "struct"
  PROVE  Tidy(<<>>, Fields(DTop.type, DTop.addr)) /\ Fields(DTop.type, DTop.addr) \in Seq(DItem)
<1> DEFINE vs == Fields(DTop.type, DTop.addr)
           none == <<>>
<1>1. Types[DTop.type].kind = "struct" BY DEF DType
<1>2. vs \in Seq(DItem) /\ Spread(vs) /\ \A i \in DOMAIN vs : Inside(vs[i], DTop) BY <1>1, FieldsSpread
<1>3. DOMAIN none = {} OBVIOUS
<1> HIDE DEF vs, none
<1>4. Clear(none, vs) BY <1>3 DEF Clear
<1>5. Tidy(none, vs) BY <1>2, <1>3, <1>4 DEF Tidy
<1> QED BY <1>2, <1>5 DEF vs, none

\* The value on top is taken, tidily.
TidyStore ==
  \E n, skip, cells, values :
    /\ n \in Nat /\ skip \in Nat /\ values \in Seq(DItem) /\ Ahead(n)
    /\ Tidy(cells, values) /\ Stores(n, skip, cells, values)

LEMMA GotTidy ==
  ASSUME LaidOut, DecoderInv(decoder, wire), NEW m, WireInv(wire, m), GotValue, DTop.addr[1] < decoder.blocks
  PROVE  DecodeFails \/ TidyStore
<1> DEFINE kind == DType.kind
           t == DTop.type
<1>1. decoder.stack # <<>> /\ decoder.stack \in Seq(DItem) /\ decoder.blocks \in Nat
  BY DEF GotValue, DecoderInv, DecoderType
<1>2. DTop \in DItem BY <1>1, PushFacts DEF DTop
<1>3. t \in DOMAIN Types /\ DTop.addr \in DAddress /\ DType = Types[t] BY <1>2 DEF DItem, DType
<1>4. Ahead(0) BY UnitFacts
<1>5. Block \in DAddress /\ Block[1] = decoder.blocks BY <1>1 DEF Block, DAddress
<1> DEFINE none == <<>>
<1>6. none \in Seq(DItem) /\ Spread(none) /\ \A i \in DOMAIN none : none[i].addr[1] = decoder.blocks
  BY SpreadNone
<1> HIDE DEF none, t
<1>7. ASSUME kind \in {"scalar", "string", "tuple", "ptr", "any", "union"}, NEW x
      PROVE  Tidy(Cell(DTop.addr, x), none)
  BY <1>1, <1>2, <1>6, <1>7, TidyCell
<1>8. ASSUME kind \in {"ptr", "any", "union"}, NEW x, NEW s \in DOMAIN Types
      PROVE  Tidy(Cell(DTop.addr, x), InBlock(s)) /\ InBlock(s) \in Seq(DItem)
  <2>1. /\ InBlock(s) \in Seq(DItem) /\ Spread(InBlock(s))
        /\ \A i \in DOMAIN InBlock(s) : InBlock(s)[i].addr[1] = decoder.blocks
    BY <1>1, SpreadOne
  <2> QED BY <1>1, <1>2, <1>8, <2>1, TidyCell
<1>9. CASE kind = "scalar" /\ GotScalar
  <2>1. DecodeFails \/ (Ahead(1) /\ Stores(1, 0, Cell(DTop.addr, Unit(1)), none)) BY <1>9 DEF GotScalar, none
  <2> QED BY <1>6, <1>7, <1>9, <2>1 DEF TidyStore
<1>10. CASE kind \in {"string", "tuple"} /\ GotTuple
  <2> DEFINE u == Unit(1)
             cells == Over(RefCell(u), Copied(Block, 2, u))
             values == Elements(DTop.type, Block, u)
  <2>1. \/ DecodeFails
        \/ u \in Nat /\ Ahead(1 + u) /\ Stores(1 + u, u, cells, none)
        \/ u \in Nat /\ ~IsScalar(DType.elem) /\ Ahead(1) /\ Stores(1, 0, RefCell(u), values)
    BY <1>10 DEF GotTuple, none
  <2>2. ASSUME u \in Nat PROVE Tidy(cells, none) BY <1>1, <1>2, <1>10, <2>2, TidyBlock DEF none
  <2>3. ASSUME u \in Nat, ~IsScalar(DType.elem) PROVE Tidy(RefCell(u), values) /\ values \in Seq(DItem)
    <3>1. /\ values \in Seq(DItem) /\ Spread(values)
          /\ \A i \in DOMAIN values : values[i].addr[1] = decoder.blocks
      BY <1>3, <1>5, <1>10, <2>3, ElementsSpread DEF t
    <3> HIDE DEF values
    <3> QED BY <1>1, <1>2, <1>10, <3>1, TidyCell DEF RefCell
  <2> HIDE DEF cells, values, u
  <2>4. u \in Nat => 1 + u \in Nat OBVIOUS
  <2> QED BY <1>6, <2>1, <2>2, <2>3, <2>4 DEF TidyStore
<1>11. CASE kind = "array" /\ GotArray
  <2> DEFINE s == DType.size
             values == Elements(DTop.type, DTop.addr, s)
  <2>1. \/ DecodeFails
        \/ IsScalar(DType.elem) /\ Ahead(s) /\ Stores(s, s, Copied(DTop.addr, 1, s), none)
        \/ ~IsScalar(DType.elem) /\ Ahead(0) /\ Stores(0, 0, none, values)
    BY <1>11 DEF GotArray, none
  <2>2. s \in Nat BY <1>3, TypeFacts
  <2>3. IsScalar(DType.elem) => Tidy(Copied(DTop.addr, 1, s), none)
    BY <1>1, <1>2, <1>11, TidyRow DEF none
  <2>4. ~IsScalar(DType.elem) => Tidy(none, values) /\ values \in Seq(DItem)
    BY <1>1, <1>2, <1>11, TidyElements DEF none
  <2> HIDE DEF values, s
  <2> QED BY <1>6, <2>1, <2>2, <2>3, <2>4 DEF TidyStore
<1>12. CASE kind = "struct" /\ GotStruct
  <2> DEFINE values == Fields(DTop.type, DTop.addr)
  <2>1. Tidy(none, values) /\ values \in Seq(DItem) BY <1>2, <1>12, TidyFields DEF none
  <2>2. Stores(0, 0, none, values) BY <1>12 DEF GotStruct, none
  <2> HIDE DEF values
  <2> QED BY <1>4, <2>1, <2>2 DEF TidyStore
<1>13. CASE kind = "ptr" /\ GotPtr
  <2> DEFINE target == IF Unit(2) \in DOMAIN Indexed THEN Indexed[Unit(2)] ELSE Junk
  <2>1. \/ DecodeFails
        \/ Ahead(1) /\ Stores(1, 0, Cell(DTop.addr, Nil), none)
        \/ Ahead(2) /\ Stores(2, 0, Cell(DTop.addr, target), none)
        \/ Ahead(1) /\ Stores(1, 0, Cell(DTop.addr, Block), InBlock(DType.elem))
    BY <1>13 DEF GotPtr, none
  <2>2. DType.elem \in DOMAIN Types BY <1>3, <1>13, TypeFacts
  <2> HIDE DEF target
  <2> QED BY <1>6, <1>7, <1>8, <1>13, <2>1, <2>2 DEF TidyStore
<1>14. CASE kind = "any" /\ GotAny
  <2> DEFINE u == Unit(1)
  <2>1. \/ DecodeFails
        \/ \E s \in DOMAIN Hashes :
             Ahead(1 + u) /\ u \in Nat /\ Stores(1 + u, 1 + u, HeldCell(s), InBlock(s))
    BY <1>14 DEF GotAny
  <2>2. CASE ~DecodeFails
    <3>1. PICK s \in DOMAIN Hashes : Ahead(1 + u) /\ u \in Nat /\ Stores(1 + u, 1 + u, HeldCell(s), InBlock(s))
      BY <2>1, <2>2
    <3>2. s \in DOMAIN Types BY HashFacts
    <3>3. Tidy(HeldCell(s), InBlock(s)) /\ InBlock(s) \in Seq(DItem) BY <1>8, <1>14, <3>2 DEF HeldCell
    <3> HIDE DEF u
    <3>4. 1 + u \in Nat BY <3>1
    <3> QED BY <3>1, <3>3, <3>4 DEF TidyStore
  <2> QED BY <2>2
<1>15. CASE kind = "union" /\ GotUnion
  <2> DEFINE f == DType.fields
  <2>1. \/ DecodeFails
        \/ \E i \in DOMAIN f : Ahead(1) /\ Stores(1, 1, HeldCell(f[i]), InBlock(f[i]))
    BY <1>15 DEF GotUnion
  <2>2. CASE ~DecodeFails
    <3>1. PICK i \in DOMAIN f : Ahead(1) /\ Stores(1, 1, HeldCell(f[i]), InBlock(f[i])) BY <2>1, <2>2
    <3>2. f \in Seq(DOMAIN Types) BY <1>3, <1>15, TypeFacts
    <3>3. f[i] \in DOMAIN Types BY <3>2
    <3>4. Tidy(HeldCell(f[i]), InBlock(f[i])) /\ InBlock(f[i]) \in Seq(DItem) BY <1>8, <1>15, <3>3 DEF HeldCell
    <3> HIDE DEF f
    <3> QED BY <3>1, <3>4 DEF TidyStore
  <2> QED BY <2>2
<1>16. CASE kind \in {"dict", "iface"} /\ DecodeFails BY <1>16
<1> QED BY <1>9, <1>10, <1>11, <1>12, <1>13, <1>14, <1>15, <1>16 DEF GotValue

\* Nothing was stored where a value on the stack is still to be decoded.
MemoryInv ==
  /\ DOMAIN memory \subseteq DAddress
  /\ \A c \in DOMAIN memory : c[1] < decoder.blocks
  /\ Clear(memory, decoder.stack) /\ Spread(decoder.stack) /\ Below(decoder.stack, decoder.blocks)

\* What was stored stays.
Kept == \A c \in DOMAIN memory : c \in DOMAIN memory' /\ memory'[c] = memory[c]

\* The values of a stack after a step, each by what it was before.
LEMMA Stacked ==
  ASSUME NEW S, NEW s \in Seq(S), s # <<>>, NEW v \in Seq(S)
  PROVE  \A i \in DOMAIN (v \o Tail(s)) :
           \/ i \in DOMAIN v /\ (v \o Tail(s))[i] = v[i]
           \/ /\ i \notin DOMAIN v /\ (i - Len(v)) + 1 \in DOMAIN s /\ (i - Len(v)) + 1 # 1
              /\ (v \o Tail(s))[i] = s[(i - Len(v)) + 1]
<1> DEFINE r == v \o Tail(s)
           k == Len(v)
           m == Len(s) - 1
<1>1. /\ Len(s) \in Nat /\ Len(s) >= 1 /\ k \in Nat /\ Len(r) = k + Len(s) - 1 /\ r \in Seq(S)
      /\ \A i \in 1..k : r[i] = v[i]
      /\ \A i \in 1..m : r[k + i] = s[i + 1]
  BY PushFacts
<1>2. DOMAIN r = 1..(k + m) /\ m \in Nat /\ DOMAIN v = 1..k /\ DOMAIN s = 1..(m + 1)
  <2>1. DOMAIN r = 1..Len(r) /\ DOMAIN v = 1..k /\ DOMAIN s = 1..Len(s) BY <1>1
  <2>2. Len(r) = k + m /\ Len(s) = m + 1 /\ m \in Nat BY <1>1
  <2> QED BY <2>1, <2>2
<1> HIDE DEF r, k, m
<1> SUFFICES ASSUME NEW i \in 1..(k + m)
             PROVE  \/ i \in 1..k /\ r[i] = v[i]
                    \/ /\ i \notin 1..k /\ (i - k) + 1 \in 1..(m + 1) /\ (i - k) + 1 # 1
                       /\ r[i] = s[(i - k) + 1]
  BY <1>2 DEF r, k
<1>3. CASE i \in 1..k BY <1>1, <1>3
<1>4. CASE i \notin 1..k
  <2>1. i - k \in 1..m /\ k + (i - k) = i BY <1>1, <1>2, <1>4
  <2>2. r[k + (i - k)] = s[(i - k) + 1] BY <1>1, <2>1
  <2>3. (i - k) + 1 \in 1..(m + 1) /\ (i - k) + 1 # 1 BY <1>2, <2>1
  <2> QED BY <1>4, <2>1, <2>2, <2>3
<1> QED BY <1>3, <1>4

LEMMA StoresMore ==
  ASSUME DecoderInv(decoder, wire), NEW n, NEW skip, NEW cells, NEW values, Stores(n, skip, cells, values)
  PROVE  /\ decoder'.table = Indexed /\ decoder'.blocks = decoder.blocks + 1
         /\ decoder'.stack = values \o Tail(decoder.stack) /\ decoder'.pos = decoder.pos + n
         /\ decoder'.next = decoder.next + 1 + skip /\ decoder'.turn = decoder.turn
         /\ memory' = Over(cells, memory)
         /\ decoded' = Append(decoded, [type |-> DTop.type, addr |-> DTop.addr, count |-> decoder.next])
<1> DEFINE s == values \o Tail(decoder.stack)
           x == Indexed
           T == Partial(Nat, DAddress \cup {Junk})
           S == Seq(DItem)
           d == [decoder EXCEPT !.stack = s, !.pos = decoder.pos + n, !.next = decoder.next + 1 + skip,
                                !.table = x, !.blocks = decoder.blocks + 1]
<1>1. decoder \in [stack : S, pos : Nat, next : Nat, table : T, blocks : Nat, turn : 0..2,
                   result : {"none", "ok", "fail"}]
  BY DEF DecoderInv, DecoderType
<1>2. decoder' = d BY DEF Stores
<1>3. memory' = Over(cells, memory)
      /\ decoded' = Append(decoded, [type |-> DTop.type, addr |-> DTop.addr, count |-> decoder.next])
  BY DEF Stores
<1> HIDE DEF s, x, S, T
<1>4. /\ d.stack = s /\ d.pos = decoder.pos + n /\ d.next = decoder.next + 1 + skip /\ d.turn = decoder.turn
      /\ d.table = x /\ d.blocks = decoder.blocks + 1
  BY <1>1
<1> HIDE DEF d
<1> QED BY <1>2, <1>3, <1>4 DEF s, x

LEMMA TidyStep ==
  ASSUME LaidOut, DecoderInv(decoder, wire), decoder.stack # <<>>, MemoryInv,
         NEW n \in Nat, NEW skip \in Nat, NEW cells, NEW values \in Seq(DItem),
         Tidy(cells, values), Stores(n, skip, cells, values)
  PROVE  MemoryInv' /\ Kept
<1> DEFINE s == decoder.stack
           r == values \o Tail(s)
           b == decoder.blocks
           k == Len(values)
<1>1. s \in Seq(DItem) /\ b \in Nat /\ s # <<>> BY DEF DecoderInv, DecoderType
<1>2. DTop = s[1] /\ DTop \in DItem /\ 1 \in DOMAIN s
  <2>1. Head(s) = s[1] /\ Head(s) \in DItem /\ Len(s) >= 1 /\ Len(s) \in Nat BY <1>1, PushFacts
  <2> QED BY <1>1, <2>1 DEF DTop
<1>3. decoder'.stack = r /\ decoder'.blocks = b + 1 /\ memory' = Over(cells, memory) BY StoresMore
<1>4. \A i \in DOMAIN r :
        \/ i \in DOMAIN values /\ r[i] = values[i]
        \/ i \notin DOMAIN values /\ (i - k) + 1 \in DOMAIN s /\ (i - k) + 1 # 1 /\ r[i] = s[(i - k) + 1]
  BY <1>1, Stacked
<1>5. r \in Seq(DItem) /\ \A i \in DOMAIN r : i \in Nat BY <1>1, PushFacts
<1>6. /\ DOMAIN memory \subseteq DAddress
      /\ \A c \in DOMAIN memory : c[1] < b
      /\ Clear(memory, s) /\ Spread(s) /\ Below(s, b)
  BY DEF MemoryInv
<1>7. /\ DOMAIN cells \subseteq DAddress
      /\ \A c \in DOMAIN cells : Within(c, DTop) \/ c[1] = b
      /\ \A i \in DOMAIN values : Inside(values[i], DTop) \/ values[i].addr[1] = b
      /\ Clear(cells, values) /\ Spread(values)
  BY DEF Tidy
<1>8. k \in Nat /\ (\A i \in DOMAIN values : values[i] \in DItem) /\ \A i \in DOMAIN s : s[i] \in DItem
  BY <1>1
<1>9. \A v \in DItem : v.addr[1] \in Nat BY PlaceFacts
<1>10. \A c \in DAddress : c[1] \in Nat BY PlaceFacts
<1>11. DTop.addr[1] < b BY <1>2, <1>6 DEF Below
<1> HIDE DEF s, r, b, k
<1>12. DOMAIN Over(cells, memory) = DOMAIN cells \cup DOMAIN memory
       /\ \A c \in DOMAIN memory : c \notin DOMAIN cells => Over(cells, memory)[c] = memory[c]
  BY DEF Over
<1>13. \A c \in DOMAIN memory : c \notin DOMAIN cells
  <2> SUFFICES ASSUME NEW c \in DOMAIN memory, c \in DOMAIN cells PROVE FALSE OBVIOUS
  <2>1. c[1] < b /\ c[1] \in Nat BY <1>6, <1>10
  <2>2. Within(c, DTop) BY <1>1, <1>7, <2>1
  <2>3. ~Within(c, s[1]) BY <1>2, <1>6 DEF Clear
  <2> QED BY <1>2, <2>2, <2>3
<1>14. Kept BY <1>3, <1>12, <1>13 DEF Kept
\* The two sorts of values on the new stack.
<1>15. ASSUME NEW i \in DOMAIN values, NEW j \in DOMAIN s, j # 1
       PROVE  Apart(values[i], s[j]) /\ Apart(s[j], values[i])
  <2>1. values[i] \in DItem /\ s[j] \in DItem /\ DTop \in DItem BY <1>2, <1>8
  <2>2. Apart(DTop, s[j]) BY <1>2, <1>6, <1>15 DEF Spread
  <2>3. CASE Inside(values[i], DTop)
    <3>1. <<0, 0>> \in DAddress BY DEF DAddress
    <3>2. Apart(values[i], s[j]) BY <2>1, <2>2, <2>3, <3>1, PlaceRules
    <3> QED BY <2>1, <3>1, <3>2, PlaceRules
  <2>4. CASE values[i].addr[1] = b
    <3>1. s[j].addr[1] < b /\ s[j].addr[1] \in Nat BY <1>6, <1>9, <2>1 DEF Below
    <3>2. s[j].addr[1] # b BY <1>1, <3>1
    <3> QED BY <2>4, <3>2 DEF Apart
  <2> QED BY <1>7, <2>3, <2>4
<1>16. Spread(r)
  <2> SUFFICES ASSUME NEW i \in DOMAIN r, NEW j \in DOMAIN r, i # j PROVE Apart(r[i], r[j]) BY DEF Spread
  <2> DEFINE p == (i - k) + 1
             q == (j - k) + 1
  <2>1. p # q BY <1>5, <1>8
  <2>2. \/ i \in DOMAIN values /\ r[i] = values[i]
        \/ p \in DOMAIN s /\ p # 1 /\ r[i] = s[p]
    BY <1>4
  <2>3. \/ j \in DOMAIN values /\ r[j] = values[j]
        \/ q \in DOMAIN s /\ q # 1 /\ r[j] = s[q]
    BY <1>4
  <2> HIDE DEF p, q
  <2>4. CASE i \in DOMAIN values /\ r[i] = values[i] /\ j \in DOMAIN values /\ r[j] = values[j]
    BY <1>7, <2>4 DEF Spread
  <2>5. CASE p \in DOMAIN s /\ p # 1 /\ r[i] = s[p] /\ q \in DOMAIN s /\ q # 1 /\ r[j] = s[q]
    BY <1>6, <2>1, <2>5 DEF Spread
  <2> QED BY <1>15, <2>2, <2>3, <2>4, <2>5
<1>17. Clear(Over(cells, memory), r)
  <2> SUFFICES ASSUME NEW c \in DOMAIN cells \cup DOMAIN memory, NEW i \in DOMAIN r PROVE ~Within(c, r[i])
    BY <1>12 DEF Clear
  <2> DEFINE p == (i - k) + 1
  <2>1. \/ i \in DOMAIN values /\ r[i] = values[i]
        \/ p \in DOMAIN s /\ p # 1 /\ r[i] = s[p]
    BY <1>4
  <2> HIDE DEF p
  <2>2. c \in DAddress BY <1>6, <1>7
  <2>3. ASSUME i \in DOMAIN values, c \in DOMAIN memory PROVE ~Within(c, values[i])
    <3>1. c[1] < b /\ c[1] \in Nat BY <1>6, <1>10, <2>2, <2>3
    <3>2. CASE Inside(values[i], DTop)
      <4>1. ~Within(c, DTop) BY <1>2, <1>6, <2>3 DEF Clear
      <4> QED BY <1>2, <1>8, <2>2, <2>3, <3>2, <4>1, PlaceRules
    <3>3. CASE values[i].addr[1] = b
      <4>1. c[1] # values[i].addr[1] BY <1>1, <3>1, <3>3
      <4> QED BY <4>1 DEF Within
    <3> QED BY <1>7, <2>3, <3>2, <3>3
  <2>4. ASSUME p \in DOMAIN s, p # 1, c \in DOMAIN cells PROVE ~Within(c, s[p])
    <3>1. CASE Within(c, DTop)
      <4>1. Apart(DTop, s[p]) BY <1>2, <1>6, <2>4 DEF Spread
      <4> QED BY <1>2, <1>8, <2>2, <2>4, <3>1, <4>1, PlaceRules
    <3>2. CASE c[1] = b
      <4>1. s[p].addr[1] < b /\ s[p].addr[1] \in Nat BY <1>6, <1>8, <1>9, <2>4 DEF Below
      <4>2. c[1] # s[p].addr[1] BY <1>1, <3>2, <4>1
      <4> QED BY <4>2 DEF Within
    <3> QED BY <1>7, <2>4, <3>1, <3>2
  <2>5. i \in DOMAIN values /\ c \in DOMAIN cells => ~Within(c, values[i]) BY <1>7 DEF Clear
  <2>6. p \in DOMAIN s /\ c \in DOMAIN memory => ~Within(c, s[p]) BY <1>6 DEF Clear
  <2> QED BY <2>1, <2>3, <2>4, <2>5, <2>6
<1>18. Below(r, b + 1)
  <2> SUFFICES ASSUME NEW i \in DOMAIN r PROVE r[i].addr[1] < b + 1 BY DEF Below
  <2> DEFINE p == (i - k) + 1
  <2>1. \/ i \in DOMAIN values /\ r[i] = values[i]
        \/ p \in DOMAIN s /\ r[i] = s[p]
    BY <1>4
  <2> HIDE DEF p
  <2>2. ASSUME p \in DOMAIN s PROVE s[p].addr[1] < b + 1
    <3>1. s[p].addr[1] < b /\ s[p].addr[1] \in Nat BY <1>6, <1>8, <1>9, <2>2 DEF Below
    <3> QED BY <1>1, <3>1
  <2>3. ASSUME i \in DOMAIN values PROVE values[i].addr[1] < b + 1
    <3>1. Inside(values[i], DTop) \/ values[i].addr[1] = b BY <1>7, <2>3
    <3>2. values[i].addr[1] = DTop.addr[1] \/ values[i].addr[1] = b BY <3>1 DEF Inside
    <3>3. DTop.addr[1] \in Nat BY <1>2, <1>9
    <3> QED BY <1>1, <1>11, <3>2, <3>3
  <2> QED BY <2>1, <2>2, <2>3
<1>19. \A c \in DOMAIN cells \cup DOMAIN memory : c \in DAddress /\ c[1] < b + 1
  <2> TAKE c \in DOMAIN cells \cup DOMAIN memory
  <2>1. c \in DAddress BY <1>6, <1>7
  <2>2. c[1] \in Nat BY <1>10, <2>1
  <2>3. c[1] < b \/ c[1] = b
    <3>1. Within(c, DTop) => c[1] = DTop.addr[1] BY DEF Within
    <3> QED BY <1>6, <1>7, <1>11, <3>1
  <2> QED BY <1>1, <2>1, <2>2, <2>3
<1>20. MemoryInv'
  <2> DEFINE f == Over(cells, memory)
  <2>1. DOMAIN f \subseteq DAddress /\ \A c \in DOMAIN f : c[1] < b + 1 BY <1>12, <1>19
  <2>2. Clear(f, r) BY <1>17
  <2> HIDE DEF f
  <2>3. memory' = f BY <1>3 DEF f
  <2>4. Clear(memory', decoder'.stack) /\ Spread(decoder'.stack) /\ Below(decoder'.stack, decoder'.blocks)
    BY <1>3, <1>16, <1>18, <2>2, <2>3
  <2>5. Clear(memory, decoder.stack)' /\ Spread(decoder.stack)' /\ Below(decoder.stack, decoder.blocks)'
    BY <2>4 DEF Clear, Spread, Below
  <2> QED BY <1>3, <2>1, <2>3, <2>5 DEF MemoryInv
<1> QED BY <1>14, <1>20

\* A value to decode on an empty stack, in a block of its own.
LEMMA StartsMemory ==
  ASSUME NEW b \in Nat, MemoryInv, NEW v \in DItem, v.addr[1] = b, decoder.blocks \in Nat, decoder.blocks <= b,
         decoder'.stack = <<v>>, decoder'.blocks = b + 1, memory' = memory, LaidOut
  PROVE  MemoryInv'
<1> DEFINE s == <<v>>
<1>1. DOMAIN s = {1} /\ s[1] = v OBVIOUS
<1>2. DOMAIN memory \subseteq DAddress /\ \A c \in DOMAIN memory : c[1] < decoder.blocks BY DEF MemoryInv
<1>3. \A c \in DOMAIN memory : c[1] \in Nat BY <1>2, PlaceFacts
<1> HIDE DEF s
<1>4. \A c \in DOMAIN memory : c[1] < b /\ c[1] < b + 1 BY <1>2, <1>3
<1>5. Clear(memory, s)
  <2> SUFFICES ASSUME NEW c \in DOMAIN memory PROVE ~Within(c, v) BY <1>1 DEF Clear
  <2>1. c[1] # b BY <1>3, <1>4
  <2> QED BY <2>1 DEF Within
<1>6. Spread(s) BY <1>1 DEF Spread
<1>7. Below(s, b + 1) BY <1>1 DEF Below
<1>8. decoder'.stack = s BY DEF s
<1>9. Clear(memory', decoder'.stack) /\ Spread(decoder'.stack) /\ Below(decoder'.stack, decoder'.blocks)
  BY <1>5, <1>6, <1>7, <1>8
<1>10. Clear(memory, decoder.stack)' /\ Spread(decoder.stack)' /\ Below(decoder.stack, decoder.blocks)'
  BY <1>9 DEF Clear, Spread, Below
<1> QED BY <1>2, <1>4, <1>10 DEF MemoryInv

\* Nothing but the stack changes, which gets no longer, or not even that.
LEMMA StayMemory ==
  ASSUME MemoryInv, decoder'.stack = decoder.stack \/ decoder'.stack = <<>>,
         decoder'.blocks = decoder.blocks, memory' = memory
  PROVE  MemoryInv'
<1> DEFINE none == <<>>
<1>1. DOMAIN none = {} OBVIOUS
<1>2. Clear(memory, decoder.stack) /\ Spread(decoder.stack) /\ Below(decoder.stack, decoder.blocks)
  BY DEF MemoryInv
<1> HIDE DEF none
<1>3. Clear(memory, none) /\ Spread(none) /\ Below(none, decoder.blocks) BY <1>1 DEF Clear, Spread, Below
<1>4. decoder'.stack = decoder.stack \/ decoder'.stack = none BY DEF none
<1>5. Clear(memory', decoder'.stack) /\ Spread(decoder'.stack) /\ Below(decoder'.stack, decoder'.blocks)
  BY <1>2, <1>3, <1>4
<1>6. Clear(memory, decoder.stack)' /\ Spread(decoder.stack)' /\ Below(decoder.stack, decoder.blocks)'
  BY <1>5 DEF Clear, Spread, Below
<1> QED BY <1>6 DEF MemoryInv

LEMMA FailsMemory ==
  ASSUME DecoderInv(decoder, wire), DecodeFails
  PROVE  /\ decoder'.stack = decoder.stack \/ decoder'.stack = <<>>
         /\ decoder'.blocks = decoder.blocks /\ memory' = memory
<1> DEFINE none == <<>>
           d == [decoder EXCEPT !.stack = none]
           e == [decoder EXCEPT !.result = "fail"]
<1>1. decoder \in DecoderType BY DEF DecoderInv
<1>2. decoder' = d \/ decoder' = e BY DEF DecodeFails
<1>3. memory' = memory BY DEF DecodeFails
<1> HIDE DEF none
<1>4. d.stack = none /\ d.blocks = decoder.blocks BY <1>1 DEF DecoderType
<1>5. e.stack = decoder.stack /\ e.blocks = decoder.blocks BY <1>1 DEF DecoderType
<1> HIDE DEF d, e
<1> QED BY <1>2, <1>3, <1>4, <1>5 DEF none

LEMMA StartingFacts ==
  ASSUME NEW d \in DecoderType, NEW s, NEW b, NEW k
  PROVE  Starting(d, s, b, k).stack = s /\ Starting(d, s, b, k).blocks = b /\ Starting(d, s, b, k).table = d.table
<1> DEFINE S == Seq(DItem)
           T == Partial(Nat, DAddress \cup {Junk})
<1>1. d \in [stack : S, pos : Nat, next : Nat, table : T, blocks : Nat, turn : 0..2,
             result : {"none", "ok", "fail"}]
  BY DEF DecoderType
<1> HIDE DEF S, T
<1> QED BY <1>1 DEF Starting

LEMMA DecodeStartMemory ==
  ASSUME LaidOut, TypesInv, DecodeStart, MemoryInv
  PROVE  MemoryInv' /\ Kept
<1> DEFINE t == IF IsCall THEN CallId ELSE world.type
           v == Value(t, <<0, 0>>, FALSE)
           s == <<v>>
           d == Starting(decoder, s, 1, 1)
<1>1. decoder \in DecoderType BY DEF TypesInv, DecoderInv
<1>2. decoder = NewDecoder BY DEF TypesInv, CallInv, DecodeStart
<1>3. t \in DOMAIN Types /\ <<0, 0>> \in DAddress BY HashFacts, WorldFacts DEF TypesInv, DAddress
<1> HIDE DEF t
<1>4. v \in DItem BY <1>3, AddressFacts
<1>5. v.addr[1] = 0 BY DEF Value
<1>6. decoder' = d /\ memory' = memory BY DEF DecodeStart, Starting, t
<1>7. decoder.blocks = 0 BY <1>2 DEF NewDecoder
<1> HIDE DEF s
<1>8. d.stack = s /\ d.blocks = 1 BY <1>1, StartingFacts
<1> HIDE DEF d, v
<1>9. decoder'.stack = <<v>> /\ decoder'.blocks = 0 + 1 /\ 0 \in Nat /\ decoder.blocks <= 0 /\ decoder.blocks \in Nat
  BY <1>6, <1>7, <1>8 DEF s
<1>10. MemoryInv' BY <1>4, <1>5, <1>6, <1>9, StartsMemory
<1> QED BY <1>6, <1>10 DEF Kept

LEMMA ArgumentsMemory ==
  ASSUME LaidOut, TypesInv, DecodeArguments, MemoryInv
  PROVE  MemoryInv' /\ Kept
<1> DEFINE methods == Types[world.type].methods
<1>1. decoder \in DecoderType /\ decoder.blocks \in Nat BY DEF TypesInv, DecoderInv, DecoderType
<1>2. PICK call : IF call < Len(methods)
        THEN decoder' = [decoder EXCEPT !.stack = <<Value(methods[call + 1], Block, FALSE)>>,
                                        !.next = 0, !.blocks = @ + 1, !.turn = 2]
        ELSE decoder' = [decoder EXCEPT !.result = "fail"]
  BY DEF DecodeArguments
<1>3. memory' = memory BY DEF DecodeArguments
<1>4. CASE call < Len(methods)
  <2> DEFINE v == Value(methods[call + 1], Block, FALSE)
             s == <<v>>
             d == Starting(decoder, s, decoder.blocks + 1, 2)
  <2>1. decoder' = d BY <1>2, <1>4 DEF Starting
  <2>2. v.addr[1] = decoder.blocks BY DEF Value, Block
  <2> HIDE DEF s
  <2>3. d.stack = s /\ d.blocks = decoder.blocks + 1 BY <1>1, StartingFacts
  <2> HIDE DEF d
  <2>4. decoder'.stack = s /\ decoder'.blocks = decoder.blocks + 1 BY <2>1, <2>3
  <2>5. s \in Seq(DItem)
    <3>1. DecoderInv(decoder', wire) BY ArgumentsTypes
    <3>2. decoder'.stack \in Seq(DItem) BY <3>1 DEF DecoderInv, DecoderType
    <3> QED BY <2>4, <3>2
  <2> HIDE DEF v
  <2>6. v \in DItem
    <3>1. <<v>> \in Seq(DItem) BY <2>5 DEF s
    <3> QED BY <3>1
  <2>7. decoder'.stack = <<v>> /\ decoder.blocks <= decoder.blocks BY <1>1, <2>4 DEF s
  <2>8. MemoryInv' BY <1>1, <1>3, <2>2, <2>4, <2>6, <2>7, StartsMemory
  <2> QED BY <1>3, <2>8 DEF Kept
<1>5. CASE ~(call < Len(methods))
  <2> DEFINE e == [decoder EXCEPT !.result = "fail"]
  <2>1. decoder' = e BY <1>2, <1>5
  <2>2. e.stack = decoder.stack /\ e.blocks = decoder.blocks BY <1>1 DEF DecoderType
  <2> HIDE DEF e
  <2>3. decoder'.stack = decoder.stack /\ decoder'.blocks = decoder.blocks BY <2>1, <2>2
  <2>4. MemoryInv' BY <1>3, <2>3, StayMemory
  <2> QED BY <1>3, <2>4 DEF Kept
<1> QED BY <1>4, <1>5

LEMMA DecodeMemory ==
  ASSUME LaidOut, TypesInv, Decode, MemoryInv
  PROVE  MemoryInv' /\ Kept
<1>1. DecoderInv(decoder, wire) /\ WireInv(wire, Room + 1) BY DEF TypesInv
<1>2. DecodeStart \/ DecodeArguments \/ DecodeEnd \/ GotValue BY <1>1, GotForm
<1>3. CASE DecodeStart BY <1>3, DecodeStartMemory
<1>4. CASE DecodeArguments BY <1>4, ArgumentsMemory
<1>5. CASE DecodeEnd
  <2> DEFINE e == [decoder EXCEPT !.result = "ok"]
  <2>1. decoder' = e /\ memory' = memory BY <1>5 DEF DecodeEnd
  <2>2. decoder \in DecoderType BY <1>1 DEF DecoderInv
  <2>3. e.stack = decoder.stack /\ e.blocks = decoder.blocks BY <2>2 DEF DecoderType
  <2> HIDE DEF e
  <2>4. MemoryInv' BY <2>1, <2>3, StayMemory
  <2> QED BY <2>1, <2>4 DEF Kept
<1>6. CASE GotValue
  <2>1. decoder.stack # <<>> /\ decoder.stack \in Seq(DItem) /\ Len(decoder.stack) >= 1 /\ DTop = decoder.stack[1]
    <3>1. decoder.stack # <<>> /\ decoder.stack \in Seq(DItem) BY <1>1, <1>6 DEF GotValue, DecoderInv, DecoderType
    <3> QED BY <3>1, PushFacts DEF DTop
  <2>2. 1 \in DOMAIN decoder.stack BY <2>1
  <2>3. DTop.addr[1] < decoder.blocks BY <2>1, <2>2 DEF MemoryInv, Below
  <2>4. DecodeFails \/ TidyStore BY <1>1, <1>6, <2>3, GotTidy
  <2>5. CASE DecodeFails
    <3>1. /\ decoder'.stack = decoder.stack \/ decoder'.stack = <<>>
          /\ decoder'.blocks = decoder.blocks /\ memory' = memory
      BY <1>1, <2>5, FailsMemory
    <3> QED BY <3>1, StayMemory DEF Kept
  <2>6. CASE TidyStore
    <3>1. PICK n, skip, cells, values :
            /\ n \in Nat /\ skip \in Nat /\ values \in Seq(DItem)
            /\ Tidy(cells, values) /\ Stores(n, skip, cells, values)
      BY <2>6 DEF TidyStore
    <3> QED BY <1>1, <2>1, <3>1, TidyStep
  <2> QED BY <2>4, <2>5, <2>6
<1> QED BY <1>2, <1>3, <1>4, <1>5, <1>6

LEMMA MemoryInit == Init => MemoryInv
<1> SUFFICES ASSUME Init PROVE MemoryInv OBVIOUS
<1> DEFINE none == <<>>
<1>1. memory = none /\ decoder.stack = none BY DEF Init
<1>2. DOMAIN none = {} OBVIOUS
<1> HIDE DEF none
<1>3. Clear(none, none) /\ Spread(none) /\ Below(none, decoder.blocks) BY <1>2 DEF Clear, Spread, Below
<1> QED BY <1>1, <1>2, <1>3 DEF MemoryInv

LEMMA MemoryStep ==
  ASSUME LaidOut, TypesInv, [Next]_vars, MemoryInv
  PROVE  MemoryInv' /\ Kept
<1>1. CASE Decode BY <1>1, DecodeMemory
<1>2. CASE UNCHANGED <<decoder, memory>>
  <2>1. MemoryInv' BY <1>2, StayMemory
  <2> QED BY <1>2, <2>1 DEF Kept
<1>3. ASSUME Encode PROVE UNCHANGED <<decoder, memory>>
  BY <1>3 DEF Encode, EncodeStart, EncodeScalar, EncodeTuple, EncodeArray, EncodeStruct, EncodePtr, EncodeAny,
              EncodeAnyEnd, EncodeUnion, EncodeFail, EncodeEnd, Encodes
<1>4. ASSUME Deliver PROVE UNCHANGED <<decoder, memory>> BY <1>4 DEF Deliver
<1>5. ASSUME Verify PROVE UNCHANGED <<decoder, memory>>
  BY <1>5 DEF Verify, VerifyScalar, VerifyTuple, VerifyArray, VerifyStruct, VerifyPtr, VerifyAny, VerifyUnion,
              VerifyInterface, VerifyNotImplemented, VerifyEnd, Verifies, Verified
<1>6. ASSUME UNCHANGED vars PROVE UNCHANGED <<decoder, memory>> BY <1>6 DEF vars
<1> QED BY <1>1, <1>2, <1>3, <1>4, <1>5, <1>6 DEF Next

LEMMA MemoryAlways == ASSUME LaidOut PROVE Spec => []MemoryInv
<1>1. MemoryInv /\ TypesInv /\ [Next]_vars => MemoryInv' BY MemoryStep
<1> QED BY <1>1, MemoryInit, TypesAlways, PTL DEF Spec

\* Where values lie side by side (generic/types.h), the decoder never writes over
\* what it has decoded, whoever wrote the wire: the memory of a value, its copies of
\* scalars and its references stay as they were stored, whatever is decoded later
\* (decoder.c).
THEOREM NeverOverwritten ==
  ASSUME LaidOut
  PROVE  Spec => [][\A c \in DOMAIN memory : c \in DOMAIN memory' /\ memory'[c] = memory[c]]_vars
<1>1. MemoryInv /\ TypesInv /\ [Next]_vars => [Kept]_vars BY MemoryStep
<1>2. Spec => [][Kept]_vars BY <1>1, MemoryAlways, TypesAlways, PTL DEF Spec
<1> QED BY <1>2 DEF Kept
-----------------------------------------------------------------------------
(* The values of a stack of the encoder without the ends of its any        *)
(* values: g counts those among the first values of s.                     *)

Keeps(g, s, ts) ==
  /\ g \in [0..Len(s) -> 0..Len(ts)] /\ g[0] = 0 /\ g[Len(s)] = Len(ts)
  /\ \A i, j \in 0..Len(s) : i <= j => g[i] <= g[j]
  /\ \A i \in 1..Len(s) : s[i] = AnyEnd => g[i] = g[i - 1]
  /\ \A i \in 1..Len(s) : s[i] # AnyEnd => g[i] = g[i - 1] + 1 /\ ts[g[i]] = s[i]

Sheds(S, s, ts) == ts \in Seq(S) /\ \E g : Keeps(g, s, ts)

LEMMA ShedsEmpty ==
  ASSUME NEW S
  PROVE  /\ Sheds(S, <<>>, <<>>)
         /\ \A ts : Sheds(S, <<>>, ts) => ts = <<>>
<1> DEFINE none == <<>>
           g == [i \in 0..0 |-> 0]
<1>1. Len(none) = 0 /\ none \in Seq(S) OBVIOUS
<1>2. ASSUME NEW ts, Sheds(S, none, ts) PROVE ts = <<>>
  <2>1. PICK h : Keeps(h, none, ts) BY <1>2 DEF Sheds
  <2>2. Len(ts) = 0 BY <1>1, <2>1 DEF Keeps
  <2>3. ts \in Seq(S) BY <1>2 DEF Sheds
  <2> QED BY <2>2, <2>3
<1> HIDE DEF none
<1>3. g \in [0..0 -> 0..0] /\ \A i \in 0..0 : g[i] = 0 OBVIOUS
<1> HIDE DEF g
<1>4. Keeps(g, none, none) BY <1>1, <1>3 DEF Keeps
<1>5. Sheds(S, none, none) BY <1>1, <1>4 DEF Sheds
<1> QED BY <1>2, <1>5 DEF none

LEMMA ShedsOne ==
  ASSUME NEW S, NEW v \in S, v # AnyEnd
  PROVE  Sheds(S, <<v>>, <<v>>) /\ Sheds(S, <<v, AnyEnd>>, <<v>>)
<1> DEFINE g == [i \in 0..1 |-> i]
           h == [i \in 0..2 |-> IF i = 0 THEN 0 ELSE 1]
           ts == <<v>>
           s == <<v>>
           r == <<v, AnyEnd>>
<1>1. ts \in Seq(S) /\ Len(ts) = 1 /\ ts[1] = v OBVIOUS
<1>2. Len(s) = 1 /\ s[1] = v /\ Len(r) = 2 /\ r[1] = v /\ r[2] = AnyEnd OBVIOUS
<1>3. g \in [0..1 -> 0..1] /\ g[0] = 0 /\ g[1] = 1 OBVIOUS
<1>4. h \in [0..2 -> 0..1] /\ h[0] = 0 /\ h[1] = 1 /\ h[2] = 1 OBVIOUS
<1> HIDE DEF g, h, ts, s, r
<1>5. Keeps(g, s, ts)
  <2>1. \A i, j \in 0..1 : i <= j => g[i] <= g[j]
    <3>1. \A i \in 0..1 : i = 0 \/ i = 1 OBVIOUS
    <3> QED BY <1>3, <3>1
  <2>2. \A i \in 1..1 : i = 1 OBVIOUS
  <2> QED BY <1>1, <1>2, <1>3, <2>1, <2>2 DEF Keeps
<1>6. Keeps(h, r, ts)
  <2>1. \A i, j \in 0..2 : i <= j => h[i] <= h[j]
    <3>1. \A i \in 0..2 : i = 0 \/ i = 1 \/ i = 2 OBVIOUS
    <3> QED BY <1>4, <3>1
  <2>2. \A i \in 1..2 : i = 1 \/ i = 2 OBVIOUS
  <2>3. \A i \in 1..2 : r[i] = AnyEnd => h[i] = h[i - 1] BY <1>2, <1>4, <2>2
  <2>4. \A i \in 1..2 : r[i] # AnyEnd => h[i] = h[i - 1] + 1 /\ ts[h[i]] = r[i]
    BY <1>1, <1>2, <1>4, <2>2
  <2> QED BY <1>1, <1>2, <1>4, <2>1, <2>3, <2>4 DEF Keeps
<1>7. Sheds(S, s, ts) /\ Sheds(S, r, ts) BY <1>1, <1>5, <1>6 DEF Sheds
<1> QED BY <1>7 DEF s, r, ts

LEMMA ShedsMade ==
  ASSUME NEW S, NEW n \in Nat, NEW s, NEW ts \in Seq(S), Len(s) = n, Len(ts) = n,
         \A i \in 1..n : s[i] # AnyEnd /\ s[i] = ts[i]
  PROVE  Sheds(S, s, ts)
<1> DEFINE g == [i \in 0..n |-> i]
<1>1. g \in [0..n -> 0..n] /\ g[0] = 0 /\ g[n] = n /\ \A i \in 0..n : g[i] = i OBVIOUS
<1> HIDE DEF g
<1>2. \A i \in 1..n : g[i] = i /\ g[i - 1] = i - 1 /\ g[i] = g[i - 1] + 1
  <2> TAKE i \in 1..n
  <2>1. i \in 0..n /\ i - 1 \in 0..n OBVIOUS
  <2> QED BY <1>1, <2>1
<1>3. \A i, j \in 0..n : i <= j => g[i] <= g[j] BY <1>1
<1>4. Keeps(g, s, ts) BY <1>1, <1>2, <1>3 DEF Keeps
<1> QED BY <1>4 DEF Sheds

LEMMA ShedsPop ==
  ASSUME NEW S, NEW s \in Seq(S), s # <<>>, Head(s) = AnyEnd, NEW ts, Sheds(S, s, ts)
  PROVE  Sheds(S, Tail(s), ts)
<1> DEFINE r == Tail(s)
           m == Len(s) - 1
<1>1. PICK g : Keeps(g, s, ts) BY DEF Sheds
<1>2. ts \in Seq(S) /\ Len(ts) \in Nat BY DEF Sheds
<1>3. /\ Len(s) \in Nat /\ Len(s) >= 1 /\ Head(s) = s[1] /\ Len(r) = m /\ m \in Nat
      /\ \A i \in 1..m : r[i] = s[i + 1]
  BY HeadTailProperties
<1> HIDE DEF r
<1>4. /\ g \in [0..Len(s) -> 0..Len(ts)] /\ g[0] = 0 /\ g[Len(s)] = Len(ts)
      /\ \A i, j \in 0..Len(s) : i <= j => g[i] <= g[j]
      /\ \A i \in 1..Len(s) : s[i] = AnyEnd => g[i] = g[i - 1]
      /\ \A i \in 1..Len(s) : s[i] # AnyEnd => g[i] = g[i - 1] + 1 /\ ts[g[i]] = s[i]
  BY <1>1 DEF Keeps
<1> DEFINE h == [i \in 0..m |-> g[i + 1]]
<1>5. \A i \in 0..m : i + 1 \in 0..Len(s) /\ i + 1 \in 1..Len(s) BY <1>3
<1>6. h \in [0..m -> 0..Len(ts)] /\ \A i \in 0..m : h[i] = g[i + 1] BY <1>4, <1>5
<1> HIDE DEF h, m
<1>7. h[0] = 0
  <2>1. 0 \in 0..m /\ 1 \in 1..Len(s) BY <1>3
  <2>2. g[1] = g[0] BY <1>3, <1>4, <2>1
  <2> QED BY <1>4, <1>6, <2>1, <2>2
<1>8. h[m] = Len(ts)
  <2>1. m \in 0..m /\ m + 1 = Len(s) BY <1>3 DEF m
  <2> QED BY <1>4, <1>6, <2>1
<1>9. \A i, j \in 0..m : i <= j => h[i] <= h[j]
  <2> TAKE i, j \in 0..m
  <2> HAVE i <= j
  <2>1. i + 1 <= j + 1 BY <1>3
  <2> QED BY <1>4, <1>5, <1>6, <2>1
<1>10. \A i \in 1..m : /\ r[i] = AnyEnd => h[i] = h[i - 1]
                       /\ r[i] # AnyEnd => h[i] = h[i - 1] + 1 /\ ts[h[i]] = r[i]
  <2> TAKE i \in 1..m
  <2>1. i \in 0..m /\ i - 1 \in 0..m /\ i + 1 \in 1..Len(s) /\ (i + 1) - 1 = i /\ (i - 1) + 1 = i
    BY <1>3, <1>5
  <2>2. h[i] = g[i + 1] /\ h[i - 1] = g[i] /\ r[i] = s[i + 1] BY <1>3, <1>6, <2>1
  <2>3. s[i + 1] = AnyEnd => g[i + 1] = g[i] BY <1>4, <2>1
  <2>4. s[i + 1] # AnyEnd => g[i + 1] = g[i] + 1 /\ ts[g[i + 1]] = s[i + 1] BY <1>4, <2>1
  <2> QED BY <2>2, <2>3, <2>4
<1>11. Keeps(h, r, ts) BY <1>3, <1>6, <1>7, <1>8, <1>9, <1>10 DEF Keeps
<1> QED BY <1>2, <1>11 DEF Sheds, r

LEMMA ShedsPush ==
  ASSUME NEW S, NEW s \in Seq(S), s # <<>>, Head(s) # AnyEnd, NEW ts, Sheds(S, s, ts),
         NEW v \in Seq(S), NEW us, Sheds(S, v, us)
  PROVE  /\ Sheds(S, v \o Tail(s), us \o Tail(ts))
         /\ ts # <<>> /\ Head(ts) = Head(s)
<1> DEFINE r == v \o Tail(s)
           xs == us \o Tail(ts)
           k == Len(v)
           m == Len(s) - 1
           q == Len(us)
<1>1. PICK g : Keeps(g, s, ts) BY DEF Sheds
<1>2. PICK h : Keeps(h, v, us) BY DEF Sheds
<1>3. ts \in Seq(S) /\ Len(ts) \in Nat /\ us \in Seq(S) /\ q \in Nat
  BY DEF Sheds
<1>4. /\ Len(s) \in Nat /\ Len(s) >= 1 /\ Head(s) = s[1] /\ Len(r) = k + m /\ m \in Nat /\ k \in Nat
      /\ \A i \in 1..k : r[i] = v[i]
      /\ \A i \in 1..m : r[k + i] = s[i + 1]
  <2>1. /\ Len(s) \in Nat /\ Len(s) >= 1 /\ Head(s) = s[1] /\ Len(r) = k + Len(s) - 1 /\ k \in Nat
        /\ \A i \in 1..k : r[i] = v[i]
        /\ \A i \in 1..m : r[k + i] = s[i + 1]
    BY PushFacts
  <2> QED BY <2>1
<1>5. /\ g \in [0..Len(s) -> 0..Len(ts)] /\ g[0] = 0 /\ g[Len(s)] = Len(ts)
      /\ \A i, j \in 0..Len(s) : i <= j => g[i] <= g[j]
      /\ \A i \in 1..Len(s) : s[i] = AnyEnd => g[i] = g[i - 1]
      /\ \A i \in 1..Len(s) : s[i] # AnyEnd => g[i] = g[i - 1] + 1 /\ ts[g[i]] = s[i]
  BY <1>1 DEF Keeps
<1>6. /\ h \in [0..k -> 0..q] /\ h[0] = 0 /\ h[k] = q
      /\ \A i, j \in 0..k : i <= j => h[i] <= h[j]
      /\ \A i \in 1..k : v[i] = AnyEnd => h[i] = h[i - 1]
      /\ \A i \in 1..k : v[i] # AnyEnd => h[i] = h[i - 1] + 1 /\ us[h[i]] = v[i]
  BY <1>2 DEF Keeps
<1>7. g[1] = 1 /\ ts[1] = Head(s) /\ Len(ts) >= 1
  <2>1. 1 \in 1..Len(s) /\ 1 \in 0..Len(s) BY <1>4
  <2>2. g[1] = g[0] + 1 /\ ts[g[1]] = s[1] BY <1>4, <1>5, <2>1
  <2>3. g[1] \in 0..Len(ts) BY <1>5, <2>1
  <2> QED BY <1>3, <1>4, <1>5, <2>2, <2>3
<1>8. ts # <<>> /\ Head(ts) = ts[1] BY <1>3, <1>7
<1>9. /\ xs \in Seq(S) /\ Len(xs) = q + Len(ts) - 1
      /\ \A i \in 1..q : xs[i] = us[i]
      /\ \A i \in 1..(Len(ts) - 1) : xs[q + i] = ts[i + 1]
  BY <1>3, <1>8, PushFacts
<1>10. SUFFICES Sheds(S, r, xs) BY <1>7, <1>8
<1> DEFINE l == [i \in 0..(k + m) |-> IF i <= k THEN h[i] ELSE q + g[(i - k) + 1] - 1]
<1> HIDE DEF r, xs, k, m, q
<1>11. \A i \in 1..Len(s) : g[i] \in 1..Len(ts)
  <2> TAKE i \in 1..Len(s)
  <2>1. i \in 0..Len(s) /\ 1 \in 0..Len(s) /\ 1 <= i BY <1>4
  <2>2. g[1] <= g[i] /\ g[i] \in 0..Len(ts) BY <1>5, <2>1
  <2> QED BY <1>3, <1>7, <2>2
<1>12. \A i \in 0..k : l[i] = h[i] /\ l[i] \in 0..q
  <2> TAKE i \in 0..k
  <2>1. i \in 0..(k + m) /\ i <= k BY <1>4
  <2> QED BY <1>6, <2>1
<1>13. \A i \in 0..m : l[k + i] = q + g[i + 1] - 1
  <2> TAKE i \in 0..m
  <2>1. k + i \in 0..(k + m) /\ (k + i) - k = i BY <1>4
  <2>2. CASE i = 0
    <3>1. k + i = k /\ l[k] = h[k] /\ g[i + 1] = 1
      <4>1. k \in 0..k /\ k + 0 = k /\ 0 + 1 = 1 BY <1>4
      <4> QED BY <1>7, <1>12, <2>2, <4>1
    <3> QED BY <1>3, <1>6, <3>1
  <2>3. CASE i # 0
    <3>1. ~(k + i <= k) BY <1>4, <2>3
    <3> QED BY <2>1, <3>1
  <2> QED BY <2>2, <2>3
<1> HIDE DEF l
<1>14. \A i \in 0..m : i + 1 \in 1..Len(s) /\ i + 1 \in 0..Len(s) BY <1>4 DEF m
<1>15. \A i \in 0..(k + m) : i \in 0..k \/ (i - k \in 1..m /\ i = k + (i - k)) BY <1>4
<1>16. \A i \in 0..m : l[k + i] \in q..Len(xs)
  <2> TAKE i \in 0..m
  <2>1. g[i + 1] \in 1..Len(ts) BY <1>11, <1>14
  <2> QED BY <1>3, <1>9, <1>13, <2>1, SMTT(30)
<1>17. l \in [0..Len(r) -> 0..Len(xs)]
  <2>1. \A i \in 0..(k + m) : l[i] \in 0..Len(xs)
    <3> TAKE i \in 0..(k + m)
    <3>1. CASE i \in 0..k BY <1>3, <1>7, <1>9, <1>12, <3>1
    <3>2. CASE i - k \in 1..m /\ i = k + (i - k)
      <4>1. i - k \in 0..m BY <1>4, <3>2
      <4>2. l[k + (i - k)] \in q..Len(xs) BY <1>16, <4>1
      <4> QED BY <1>3, <3>2, <4>2
    <3> QED BY <1>15, <3>1, <3>2
  <2>2. l = [i \in 0..(k + m) |-> l[i]] BY DEF l
  <2> QED BY <1>4, <2>1, <2>2
<1>18. l[0] = 0 /\ l[Len(r)] = Len(xs)
  <2>1. 0 \in 0..k /\ m \in 0..m /\ m + 1 = Len(s) BY <1>4 DEF m
  <2>2. l[0] = 0 BY <1>6, <1>12, <2>1
  <2>3. l[k + m] = q + g[m + 1] - 1 BY <1>13, <2>1
  <2>4. g[m + 1] = Len(ts) BY <1>5, <2>1
  <2>5. l[Len(r)] = q + Len(ts) - 1 BY <1>4, <2>3, <2>4
  <2> QED BY <1>9, <2>2, <2>5
<1>19. \A i, j \in 0..Len(r) : i <= j => l[i] <= l[j]
  <2> SUFFICES ASSUME NEW i \in 0..(k + m), NEW j \in 0..(k + m), i <= j PROVE l[i] <= l[j]
    BY <1>4
  <2>1. CASE i \in 0..k /\ j \in 0..k BY <1>6, <1>12, <2>1
  <2>2. CASE i \in 0..k /\ j - k \in 1..m /\ j = k + (j - k)
    <3>1. j - k \in 0..m BY <1>4, <2>2
    <3>2. l[k + (j - k)] \in q..Len(xs) BY <1>16, <3>1
    <3>3. l[i] \in 0..q BY <1>12, <2>2
    <3> QED BY <1>3, <1>9, <2>2, <3>2, <3>3
  <2>3. CASE ~(i \in 0..k) /\ i - k \in 1..m /\ i = k + (i - k) /\ j - k \in 1..m /\ j = k + (j - k)
    <3> DEFINE a == i - k
               b == j - k
    <3>1. a \in 0..m /\ b \in 0..m /\ a + 1 <= b + 1 /\ i = k + a /\ j = k + b BY <1>4, <2>3
    <3> HIDE DEF a, b
    <3>2. g[a + 1] <= g[b + 1] BY <1>5, <1>14, <3>1
    <3>3. g[a + 1] \in 1..Len(ts) /\ g[b + 1] \in 1..Len(ts) BY <1>11, <1>14, <3>1
    <3>4. l[i] = q + g[a + 1] - 1 /\ l[j] = q + g[b + 1] - 1 BY <1>13, <3>1
    <3> QED BY <1>3, <3>2, <3>3, <3>4
  <2>4. ~(i \in 0..k) => ~(j \in 0..k) BY <1>4
  <2> QED BY <1>15, <2>1, <2>2, <2>3, <2>4
<1>20. \A i \in 1..Len(r) : /\ r[i] = AnyEnd => l[i] = l[i - 1]
                            /\ r[i] # AnyEnd => l[i] = l[i - 1] + 1 /\ xs[l[i]] = r[i]
  <2> SUFFICES ASSUME NEW i \in 1..(k + m)
               PROVE  /\ r[i] = AnyEnd => l[i] = l[i - 1]
                      /\ r[i] # AnyEnd => l[i] = l[i - 1] + 1 /\ xs[l[i]] = r[i]
    BY <1>4
  <2>1. CASE i \in 0..k
    <3>1. i \in 1..k /\ i - 1 \in 0..k BY <1>4, <2>1
    <3>2. r[i] = v[i] /\ l[i] = h[i] /\ l[i - 1] = h[i - 1] BY <1>4, <1>12, <2>1, <3>1
    <3>3. r[i] = AnyEnd => l[i] = l[i - 1] BY <1>6, <3>1, <3>2
    <3>4. ASSUME r[i] # AnyEnd PROVE l[i] = l[i - 1] + 1 /\ xs[l[i]] = r[i]
      <4>1. h[i] = h[i - 1] + 1 /\ us[h[i]] = v[i] BY <1>6, <3>1, <3>2, <3>4
      <4>2. h[i - 1] \in 0..q /\ h[i] \in 0..q BY <1>6, <2>1, <3>1
      <4>3. h[i] \in 1..q BY <1>3, <4>1, <4>2
      <4>4. xs[h[i]] = us[h[i]] BY <1>9, <4>3
      <4> QED BY <3>2, <4>1, <4>4
    <3> QED BY <3>3, <3>4
  <2>2. CASE i - k \in 1..m /\ i = k + (i - k)
    <3> DEFINE a == i - k
    <3>1. a \in 0..m /\ a \in 1..m /\ a - 1 \in 0..m /\ i = k + a /\ i - 1 = k + (a - 1) /\ (a - 1) + 1 = a
      BY <1>4, <2>2
    <3> HIDE DEF a
    <3>2. r[i] = s[a + 1] /\ l[i] = q + g[a + 1] - 1 /\ l[i - 1] = q + g[a] - 1
      BY <1>4, <1>13, <3>1
    <3>3. a + 1 \in 1..Len(s) /\ a \in 1..Len(s) /\ (a + 1) - 1 = a
      <4>1. (a - 1) + 1 \in 1..Len(s) BY <1>14, <3>1
      <4> QED BY <1>4, <1>14, <3>1, <4>1
    <3>4. g[a] \in 1..Len(ts) /\ g[a + 1] \in 1..Len(ts) BY <1>11, <3>3
    <3>5. r[i] = AnyEnd => l[i] = l[i - 1]
      <4>1. s[a + 1] = AnyEnd => g[a + 1] = g[a] BY <1>5, <3>3
      <4> QED BY <3>2, <4>1
    <3>6. ASSUME r[i] # AnyEnd PROVE l[i] = l[i - 1] + 1 /\ xs[l[i]] = r[i]
      <4>1. g[a + 1] = g[a] + 1 /\ ts[g[a + 1]] = s[a + 1] BY <1>5, <3>2, <3>3, <3>6
      <4> DEFINE b == g[a + 1] - 1
      <4>2. b \in 1..(Len(ts) - 1) /\ b + 1 = g[a + 1] /\ q + b = q + g[a + 1] - 1 BY <1>3, <3>4, <4>1
      <4> HIDE DEF b
      <4>3. xs[q + b] = ts[b + 1] BY <1>9, <4>2
      <4>4. l[i] = l[i - 1] + 1 BY <1>3, <3>2, <3>4, <4>1, SMTT(30)
      <4> QED BY <3>2, <4>1, <4>2, <4>3, <4>4
    <3> QED BY <3>5, <3>6
  <2>3. i \in 0..(k + m) BY <1>4
  <2> QED BY <1>15, <2>1, <2>2, <2>3
<1>21. Keeps(l, r, xs) BY <1>17, <1>18, <1>19, <1>20 DEF Keeps
<1> QED BY <1>9, <1>21 DEF Sheds
-----------------------------------------------------------------------------
(* What the encoder writes for a value of type t at address a, and the     *)
(* values that it leads on to.                                             *)

WritesTuple(w, t, a, u, kids) ==
  /\ w.memory[a].len \in Nat /\ Len(u) >= 1 /\ u[1] = w.memory[a].len
  /\ IsScalar(Types[t].elem) =>
       /\ kids = <<>> /\ Len(u) = 1 + w.memory[a].len
       /\ \A i \in 1..w.memory[a].len : u[1 + i] = w.memory[At(w.memory[a].data, i - 1)]
  /\ ~IsScalar(Types[t].elem) => Len(u) = 1 /\ kids = Elements(t, w.memory[a].data, w.memory[a].len)

WritesArray(w, t, a, u, kids) ==
  /\ IsScalar(Types[t].elem) =>
       /\ kids = <<>> /\ Len(u) = Types[t].size
       /\ \A i \in 1..Types[t].size : u[i] = w.memory[At(a, i - 1)]
  /\ ~IsScalar(Types[t].elem) => Len(u) = 0 /\ kids = Elements(t, a, Types[t].size)

WritesPtr(w, t, a, u, kids) ==
  \/ w.memory[a] = Nil /\ Len(u) = 1 /\ u[1] = PtrNil /\ kids = <<>>
  \/ w.memory[a] # Nil /\ Len(u) = 2 /\ u[1] = PtrIndex /\ kids = <<>>
  \/ /\ w.memory[a] # Nil /\ Len(u) = 1 /\ u[1] = PtrInline
     /\ kids = <<Value(Types[t].elem, w.memory[a], TRUE)>>

WritesAny(w, a, u, kids) ==
  /\ w.memory[a].type \in DOMAIN Hashes /\ Len(u) = 1 + HashSize /\ u[1] = HashSize
  /\ \A i \in 1..HashSize : u[1 + i] = Hashes[w.memory[a].type][i]
  /\ kids = <<Value(w.memory[a].type, w.memory[a].data, TRUE)>>

WritesUnion(w, t, a, u, kids) ==
  \E i \in Choices(t, w.memory[a].type), keep \in BOOLEAN :
    /\ Len(u) = 1 /\ u[1] = i - 1
    /\ kids = <<Value(w.memory[a].type, w.memory[a].data, keep)>>

Writes(w, t, a, u, kids) ==
  /\ Types[t].kind \notin {"dict", "iface"}
  /\ Types[t].kind = "scalar" => Len(u) = 1 /\ u[1] = w.memory[a] /\ kids = <<>>
  /\ Types[t].kind \in {"string", "tuple"} => WritesTuple(w, t, a, u, kids)
  /\ Types[t].kind = "array" => WritesArray(w, t, a, u, kids)
  /\ Types[t].kind = "struct" => Len(u) = 0 /\ kids = Fields(t, a)
  /\ Types[t].kind = "ptr" => WritesPtr(w, t, a, u, kids)
  /\ Types[t].kind = "any" => WritesAny(w, a, u, kids)
  /\ Types[t].kind = "union" => WritesUnion(w, t, a, u, kids)

\* What may be remembered is referred to.
Keepers(values) ==
  \A i \in DOMAIN values : values[i].keep => <<values[i].type, values[i].addr>> \in Referred(world)

\* An index is the count of what the pointer leads to.
Indexing(v, units) ==
  Types[v.type].kind = "ptr" /\ units[1] = PtrIndex =>
    Seen(v, world.memory[v.addr]) /\ units[2] = CountOf(v, world.memory[v.addr])

Puts(n, units, values, kids) ==
  /\ Good(n, units, values) /\ Sheds(Item(world), values, kids)
  /\ Writes(world, Head(encoder.stack).type, Head(encoder.stack).addr, units, kids)
  /\ Keepers(values) /\ Indexing(Head(encoder.stack), units)
  /\ Types[Head(encoder.stack).type].kind = "scalar" => values = <<>>

Putting == \E n, units, values, kids : Puts(n, units, values, kids)

LEMMA NoneShed ==
  /\ <<>> \in Seq(Item(world)) /\ Sheds(Item(world), <<>>, <<>>) /\ Keepers(<<>>)
<1> DEFINE none == <<>>
<1>1. none \in Seq(Item(world)) BY NoValues
<1>2. Sheds(Item(world), none, none) BY ShedsEmpty
<1>3. DOMAIN none = {} OBVIOUS
<1> HIDE DEF none
<1>4. Keepers(none) BY <1>3 DEF Keepers
<1> QED BY <1>1, <1>2, <1>4 DEF none

LEMMA ElementsShed ==
  ASSUME NEW t \in DOMAIN Types, Types[t].elem \in DOMAIN Types, NEW a, NEW n \in Nat,
         Elements(t, a, n) \in Seq(Item(world))
  PROVE  Sheds(Item(world), Elements(t, a, n), Elements(t, a, n)) /\ Keepers(Elements(t, a, n))
<1> DEFINE e == Types[t].elem
           at(i) == At(a, (i - 1) * Types[e].size)
           s == [i \in 1..n |-> Value(e, at(i), FALSE)]
<1>1. Elements(t, a, n) = s BY DEF Elements
<1>2. e \in DOMAIN Types /\ s \in Seq(Item(world)) BY <1>1
<1> HIDE DEF e, at
<1>3. Len(s) = n /\ DOMAIN s = 1..n /\ \A i \in 1..n : s[i] = Value(e, at(i), FALSE) OBVIOUS
<1> HIDE DEF s
<1>4. \A i \in 1..n : s[i] # AnyEnd /\ s[i] = s[i]
  <2> TAKE i \in 1..n
  <2>1. s[i] = Value(e, at(i), FALSE) BY <1>3
  <2> QED BY <1>2, <2>1, ValueFacts
<1>5. Sheds(Item(world), s, s) BY <1>2, <1>3, <1>4, ShedsMade
<1>6. \A i \in 1..n : s[i].keep = FALSE BY <1>3 DEF Value
<1>7. Keepers(s) BY <1>3, <1>6 DEF Keepers
<1> QED BY <1>1, <1>5, <1>7

LEMMA FieldsShed ==
  ASSUME NEW t \in DOMAIN Types, Types[t].kind = "struct", NEW a, Fields(t, a) \in Seq(Item(world))
  PROVE  Sheds(Item(world), Fields(t, a), Fields(t, a)) /\ Keepers(Fields(t, a))
<1> DEFINE ts == Types[t].fields
           at(i) == At(a, Types[t].offsets[i])
           s == [i \in DOMAIN ts |-> Value(ts[i], at(i), FALSE)]
<1>1. Fields(t, a) = s BY DEF Fields
<1>2. ts \in Seq(DOMAIN Types) /\ s \in Seq(Item(world)) BY <1>1, TypeFacts
<1> HIDE DEF ts, at
<1> DEFINE n == Len(ts)
<1>3. DOMAIN ts = 1..n /\ n \in Nat /\ \A i \in 1..n : ts[i] \in DOMAIN Types BY <1>2
<1> HIDE DEF n
<1>4. Len(s) = n /\ DOMAIN s = 1..n /\ \A i \in 1..n : s[i] = Value(ts[i], at(i), FALSE) BY <1>3
<1> HIDE DEF s
<1>5. \A i \in 1..n : s[i] # AnyEnd /\ s[i] = s[i]
  <2> TAKE i \in 1..n
  <2>1. s[i] = Value(ts[i], at(i), FALSE) /\ ts[i] \in DOMAIN Types BY <1>3, <1>4
  <2> QED BY <2>1, ValueFacts
<1>6. Sheds(Item(world), s, s) BY <1>2, <1>3, <1>4, <1>5, ShedsMade
<1>7. \A i \in 1..n : s[i].keep = FALSE BY <1>4 DEF Value
<1>8. Keepers(s) BY <1>4, <1>7 DEF Keepers
<1> QED BY <1>1, <1>6, <1>8

\* One value that the value at address a refers to, and the same before the end
\* of an any value.
LEMMA OneShed ==
  ASSUME world \in Worlds, NEW t \in DOMAIN Types, NEW a, NEW keep \in BOOLEAN, <<t, a>> \in Referred(world),
         <<t, a>> \in Places(world)
  PROVE  LET v == Value(t, a, keep)
         IN  /\ <<v>> \in Seq(Item(world)) /\ <<v, AnyEnd>> \in Seq(Item(world))
             /\ Sheds(Item(world), <<v>>, <<v>>) /\ Sheds(Item(world), <<v, AnyEnd>>, <<v>>)
             /\ Keepers(<<v>>) /\ Keepers(<<v, AnyEnd>>)
<1> DEFINE v == Value(t, a, keep)
           s == <<v>>
           r == <<v, AnyEnd>>
<1>1. v \in Item(world) BY PlacedItem
<1>2. v # AnyEnd BY ValueFacts
<1>3. v.type = t /\ v.addr = a BY DEF Value
<1>4. AnyEnd \in Item(world) BY DEF Item
<1>5. AnyEnd.keep = FALSE BY DEF AnyEnd, Value
<1> HIDE DEF v
<1>6. s \in Seq(Item(world)) /\ r \in Seq(Item(world)) BY <1>1, <1>4
<1>7. Sheds(Item(world), s, s) /\ Sheds(Item(world), r, s) BY <1>1, <1>2, ShedsOne
<1>8. DOMAIN s = {1} /\ DOMAIN r = {1, 2} /\ s[1] = v /\ r[1] = v /\ r[2] = AnyEnd OBVIOUS
<1> HIDE DEF s, r
<1>9. Keepers(s) /\ Keepers(r) BY <1>3, <1>5, <1>8 DEF Keepers
<1> QED BY <1>6, <1>7, <1>9 DEF s, r, v

\* What a value refers to is referred to.
LEMMA Referring ==
  ASSUME NEW w, NEW v \in Item(w), v # AnyEnd, NEW p \in Refers(w, v.type, v.addr)
  PROVE  p \in Referred(w)
<1>1. PICK q \in Places(w), k \in BOOLEAN : v = Value(q[1], q[2], k) BY DEF Item
<1>2. v.type = q[1] /\ v.addr = q[2] BY <1>1 DEF Value
<1>3. p \in Refers(w, q[1], q[2]) BY <1>2
<1>4. p \in UNION {Refers(w, r[1], r[2]) : r \in Places(w)} BY <1>3
<1> QED BY <1>4 DEF Referred
LEMMA EncodeScalarPuts ==
  ASSUME world \in Worlds, EncoderInv(world, encoder), EncodeScalar
  PROVE  Putting
<1> DEFINE v == Head(encoder.stack)
           x == world.memory[v.addr]
           units == <<x>>
           none == <<>>
<1>1. Encoding({"scalar"}) BY DEF EncodeScalar
<1>2. v.type \in DOMAIN Types /\ Types[v.type].kind = "scalar" /\ Represents(world, v.type, v.addr)
  BY <1>1, EncodingTop
<1>3. x \in Nat BY <1>2 DEF Represents
<1>4. Encodes(1, units, none) BY DEF EncodeScalar
<1>5. Len(units) = 1 /\ units[1] = x /\ units \in Seq(Nat) BY <1>3
<1>6. none \in Seq(Item(world)) /\ Sheds(Item(world), none, none) /\ Keepers(none) BY NoneShed
<1>7. none = <<>> OBVIOUS
<1> HIDE DEF units, none
<1>8. Writes(world, v.type, v.addr, units, none) BY <1>2, <1>5, <1>7 DEF Writes
<1>9. Indexing(v, units) BY <1>2 DEF Indexing
<1>10. Good(1, units, none) BY <1>4, <1>5, <1>6 DEF Good, Wellformed
<1> QED BY <1>2, <1>6, <1>7, <1>8, <1>9, <1>10 DEF Puts, Putting

LEMMA EncodeTuplePuts ==
  ASSUME world \in Worlds, EncoderInv(world, encoder), EncodeTuple
  PROVE  Putting
<1> DEFINE v == Head(encoder.stack)
           t == v.type
           ref == world.memory[v.addr]
           len == ref.len
           one == <<len>>
           copy == [i \in 1..len |-> world.memory[At(ref.data, i - 1)]]
           none == <<>>
           inner == Elements(t, ref.data, len)
<1>1. Encoding({"string", "tuple"}) BY DEF EncodeTuple
<1>2. t \in DOMAIN Types /\ Types[t].kind \in {"string", "tuple"} /\ Represents(world, t, v.addr)
  BY <1>1, EncodingTop
<1>3. len \in Nat BY <1>2 DEF Represents
<1>4. one \in Seq(Nat) /\ Len(one) = 1 /\ Len(one) >= 1 /\ one[1] = len BY <1>3
<1>5. CASE IsScalar(Types[t].elem)
  <2>1. Scalars(world, ref.data, len) BY <1>2, <1>5 DEF Represents
  <2>2. copy \in Seq(Nat) /\ Len(copy) = len
    <3> DEFINE b == ref.data
    <3>1. Scalars(world, b, len) /\ copy = [i \in 1..len |-> world.memory[At(b, i - 1)]] BY <2>1
    <3> HIDE DEF b, len, copy
    <3> QED BY <1>3, <3>1, ScalarsType
  <2>3. \A i \in 1..len : copy[i] = world.memory[At(ref.data, i - 1)] OBVIOUS
  <2> DEFINE units == one \o copy
  <2>4. Encodes(1, units, none) BY <1>5 DEF EncodeTuple
  <2>5. none \in Seq(Item(world)) /\ Sheds(Item(world), none, none) /\ Keepers(none) BY NoneShed
  <2>6. none = <<>> OBVIOUS
  <2> HIDE DEF one, copy, none
  <2>7. /\ units \in Seq(Nat) /\ Len(units) = 1 + len /\ Len(units) >= 1 /\ units[1] = len
        /\ \A i \in 1..len : units[1 + i] = copy[i]
    <3> HIDE DEF len
    <3>1. /\ one \o copy \in Seq(Nat) /\ Len(one \o copy) = Len(one) + Len(copy)
          /\ \A i \in 1..Len(one) : (one \o copy)[i] = one[i]
          /\ \A i \in 1..Len(copy) : (one \o copy)[Len(one) + i] = copy[i]
      <4>1. one \in Seq(Nat) /\ copy \in Seq(Nat) BY <1>4, <2>2
      <4> QED BY <4>1, JoinFacts
    <3>2. 1 \in 1..Len(one) BY <1>4
    <3>3. (one \o copy)[1] = len BY <1>4, <3>1, <3>2
    <3>4. Len(one \o copy) = 1 + len BY <1>4, <2>2, <3>1
    <3>5. 1 + len >= 1 BY <1>3
    <3>6. \A i \in 1..len : (one \o copy)[1 + i] = copy[i] BY <1>4, <2>2, <3>1
    <3> QED BY <3>1, <3>3, <3>4, <3>5, <3>6
  <2> HIDE DEF units
  <2>8. \A i \in 1..len : units[1 + i] = world.memory[At(ref.data, i - 1)]
    <3> HIDE DEF len
    <3> QED BY <2>3, <2>7
  <2>9. WritesTuple(world, t, v.addr, units, none) BY <1>3, <1>5, <2>6, <2>7, <2>8 DEF WritesTuple
  <2>10. Writes(world, t, v.addr, units, none) BY <1>2, <2>9 DEF Writes
  <2>11. Indexing(v, units) BY <1>2 DEF Indexing
  <2>12. Good(1, units, none) BY <2>4, <2>5, <2>7 DEF Good, Wellformed
  <2> QED BY <1>2, <2>5, <2>10, <2>11, <2>12 DEF Puts, Putting
<1>6. CASE ~IsScalar(Types[t].elem)
  <2>1. InPlace(world, inner) BY <1>2, <1>6 DEF Represents
  <2>2. inner \in Seq(Item(world)) BY <2>1, <1>2, <1>3, ElementsPlaced
  <2>3. Encodes(1, one, inner) BY <1>6 DEF EncodeTuple
  <2>4. Types[t].elem \in DOMAIN Types BY <1>2, TypeFacts
  <2>5. Sheds(Item(world), inner, inner) /\ Keepers(inner) BY <1>2, <1>3, <2>2, <2>4, ElementsShed
  <2> HIDE DEF one
  <2>6. WritesTuple(world, t, v.addr, one, inner) BY <1>3, <1>4, <1>6 DEF WritesTuple
  <2> HIDE DEF inner
  <2>7. Writes(world, t, v.addr, one, inner) BY <1>2, <2>6 DEF Writes
  <2>8. Indexing(v, one) BY <1>2 DEF Indexing
  <2>9. Good(1, one, inner) BY <1>4, <2>2, <2>3 DEF Good, Wellformed
  <2> QED BY <1>2, <2>5, <2>7, <2>8, <2>9 DEF Puts, Putting
<1> QED BY <1>5, <1>6

LEMMA EncodeArrayPuts ==
  ASSUME world \in Worlds, EncoderInv(world, encoder), EncodeArray
  PROVE  Putting
<1> DEFINE v == Head(encoder.stack)
           t == v.type
           size == Types[t].size
           copy == [i \in 1..size |-> world.memory[At(v.addr, i - 1)]]
           none == <<>>
           inner == Elements(t, v.addr, size)
<1>1. Encoding({"array"}) BY DEF EncodeArray
<1>2. t \in DOMAIN Types /\ Types[t].kind = "array" /\ Represents(world, t, v.addr)
  BY <1>1, EncodingTop
<1>3. size \in Nat BY <1>2, TypeFacts
<1>4. none \in Seq(Nat) /\ Len(none) = 0 /\ none = <<>> OBVIOUS
<1>5. CASE IsScalar(Types[t].elem)
  <2>1. Scalars(world, v.addr, size) BY <1>2, <1>5 DEF Represents
  <2>2. copy \in Seq(Nat) /\ Len(copy) = size BY <2>1, <1>3, ScalarsType
  <2>3. \A i \in 1..size : copy[i] = world.memory[At(v.addr, i - 1)] OBVIOUS
  <2>4. Encodes(1, copy, none) BY <1>5 DEF EncodeArray
  <2>5. none \in Seq(Item(world)) /\ Sheds(Item(world), none, none) /\ Keepers(none) BY NoneShed
  <2> HIDE DEF copy, none
  <2>6. WritesArray(world, t, v.addr, copy, none) BY <1>4, <1>5, <2>2, <2>3 DEF WritesArray
  <2>7. Writes(world, t, v.addr, copy, none) BY <1>2, <2>6 DEF Writes
  <2>8. Indexing(v, copy) BY <1>2 DEF Indexing
  <2>9. Good(1, copy, none) BY <2>2, <2>4, <2>5 DEF Good, Wellformed
  <2> QED BY <1>2, <2>5, <2>7, <2>8, <2>9 DEF Puts, Putting
<1>6. CASE ~IsScalar(Types[t].elem)
  <2>1. InPlace(world, inner) BY <1>2, <1>6 DEF Represents
  <2>2. inner \in Seq(Item(world)) BY <2>1, <1>2, <1>3, ElementsPlaced
  <2>3. Encodes(1, none, inner) BY <1>6 DEF EncodeArray
  <2>4. Types[t].elem \in DOMAIN Types BY <1>2, TypeFacts
  <2>5. Sheds(Item(world), inner, inner) /\ Keepers(inner) BY <1>2, <1>3, <2>2, <2>4, ElementsShed
  <2> HIDE DEF none
  <2>6. WritesArray(world, t, v.addr, none, inner) BY <1>4, <1>6 DEF WritesArray
  <2> HIDE DEF inner
  <2>7. Writes(world, t, v.addr, none, inner) BY <1>2, <2>6 DEF Writes
  <2>8. Indexing(v, none) BY <1>2 DEF Indexing
  <2>9. Good(1, none, inner) BY <1>4, <2>2, <2>3 DEF Good, Wellformed
  <2> QED BY <1>2, <2>5, <2>7, <2>8, <2>9 DEF Puts, Putting
<1> QED BY <1>5, <1>6

LEMMA EncodeStructPuts ==
  ASSUME world \in Worlds, EncoderInv(world, encoder), EncodeStruct
  PROVE  Putting
<1> DEFINE v == Head(encoder.stack)
           t == v.type
           none == <<>>
           inner == Fields(t, v.addr)
<1>1. Encoding({"struct"}) BY DEF EncodeStruct
<1>2. t \in DOMAIN Types /\ Types[t].kind = "struct" /\ Represents(world, t, v.addr)
  BY <1>1, EncodingTop
<1>3. none \in Seq(Nat) /\ Len(none) = 0 OBVIOUS
<1>4. InPlace(world, inner) BY <1>2 DEF Represents
<1>5. inner \in Seq(Item(world)) BY <1>2, <1>4, FieldsPlaced
<1>6. Encodes(1, none, inner) BY DEF EncodeStruct
<1>7. Sheds(Item(world), inner, inner) /\ Keepers(inner) BY <1>2, <1>5, FieldsShed
<1> HIDE DEF none
<1>8. Writes(world, t, v.addr, none, inner) BY <1>2, <1>3 DEF Writes
<1>9. Indexing(v, none) BY <1>2 DEF Indexing
<1> HIDE DEF inner
<1>10. Good(1, none, inner) BY <1>3, <1>5, <1>6 DEF Good, Wellformed
<1> QED BY <1>2, <1>7, <1>8, <1>9, <1>10 DEF Puts, Putting

LEMMA EncodePtrPuts ==
  ASSUME world \in Worlds, EncoderInv(world, encoder), EncodePtr
  PROVE  Putting
<1> DEFINE v == Head(encoder.stack)
           t == v.type
           target == world.memory[v.addr]
           elem == Types[t].elem
           none == <<>>
<1>1. Encoding({"ptr"}) BY DEF EncodePtr
<1>2. v \in Item(world) /\ v # AnyEnd /\ t \in DOMAIN Types /\ Types[t].kind = "ptr" /\ Represents(world, t, v.addr)
  BY <1>1, EncodingTop
<1>3. target = Nil \/ <<elem, target>> \in Places(world) BY <1>2 DEF Represents
<1>4. none \in Seq(Item(world)) /\ Sheds(Item(world), none, none) /\ Keepers(none) BY NoneShed
<1>5. elem \in DOMAIN Types BY <1>2, TypeFacts
<1>6. none = <<>> /\ PtrIndex # PtrNil /\ PtrIndex # PtrInline BY DEF PtrIndex, PtrNil, PtrInline
<1>7. CASE target = Nil /\ Encodes(2, <<PtrNil>>, <<>>)
  <2> DEFINE units == <<PtrNil>>
  <2>1. units \in Seq(Nat) /\ Len(units) = 1 /\ units[1] = PtrNil BY DEF PtrNil
  <2>2. Encodes(2, units, none) BY <1>7
  <2> HIDE DEF units, none
  <2>3. WritesPtr(world, t, v.addr, units, none) BY <1>6, <1>7, <2>1 DEF WritesPtr
  <2>4. Writes(world, t, v.addr, units, none) BY <1>2, <2>3 DEF Writes
  <2>5. Indexing(v, units) BY <1>6, <2>1 DEF Indexing
  <2>6. Good(2, units, none) BY <1>4, <2>1, <2>2 DEF Good, Wellformed
  <2> QED BY <1>2, <1>4, <2>4, <2>5, <2>6 DEF Puts, Putting
<1>8. CASE target # Nil /\ Seen(v, target) /\ Encodes(2, <<PtrIndex, CountOf(v, target)>>, <<>>)
  <2> DEFINE count == CountOf(v, target)
             units == <<PtrIndex, count>>
  <2>1. count \in Nat
    <3>1. 1 \in Nat \ {0} OBVIOUS
    <3>2. \A a \in DOMAIN Remembered(v) : Remembered(v)[a] \in Nat
      <4> HIDE DEF v
      <4> QED BY <1>2, <3>1, RememberedFacts
    <3> QED BY <1>8, <3>2 DEF Seen, CountOf
  <2>2. Encodes(2, units, none) BY <1>8
  <2> HIDE DEF count
  <2>3. units \in Seq(Nat) /\ Len(units) = 2 /\ units[1] = PtrIndex /\ units[2] = count BY <2>1 DEF PtrIndex
  <2> HIDE DEF units, none
  <2>4. WritesPtr(world, t, v.addr, units, none) BY <1>6, <1>8, <2>3 DEF WritesPtr
  <2>5. Writes(world, t, v.addr, units, none) BY <1>2, <2>4 DEF Writes
  <2>6. Indexing(v, units) BY <1>8, <2>3 DEF Indexing, count
  <2>7. Good(2, units, none) BY <1>4, <2>2, <2>3 DEF Good, Wellformed
  <2> QED BY <1>2, <1>4, <2>5, <2>6, <2>7 DEF Puts, Putting
<1>9. CASE target # Nil /\ Encodes(2, <<PtrInline>>, <<Value(elem, target, TRUE)>>)
  <2> DEFINE units == <<PtrInline>>
             inner == Value(elem, target, TRUE)
             values == <<inner>>
  <2>1. units \in Seq(Nat) /\ Len(units) = 1 /\ units[1] = PtrInline BY DEF PtrInline
  <2>2. Encodes(2, units, values) BY <1>9
  <2>3. <<elem, target>> \in Refers(world, t, v.addr) BY <1>2, <1>3, <1>9 DEF Refers
  <2>4. <<elem, target>> \in Referred(world)
    <3> HIDE DEF v, elem, target
    <3> QED BY <1>2, <2>3, Referring
  <2>5. /\ values \in Seq(Item(world)) /\ Sheds(Item(world), values, values) /\ Keepers(values)
    <3> HIDE DEF v, elem, target
    <3> QED BY <1>3, <1>5, <1>9, <2>4, OneShed
  <2> HIDE DEF units
  <2>6. WritesPtr(world, t, v.addr, units, values) BY <1>9, <2>1 DEF WritesPtr
  <2> HIDE DEF inner, values
  <2>7. Writes(world, t, v.addr, units, values) BY <1>2, <2>6 DEF Writes
  <2>8. Indexing(v, units) BY <1>6, <2>1 DEF Indexing
  <2>9. Good(2, units, values) BY <2>1, <2>2, <2>5 DEF Good, Wellformed
  <2> QED BY <1>2, <2>5, <2>7, <2>8, <2>9 DEF Puts, Putting
<1> QED BY <1>7, <1>8, <1>9 DEF EncodePtr

LEMMA EncodeAnyPuts ==
  ASSUME world \in Worlds, EncoderInv(world, encoder), EncodeAny,
         encoded \in Seq(History(world)), AllWritten(encoded')
  PROVE  Putting
<1> DEFINE v == Head(encoder.stack)
           t == v.type
           held == world.memory[v.addr]
           s == held.type
           inner == Value(s, held.data, TRUE)
           none == <<>>
<1>1. Encoding({"any"}) BY DEF EncodeAny
<1>2. v \in Item(world) /\ v # AnyEnd /\ t \in DOMAIN Types /\ Types[t].kind = "any" /\ Represents(world, t, v.addr)
  BY <1>1, EncodingTop
<1>3. CASE s \in DOMAIN Hashes
  <2> DEFINE units == <<HashSize>> \o Hashes[s]
             values == <<inner, AnyEnd>>
             kids == <<inner>>
             one == <<HashSize>>
             h == Hashes[s]
  <2>1. <<s, held.data>> \in Places(world) BY <1>2, <1>3 DEF Represents
  <2>2. <<s, held.data>> \in Refers(world, t, v.addr) BY <1>2, <2>1 DEF Refers
  <2>3. s \in DOMAIN Types /\ HashSize \in Nat /\ h \in Seq(Nat) /\ Len(h) = HashSize BY <1>3, HashFacts
  <2>4. <<s, held.data>> \in Referred(world)
    <3> HIDE DEF v, s, held
    <3> QED BY <1>2, <2>2, Referring
  <2>5. /\ values \in Seq(Item(world)) /\ Sheds(Item(world), values, kids) /\ Keepers(values)
    <3> HIDE DEF v, s, held
    <3> QED BY <2>1, <2>3, <2>4, OneShed
  <2>6. Encodes(2, units, values) BY <1>3 DEF EncodeAny
  <2>7. one \in Seq(Nat) /\ Len(one) = 1 /\ one[1] = HashSize BY <2>3
  <2> HIDE DEF one
  <2>8. /\ units \in Seq(Nat) /\ Len(units) = 1 + HashSize
        /\ units[1] = HashSize /\ \A i \in 1..HashSize : units[1 + i] = h[i]
    <3>0. units = one \o h BY DEF one
    <3> HIDE DEF h, units
    <3>1. /\ one \o h \in Seq(Nat) /\ Len(one \o h) = Len(one) + Len(h)
          /\ \A i \in 1..Len(one) : (one \o h)[i] = one[i]
          /\ \A i \in 1..Len(h) : (one \o h)[Len(one) + i] = h[i]
      <4>1. one \in Seq(Nat) /\ h \in Seq(Nat) BY <2>3, <2>7
      <4> QED BY <4>1, JoinFacts
    <3>2. 1 \in 1..Len(one) BY <2>7
    <3>3. (one \o h)[1] = HashSize BY <2>7, <3>1, <3>2
    <3>4. \A i \in 1..HashSize : (one \o h)[1 + i] = h[i] BY <2>3, <2>7, <3>1
    <3>5. Len(one \o h) = 1 + HashSize BY <2>3, <2>7, <3>1
    <3> QED BY <3>0, <3>1, <3>3, <3>4, <3>5
  <2> HIDE DEF units
  <2>9. WritesAny(world, v.addr, units, kids) BY <1>3, <2>8 DEF WritesAny
  <2> HIDE DEF inner, values, kids
  <2>10. Writes(world, t, v.addr, units, kids) BY <1>2, <2>9 DEF Writes
  <2>11. Indexing(v, units) BY <1>2 DEF Indexing
  <2>12. Good(2, units, values) BY <2>5, <2>6, <2>8 DEF Good, Wellformed
  <2> QED BY <1>2, <2>5, <2>10, <2>11, <2>12 DEF Puts, Putting
<1>4. CASE s \notin DOMAIN Hashes
  <2>1. Encodes(1, none, none) BY <1>4 DEF EncodeAny
  <2>2. none \in Seq(Nat) /\ none = <<>> OBVIOUS
  <2> HIDE DEF none
  <2> QED BY <1>1, <1>2, <2>1, <2>2, EncodesRecorded
<1> QED BY <1>3, <1>4

LEMMA EncodeUnionPuts ==
  ASSUME world \in Worlds, EncoderInv(world, encoder), EncodeUnion
  PROVE  Putting
<1> DEFINE v == Head(encoder.stack)
           t == v.type
           held == world.memory[v.addr]
           s == held.type
           inner == Value(s, held.data, v.keep)
           fields == Types[t].fields
<1>1. Encoding({"union"}) BY DEF EncodeUnion
<1>2. v \in Item(world) /\ v # AnyEnd /\ t \in DOMAIN Types /\ Types[t].kind = "union"
      /\ Represents(world, t, v.addr) /\ v.keep \in BOOLEAN
  BY <1>1, EncodingTop
<1>3. PICK i \in Choices(t, s) : Encodes(2, <<i - 1>>, <<inner>>)
  BY DEF EncodeUnion
<1> DEFINE units == <<i - 1>>
           values == <<inner>>
<1>4. <<s, held.data>> \in Places(world) BY <1>2, <1>3 DEF Represents
<1>5. <<s, held.data>> \in Refers(world, t, v.addr) BY <1>2, <1>4 DEF Refers
<1>6. fields \in Seq(DOMAIN Types) BY <1>2, TypeFacts
<1>7. i \in DOMAIN fields /\ fields[i] = s BY DEF Choices
<1>8. s \in DOMAIN Types /\ i - 1 \in Nat
  <2> HIDE DEF fields, s
  <2> QED BY <1>6, <1>7
<1>9. <<s, held.data>> \in Referred(world)
  <2> HIDE DEF v, s, held
  <2> QED BY <1>2, <1>5, Referring
<1>10. values \in Seq(Item(world)) /\ Sheds(Item(world), values, values) /\ Keepers(values)
  <2> DEFINE keep == v.keep
  <2>1. keep \in BOOLEAN BY <1>2
  <2> HIDE DEF keep, s, held
  <2> QED BY <1>4, <1>8, <1>9, <2>1, OneShed DEF keep
<1>11. Encodes(2, units, values) BY <1>3
<1>12. units \in Seq(Nat) /\ Len(units) = 1 /\ units[1] = i - 1 BY <1>8
<1> HIDE DEF units
<1>13. WritesUnion(world, t, v.addr, units, values) BY <1>2, <1>3, <1>12 DEF WritesUnion
<1> HIDE DEF values, inner
<1>14. Writes(world, t, v.addr, units, values) BY <1>2, <1>13 DEF Writes
<1>15. Indexing(v, units) BY <1>2 DEF Indexing
<1>16. Good(2, units, values) BY <1>10, <1>11, <1>12 DEF Good, Wellformed
<1> QED BY <1>2, <1>10, <1>14, <1>15, <1>16 DEF Puts, Putting
\* Every step of the encoder, once nothing was given up.
LEMMA PutForm ==
  ASSUME world \in Worlds, EncoderInv(world, encoder), encoded \in Seq(History(world)), Encode
  PROVE  /\ encoded' \in Seq(History(world))
         /\ Complete' => /\ Complete /\ encoder.ok
                         /\ EncodeStart \/ EncodeAnyEnd \/ EncodeEnd \/ (Putting /\ Encoding(Kinds))
<1>1. /\ encoded' \in Seq(History(world))
      /\ AllWritten(encoded') => AllWritten(encoded)
  BY EncodeForm
<1>2. encoder \in EncoderType(world) BY DEF EncoderInv
<1>3. ASSUME Complete'
      PROVE  EncodeStart \/ EncodeAnyEnd \/ EncodeEnd \/ (Putting /\ Encoding(Kinds))
  <2>1. AllWritten(encoded') BY <1>3 DEF Complete, AllWritten, Written
  <2>2. ~EncodeFail BY <2>1, EncodeFailRecorded
  <2>3. CASE EncodeScalar
    <3>1. Encoding(Kinds) BY <2>3 DEF EncodeScalar, Encoding, Kinds
    <3> QED BY <2>3, <3>1, EncodeScalarPuts
  <2>4. CASE EncodeTuple
    <3>1. Encoding(Kinds) BY <2>4 DEF EncodeTuple, Encoding, Kinds
    <3> QED BY <2>4, <3>1, EncodeTuplePuts
  <2>5. CASE EncodeArray
    <3>1. Encoding(Kinds) BY <2>5 DEF EncodeArray, Encoding, Kinds
    <3> QED BY <2>5, <3>1, EncodeArrayPuts
  <2>6. CASE EncodeStruct
    <3>1. Encoding(Kinds) BY <2>6 DEF EncodeStruct, Encoding, Kinds
    <3> QED BY <2>6, <3>1, EncodeStructPuts
  <2>7. CASE EncodePtr
    <3>1. Encoding(Kinds) BY <2>7 DEF EncodePtr, Encoding, Kinds
    <3> QED BY <2>7, <3>1, EncodePtrPuts
  <2>8. CASE EncodeAny
    <3>1. Encoding(Kinds) BY <2>8 DEF EncodeAny, Encoding, Kinds
    <3> QED BY <2>1, <2>8, <3>1, EncodeAnyPuts
  <2>9. CASE EncodeUnion
    <3>1. Encoding(Kinds) BY <2>9 DEF EncodeUnion, Encoding, Kinds
    <3> QED BY <2>9, <3>1, EncodeUnionPuts
  <2> QED BY <2>2, <2>3, <2>4, <2>5, <2>6, <2>7, <2>8, <2>9 DEF Encode
<1>4. ASSUME Complete' PROVE encoder.ok
  <2>0. encoder'.ok BY <1>4 DEF Complete
  <2>1. CASE EncodeStart BY <2>1 DEF EncodeStart
  <2>2. CASE EncodeAnyEnd BY <1>2, <2>0, <2>2 DEF EncodeAnyEnd, EncoderType
  <2>3. CASE EncodeEnd BY <2>0, <2>3 DEF EncodeEnd
  <2>4. CASE Putting
    <3>1. PICK n, units, values : Encodes(n, units, values) BY <2>4 DEF Putting, Puts, Good
    <3>2. encoder'.ok = encoder.ok BY <1>2, <3>1 DEF Encodes, EncoderType
    <3> QED BY <2>0, <3>2
  <2> QED BY <1>3, <1>4, <2>1, <2>2, <2>3, <2>4
<1>5. Complete' => Complete BY <1>1, <1>4 DEF Complete, AllWritten, Written
<1> QED BY <1>1, <1>3, <1>4, <1>5

-----------------------------------------------------------------------------
(* The walk of the encoder: the values it had left before each step, and   *)
(* where on the wire it was.                                               *)

\* The value that counts, behind the number of a method in a call.
First == IF IsCall THEN 2 ELSE 1

Sent(i) == Value(world.values[i].type, world.values[i].addr, FALSE)

Listed(i) == IF i < First THEN <<Sent(1), Sent(2)>> ELSE <<Sent(First)>>

\* x was encoded with values s left, at position p of a wire u; r and q are what
\* is left then, and the position.
Walked(x, u, s, p, r, q) ==
  /\ s # <<>> /\ Head(s).type = x.type /\ Head(s).addr = x.addr
  /\ Reads(u, p, x.units) /\ q = p + Len(x.units)
  /\ \E kids \in Seq(Item(world)) :
       Writes(world, x.type, x.addr, x.units, kids) /\ r = kids \o Tail(s)

Walk(h, u, S, P) ==
  /\ S \in [1..Len(h) + 1 -> Seq(Item(world))] /\ P \in [1..Len(h) + 1 -> Nat]
  /\ S[1] = Listed(1) /\ P[1] = 0
  /\ \A k \in 1..Len(h) : Walked(h[k], u, S[k], P[k], S[k + 1], P[k + 1])

\* A walk that ends with values s left, at the end of the wire.
WalksTo(h, u, S, P, s) == Walk(h, u, S, P) /\ S[Len(h) + 1] = s /\ P[Len(h) + 1] = Len(u)

Walks(h, u, s) == \E S, P : WalksTo(h, u, S, P, s)

LEMMA ReadsMore ==
  ASSUME NEW u \in Seq(Nat), NEW w \in Seq(Nat), NEW p \in Nat, NEW units \in Seq(Nat), Reads(u, p, units)
  PROVE  Reads(u \o w, p, units)
<1>1. /\ Len(u \o w) = Len(u) + Len(w) /\ Len(u) \in Nat /\ Len(w) \in Nat
      /\ \A i \in 1..Len(u) : (u \o w)[i] = u[i]
  BY JoinFacts
<1>2. p + Len(units) <= Len(u) /\ Len(units) \in Nat BY DEF Reads
<1>3. \A i \in 1..Len(units) : (u \o w)[p + i] = units[i]
  <2> TAKE i \in 1..Len(units)
  <2>1. p + i \in 1..Len(u) BY <1>1, <1>2
  <2>2. u[p + i] = units[i] BY DEF Reads
  <2> QED BY <1>1, <2>1, <2>2
<1> QED BY <1>1, <1>2, <1>3 DEF Reads

LEMMA WalksMore ==
  ASSUME NEW h \in Seq(History(world)), NEW u \in Seq(Nat), NEW s, Walks(h, u, s),
         NEW x \in History(world), s # <<>>, Head(s).type = x.type, Head(s).addr = x.addr,
         NEW kids \in Seq(Item(world)), Writes(world, x.type, x.addr, x.units, kids)
  PROVE  Walks(Append(h, x), u \o x.units, kids \o Tail(s))
<1> DEFINE n == Len(h)
           g == Append(h, x)
           units == x.units
           v == u \o units
           r == kids \o Tail(s)
<1>1. PICK S, P : WalksTo(h, u, S, P, s) BY DEF Walks
<1>2. /\ S \in [1..n + 1 -> Seq(Item(world))] /\ P \in [1..n + 1 -> Nat]
      /\ S[1] = Listed(1) /\ P[1] = 0
      /\ \A k \in 1..n : Walked(h[k], u, S[k], P[k], S[k + 1], P[k + 1])
      /\ S[n + 1] = s /\ P[n + 1] = Len(u)
  BY <1>1 DEF WalksTo, Walk
<1>3. /\ n \in Nat /\ Len(g) = n + 1 /\ g[n + 1] = x
      /\ \A k \in 1..n : g[k] = h[k] /\ h[k] \in History(world)
  OBVIOUS
<1>4. units \in Seq(Nat) BY DEF History
<1> HIDE DEF g, units
<1>5. v \in Seq(Nat) /\ Len(v) = Len(u) + Len(units) /\ Len(u) \in Nat /\ Len(units) \in Nat
  BY <1>4, JoinFacts
<1>6. s \in Seq(Item(world))
  <2>1. n + 1 \in 1..n + 1 BY <1>3
  <2> QED BY <1>2, <2>1
<1>7. r \in Seq(Item(world)) BY <1>6, PushFacts
<1>8. Reads(v, Len(u), units) BY <1>4, ReadsJoin
<1> DEFINE Z == [k \in 1..(n + 1) + 1 |-> IF k = n + 2 THEN r ELSE S[k]]
           Q == [k \in 1..(n + 1) + 1 |-> IF k = n + 2 THEN Len(v) ELSE P[k]]
<1> HIDE DEF n, v, r
<1>9. /\ Z \in [1..(n + 1) + 1 -> Seq(Item(world))]
      /\ \A k \in 1..n + 1 : Z[k] = S[k]
      /\ Z[(n + 1) + 1] = r
  BY <1>2, <1>3, <1>7
<1>10. /\ Q \in [1..(n + 1) + 1 -> Nat]
       /\ \A k \in 1..n + 1 : Q[k] = P[k]
       /\ Q[(n + 1) + 1] = Len(v)
  BY <1>2, <1>3, <1>5
<1> HIDE DEF Z, Q
<1>11. Z[1] = Listed(1) /\ Q[1] = 0
  <2>1. 1 \in 1..n + 1 BY <1>3
  <2> QED BY <1>2, <1>9, <1>10, <2>1
<1>12. \A k \in 1..n + 1 : Walked(g[k], v, Z[k], Q[k], Z[k + 1], Q[k + 1])
  <2> TAKE k \in 1..n + 1
  <2>1. CASE k \in 1..n
    <3>1. k + 1 \in 1..n + 1 BY <1>3, <2>1
    <3>2. Z[k] = S[k] /\ Q[k] = P[k] /\ Z[k + 1] = S[k + 1] /\ Q[k + 1] = P[k + 1] /\ g[k] = h[k]
      BY <1>3, <1>9, <1>10, <2>1, <3>1
    <3>3. Walked(h[k], u, S[k], P[k], S[k + 1], P[k + 1]) BY <1>2, <2>1
    <3>4. Reads(u, P[k], h[k].units) BY <3>3 DEF Walked
    <3>5. h[k].units \in Seq(Nat) BY <1>3, <2>1 DEF History
    <3>6. P[k] \in Nat BY <1>2
    <3>7. Reads(v, P[k], h[k].units) BY <1>4, <3>4, <3>5, <3>6, ReadsMore DEF v
    <3>8. Walked(h[k], v, S[k], P[k], S[k + 1], P[k + 1]) BY <3>3, <3>7 DEF Walked
    <3> QED BY <3>2, <3>8
  <2>2. CASE k = n + 1
    <3>1. Z[k] = s /\ Q[k] = Len(u) /\ Z[k + 1] = r /\ Q[k + 1] = Len(v) /\ g[k] = x
      BY <1>2, <1>3, <1>9, <1>10, <2>2
    <3>2. Walked(x, v, s, Len(u), r, Len(v)) BY <1>5, <1>8 DEF Walked, r, units
    <3> QED BY <3>1, <3>2
  <2> QED BY <1>3, <2>1, <2>2
<1>13. Walk(g, v, Z, Q) BY <1>3, <1>9, <1>10, <1>11, <1>12 DEF Walk
<1>14. WalksTo(g, v, Z, Q, r) BY <1>3, <1>9, <1>10, <1>13 DEF WalksTo
<1>15. Walks(g, v, r) BY <1>14 DEF Walks
<1> QED BY <1>15 DEF g, v, r, units

\* The walk of an unchanged world.
LEMMA WalksThen ==
  ASSUME NEW h, NEW u, NEW s, Walks(h, u, s), world' = world, encoded' = h, wire' = u
  PROVE  Walks(encoded, wire, s)'
<1>1. PICK S, P : WalksTo(h, u, S, P, s) BY DEF Walks
<1>2. \A i : Listed(i)' = Listed(i) BY DEF Listed, First, Sent, IsCall
<1>3. \A x, v, t, p, r, q : Walked(x, v, t, p, r, q)' <=> Walked(x, v, t, p, r, q) BY DEF Walked
<1>4. WalksTo(h, u, S, P, s)' BY <1>1, <1>2, <1>3 DEF WalksTo, Walk
<1>5. WalksTo(encoded, wire, S, P, s)' BY <1>4 DEF WalksTo, Walk
<1> QED BY <1>5 DEF Walks
LEMMA ItemOf ==
  ASSUME NEW w, NEW p \in Places(w), NEW k \in BOOLEAN
  PROVE  Value(p[1], p[2], k) \in Item(w)
BY DEF Item

LEMMA FirstFacts ==
  ASSUME world \in Worlds
  PROVE  /\ First \in {1, 2} /\ Len(world.values) = First /\ (IsCall <=> First = 2)
         /\ \A i \in 1..First : /\ Sent(i) \in Item(world) /\ Sent(i) # AnyEnd /\ Sent(i).keep = FALSE
                                /\ Sent(i).type = world.values[i].type /\ Sent(i).addr = world.values[i].addr
                                /\ Sent(i).type \in DOMAIN Types
                                /\ <<Sent(i).type, Sent(i).addr>> \in Referred(world)
         /\ IsCall => Sent(1).type = CallId
         /\ ~IsCall => Sent(1).type = world.type
<1> DEFINE R == {[type |-> p[1], addr |-> p[2]] : p \in Places(world)}
<1>1. world.values \in Seq(R) BY WorldFacts
<1>2. ~IsCall => Len(world.values) = 1 /\ world.values[1].type = world.type BY SendsFacts
<1>3. IsCall => Len(world.values) = 2 /\ world.values[1].type = CallId BY SendsFacts
<1>4. First \in {1, 2} /\ Len(world.values) = First /\ (IsCall <=> First = 2)
  <2>1. CASE IsCall
    <3>1. First = 2 BY <2>1 DEF First
    <3> QED BY <1>3, <2>1, <3>1
  <2>2. CASE ~IsCall
    <3>1. First = 1 BY <2>2 DEF First
    <3> QED BY <1>2, <2>2, <3>1
  <2> QED BY <2>1, <2>2
<1>5. \A i : /\ Sent(i).type = world.values[i].type /\ Sent(i).addr = world.values[i].addr
             /\ Sent(i).keep = FALSE
  BY DEF Sent, Value
<1>6. ASSUME NEW i \in 1..First
      PROVE  /\ Sent(i) \in Item(world) /\ Sent(i) # AnyEnd /\ Sent(i).type \in DOMAIN Types
             /\ <<Sent(i).type, Sent(i).addr>> \in Referred(world)
  <2>1. world.values[i] \in R /\ i \in DOMAIN world.values
    <3> HIDE DEF R
    <3> QED BY <1>1, <1>4
  <2>2. PICK p \in Places(world) : world.values[i] = [type |-> p[1], addr |-> p[2]] BY <2>1
  <2>3. Sent(i) = Value(p[1], p[2], FALSE) BY <2>2 DEF Sent
  <2>4. FALSE \in BOOLEAN OBVIOUS
  <2>5. Value(p[1], p[2], FALSE) \in Item(world) BY <2>2, <2>4, ItemOf
  <2>6. p[1] \in DOMAIN Types BY WorldFacts
  <2>7. Sent(i) # AnyEnd /\ Sent(i).type = p[1] BY <2>3, <2>6, ValueFacts
  <2>8. <<Sent(i).type, Sent(i).addr>> \in Referred(world) BY <1>5, <2>1 DEF Referred
  <2> QED BY <2>3, <2>5, <2>6, <2>7, <2>8
<1> QED BY <1>2, <1>3, <1>4, <1>5, <1>6

LEMMA ListedFacts ==
  ASSUME world \in Worlds
  PROVE  /\ Listed(First) = <<Sent(First)>> /\ Listed(First) # <<>>
         /\ IsCall => Listed(1) = <<Sent(1), Sent(2)>> /\ Tail(Listed(1)) = Listed(2) /\ Head(Listed(1)) = Sent(1)
                      /\ Listed(1) # <<>> /\ Len(Listed(1)) = 2 /\ Listed(1)[1] = Sent(1)
         /\ Len(Listed(First)) = 1 /\ Listed(First)[1] = Sent(First)
         /\ \A i \in 1..First : Listed(i) \in Seq(Item(world))
<1>1. First \in {1, 2} /\ (IsCall <=> First = 2) BY FirstFacts
<1>2. Listed(First) = <<Sent(First)>> BY <1>1 DEF Listed
<1>3. IsCall => Listed(1) = <<Sent(1), Sent(2)>> /\ Listed(2) = <<Sent(2)>> BY <1>1 DEF Listed
<1>4. \A i \in 1..First : Sent(i) \in Item(world) BY FirstFacts
<1>5. First \in 1..First /\ 1 \in 1..First BY <1>1
<1>6. Sent(First) \in Item(world) BY <1>4, <1>5
<1>7. IsCall => Sent(1) \in Item(world) /\ Sent(2) \in Item(world)
  <2>1. IsCall => 2 \in 1..First BY <1>1
  <2> QED BY <1>4, <1>5, <2>1
<1>8. <<Sent(First)>> \in Seq(Item(world)) BY <1>6
<1>9. IsCall => <<Sent(1), Sent(2)>> \in Seq(Item(world)) BY <1>7
<1>10. \A i \in 1..First : i = First \/ (IsCall /\ i = 1) BY <1>1
<1>11. \A i \in 1..First : Listed(i) \in Seq(Item(world))
  <2> TAKE i \in 1..First
  <2>1. CASE i = First BY <1>2, <1>8, <2>1
  <2>2. CASE IsCall /\ i = 1 BY <1>3, <1>9, <2>2
  <2>3. i = First \/ (IsCall /\ i = 1) BY <1>10, Zenon
  <2> HIDE DEF IsCall
  <2> QED BY <2>1, <2>2, <2>3, Zenon
<1>12. Listed(First) # <<>> /\ Len(Listed(First)) = 1 /\ Listed(First)[1] = Sent(First) BY <1>2
<1>13. IsCall => /\ Tail(Listed(1)) = Listed(2) /\ Head(Listed(1)) = Sent(1)
                 /\ Listed(1) # <<>> /\ Len(Listed(1)) = 2 /\ Listed(1)[1] = Sent(1)
  <2> DEFINE a == Sent(1)
             b == Sent(2)
             s == <<a, b>>
  <2> HIDE DEF a, b
  <2>1. Tail(s) = <<b>> /\ Head(s) = a /\ s # <<>> /\ Len(s) = 2 /\ s[1] = a OBVIOUS
  <2> HIDE DEF s
  <2>2. IsCall => Listed(1) = s /\ Listed(2) = <<b>> BY <1>3 DEF s, a, b
  <2>3. a = Sent(1) BY DEF a
  <2> HIDE DEF IsCall
  <2> QED BY <2>1, <2>2, <2>3
<1> QED BY <1>2, <1>3, <1>11, <1>12, <1>13

\* Of the values walked, one at address a had count c, and may be referred to.
Counted(h, k, a, c) ==
  \E j \in First..k : h[j].addr = a /\ h[j].count = c /\ <<h[j].type, a>> \in Referred(world)

\* The counts of the values walked, and of what the indices refer to.
Rising(h) == \A i, j \in First..Len(h) : i < j => h[i].count < h[j].count
OnTop(h) == h[First].count = 0 /\ h[First].type = Sent(First).type /\ h[First].addr = Sent(First).addr
Index(x) == Types[x.type].kind = "ptr" /\ x.units[1] = PtrIndex
Pointing(h) ==
  \A k \in 1..Len(h) : Index(h[k]) => Counted(h, k, world.memory[h[k].addr], h[k].units[2])

Numbered(h) == (Len(h) >= First => OnTop(h)) /\ Rising(h) /\ Pointing(h)

\* Before the value that counts, all is as it was listed.
Early ==
  /\ encoder.turn <= First /\ Len(encoded) + Len(encoder.stack) = encoder.turn - 1
  /\ \A i \in DOMAIN encoder.stack : encoder.stack[i] = Sent(1)
  /\ Walks(encoded, wire, Listed(Len(encoded) + 1))

\* Inside it, the counts are those of the values walked.
Marks ==
  /\ encoder.top = Sent(First).addr /\ Len(encoded) >= First - 1
  /\ Len(encoded) = First - 1 =>
       encoder.index = 0 /\ encoder.stack = <<Sent(First)>> /\ encoder.known = <<>>
  /\ \A j \in First..Len(encoded) : encoded[j].count < encoder.index
  /\ \A a \in DOMAIN encoder.known : Counted(encoded, Len(encoded), a, encoder.known[a])
  /\ Keepers(encoder.stack)

Ahead1 == \E s : Sheds(Item(world), encoder.stack, s) /\ Walks(encoded, wire, s)

Late == encoder.turn = First + 1 /\ Marks /\ Ahead1

Staged == Numbered(encoded) /\ (Early \/ Late)

\* When all is encoded.
Whole == Walks(encoded, wire, <<>>) /\ Numbered(encoded) /\ Len(encoded) >= First

LEMMA StagedInit == Init => Staged
<1> SUFFICES ASSUME Init PROVE Staged OBVIOUS
<1>1. /\ world \in Worlds /\ encoded = <<>> /\ wire = <<>> /\ encoder.turn = 1 /\ encoder.stack = <<>>
  BY DEF Init
<1>2. First \in {1, 2} BY <1>1, FirstFacts
<1> DEFINE none == <<>>
           S == [k \in 1..1 |-> Listed(1)]
           P == [k \in 1..1 |-> 0]
<1>3. Len(none) = 0 /\ DOMAIN none = {} OBVIOUS
<1>4. Listed(1) \in Seq(Item(world))
  <2>1. 1 \in 1..First BY <1>2
  <2> QED BY <1>1, <2>1, ListedFacts
<1>5. S \in [1..1 -> Seq(Item(world))] /\ S[1] = Listed(1) /\ P \in [1..1 -> Nat] /\ P[1] = 0
  BY <1>4
<1> HIDE DEF S, P, none
<1>6. Walk(none, none, S, P) BY <1>3, <1>5 DEF Walk
<1>7. Walks(none, none, Listed(1)) BY <1>3, <1>5, <1>6 DEF Walks, WalksTo
<1>8. Numbered(none)
  <2>1. ~(Len(none) >= First) /\ First..Len(none) = {} /\ 1..Len(none) = {} BY <1>2, <1>3
  <2> QED BY <2>1 DEF Numbered, Rising, Pointing
<1>9. encoded = none /\ wire = none /\ encoder.stack = none BY <1>1 DEF none
<1>10. Early BY <1>1, <1>2, <1>3, <1>7, <1>9 DEF Early
<1> QED BY <1>8, <1>9, <1>10 DEF Staged

\* What depends on the world alone does not change.
LEMMA WorldStays ==
  ASSUME world' = world
  PROVE  /\ First' = First /\ IsCall' = IsCall
         /\ \A i : Sent(i)' = Sent(i) /\ Listed(i)' = Listed(i)
         /\ \A h : Numbered(h)' <=> Numbered(h)
         /\ \A h, k, a, c : Counted(h, k, a, c)' <=> Counted(h, k, a, c)
         /\ \A values : Keepers(values)' <=> Keepers(values)
<1>1. First' = First /\ IsCall' = IsCall /\ \A i : Sent(i)' = Sent(i) BY DEF First, IsCall, Sent
<1>2. \A i : Listed(i)' = Listed(i) BY <1>1 DEF Listed
<1>3. \A h, k, a, c : Counted(h, k, a, c)' <=> Counted(h, k, a, c) BY <1>1 DEF Counted
<1>4. \A h : Numbered(h)' <=> Numbered(h) BY <1>1, <1>3 DEF Numbered, OnTop, Rising, Pointing
<1>5. \A values : Keepers(values)' <=> Keepers(values) BY DEF Keepers
<1> QED BY <1>1, <1>2, <1>3, <1>4, <1>5

LEMMA StartStaged ==
  ASSUME world \in Worlds, EncoderInv(world, encoder), encoded \in Seq(History(world)), Staged, EncodeStart
  PROVE  Staged'
<1> DEFINE v == world.values[encoder.turn]
           item == Sent(encoder.turn)
           stack == <<item>>
<1>1. encoder \in EncoderType(world) BY DEF EncoderInv
<1>2. /\ encoder.turn \in Nat \ {0} /\ encoder.turn <= Len(world.values) /\ encoder.stack = <<>>
      /\ wire' = wire /\ world' = world /\ encoded' = encoded
  BY <1>1 DEF EncoderType, EncodeStart
<1>3. /\ encoder'.stack = stack /\ encoder'.turn = encoder.turn + 1 /\ encoder'.index = 0
      /\ encoder'.top = v.addr /\ encoder'.known = <<>>
  BY <1>1 DEF EncoderType, EncodeStart, Sent
<1>4. First \in {1, 2} /\ Len(world.values) = First /\ (IsCall <=> First = 2) BY FirstFacts
<1>5. Len(encoder.stack) = 0 /\ Len(stack) = 1 /\ DOMAIN stack = {1} /\ stack[1] = item BY <1>2
<1>6. Early /\ Numbered(encoded)
  <2>1. ~(encoder.turn = First + 1) BY <1>2, <1>4
  <2> QED BY <2>1 DEF Staged, Late
<1>7. Len(encoded) = encoder.turn - 1 /\ Walks(encoded, wire, Listed(Len(encoded) + 1))
  BY <1>2, <1>5, <1>6 DEF Early
<1>8. Numbered(encoded)' BY <1>2, <1>6, WorldStays
<1>9. Walks(encoded, wire, Listed(encoder.turn))
  <2>1. Len(encoded) + 1 = encoder.turn BY <1>2, <1>7
  <2> QED BY <1>7, <2>1
<1>10. PICK l : l = Listed(encoder.turn) OBVIOUS
<1>11. Walks(encoded, wire, l) BY <1>9, <1>10
<1>12. encoder.turn \in 1..First BY <1>2, <1>4
<1>13. item \in Item(world) /\ item # AnyEnd /\ item.keep = FALSE /\ item.addr = v.addr BY <1>12, FirstFacts
<1> HIDE DEF item
<1>14. CASE encoder.turn = First
  <2>1. l = stack BY <1>10, <1>14, ListedFacts DEF item
  <2>2. Sheds(Item(world), stack, stack) BY <1>13, ShedsOne
  <2>3. Keepers(stack) BY <1>5, <1>13 DEF Keepers
  <2> HIDE DEF stack
  <2>5. Walks(encoded, wire, l)' BY <1>2, <1>11, WalksThen
  <2>6. Ahead1' BY <1>2, <1>3, <2>1, <2>2, <2>5 DEF Ahead1
  <2>7. Len(encoded) = First - 1 /\ Len(encoded) >= First - 1 BY <1>4, <1>7, <1>14
  <2>8. First..Len(encoded) = {} BY <1>4, <2>7
  <2>9. Sent(First) = item BY <1>14 DEF item
  <2>10. stack = <<Sent(First)>> BY <2>9 DEF stack
  <2>11. DOMAIN (encoder'.known) = {} BY <1>3
  <2>12. Marks' BY <1>2, <1>3, <1>13, <2>3, <2>7, <2>8, <2>9, <2>10, <2>11, WorldStays DEF Marks
  <2>13. encoder'.turn = First' + 1 BY <1>2, <1>3, <1>14, WorldStays
  <2> QED BY <1>8, <2>6, <2>12, <2>13 DEF Staged, Late
<1>15. CASE encoder.turn # First
  <2>1. encoder.turn = 1 /\ First = 2 BY <1>4, <1>12, <1>15
  <2>2. Len(encoded) = 0 /\ l = Listed(1) BY <1>7, <1>10, <2>1
  <2> HIDE DEF stack
  <2>3. Walks(encoded, wire, l)' BY <1>2, <1>11, WalksThen
  <2>4. Len(encoded') + 1 = 1 /\ Listed(1)' = Listed(1) BY <1>2, <2>2, WorldStays
  <2>5. Walks(encoded, wire, Listed(Len(encoded) + 1))' BY <2>2, <2>3, <2>4
  <2>6. First' = First /\ Sent(1)' = Sent(1) BY <1>2, WorldStays
  <2>7. encoder'.turn = 2 /\ encoder'.stack = stack BY <1>3, <2>1
  <2>8. stack[1] = Sent(1) BY <1>5, <2>1 DEF item
  <2>9. Early' BY <1>2, <1>5, <2>1, <2>2, <2>5, <2>6, <2>7, <2>8 DEF Early
  <2> QED BY <1>8, <2>9 DEF Staged
<1> QED BY <1>14, <1>15

LEMMA AnyEndStaged ==
  ASSUME world \in Worlds, EncoderInv(world, encoder), encoded \in Seq(History(world)), Staged, EncodeAnyEnd
  PROVE  Staged'
<1>1. encoder \in EncoderType(world) /\ encoder.stack \in Seq(Item(world)) BY DEF EncoderInv, EncoderType
<1>2. encoder.stack # <<>> /\ Head(encoder.stack) = AnyEnd /\ wire' = wire /\ world' = world
      /\ encoded' = encoded /\ encoder' = [encoder EXCEPT !.stack = Tail(encoder.stack)]
  BY DEF EncodeAnyEnd
<1>3. /\ encoder'.stack = Tail(encoder.stack) /\ encoder'.turn = encoder.turn /\ encoder'.index = encoder.index
      /\ encoder'.top = encoder.top /\ encoder'.known = encoder.known
  BY <1>1, <1>2 DEF EncoderType
<1>4. First \in {1, 2} /\ (IsCall <=> First = 2) BY FirstFacts
<1>5. 1 \in 1..First /\ First \in 1..First BY <1>4
<1>6. Sent(1) # AnyEnd /\ Sent(First) # AnyEnd BY <1>5, FirstFacts
<1>7. Head(encoder.stack) = encoder.stack[1] /\ 1 \in DOMAIN encoder.stack
  BY <1>1, <1>2
<1>8. ~Early BY <1>2, <1>6, <1>7 DEF Early
<1>9. Late /\ Numbered(encoded) BY <1>8 DEF Staged
<1>10. PICK s : Sheds(Item(world), encoder.stack, s) /\ Walks(encoded, wire, s) BY <1>9 DEF Late, Ahead1
<1>11. Sheds(Item(world), Tail(encoder.stack), s) BY <1>1, <1>2, <1>10, ShedsPop
<1>12. Walks(encoded, wire, s)' BY <1>2, <1>10, WalksThen
<1>13. Ahead1' BY <1>2, <1>3, <1>11, <1>12 DEF Ahead1
<1>14. Len(encoded) # First - 1
  <2> SUFFICES ASSUME Len(encoded) = First - 1 PROVE FALSE OBVIOUS
  <2>1. encoder.stack = <<Sent(First)>> BY <1>9 DEF Late, Marks
  <2> QED BY <1>2, <1>6, <2>1
<1>15. Keepers(Tail(encoder.stack))
  <2>1. Keepers(encoder.stack) BY <1>9 DEF Late, Marks
  <2>2. \A i \in DOMAIN Tail(encoder.stack) :
          i + 1 \in DOMAIN encoder.stack /\ Tail(encoder.stack)[i] = encoder.stack[i + 1]
    <3>1. /\ Len(Tail(encoder.stack)) = Len(encoder.stack) - 1 /\ Len(encoder.stack) \in Nat
          /\ \A i \in 1..Len(Tail(encoder.stack)) : Tail(encoder.stack)[i] = encoder.stack[i + 1]
      BY <1>1, <1>2, HeadTailProperties
    <3>2. Tail(encoder.stack) \in Seq(Item(world)) BY <1>1, <1>2
    <3> QED BY <1>1, <3>1, <3>2
  <2> QED BY <2>1, <2>2 DEF Keepers
<1>16. Marks' BY <1>2, <1>3, <1>9, <1>14, <1>15, WorldStays DEF Late, Marks
<1>17. Numbered(encoded)' BY <1>2, <1>9, WorldStays
<1>18. encoder'.turn = First' + 1 BY <1>2, <1>3, <1>9, WorldStays DEF Late
<1> QED BY <1>13, <1>16, <1>17, <1>18 DEF Staged, Late

LEMMA EndWhole ==
  ASSUME world \in Worlds, EncoderInv(world, encoder), encoded \in Seq(History(world)), Staged,
         EncodeEnd, encoder.ok
  PROVE  Whole'
<1>1. encoder.turn \in Nat \ {0} BY DEF EncoderInv, EncoderType
<1>2. /\ encoder.stack = <<>> /\ encoder.turn > Len(world.values)
      /\ wire' = wire /\ world' = world /\ encoded' = encoded
  BY DEF EncodeEnd
<1>3. First \in {1, 2} /\ Len(world.values) = First BY FirstFacts
<1>4. ~Early BY <1>1, <1>2, <1>3 DEF Early
<1>5. Late /\ Numbered(encoded) BY <1>4 DEF Staged
<1>6. PICK s : Sheds(Item(world), encoder.stack, s) /\ Walks(encoded, wire, s) BY <1>5 DEF Late, Ahead1
<1>7. s = <<>> BY <1>2, <1>6, ShedsEmpty
<1>8. Walks(encoded, wire, s)' BY <1>2, <1>6, WalksThen
<1>9. Len(encoded) >= First
  <2>1. Len(encoded) \in Nat OBVIOUS
  <2>2. Len(encoded) # First - 1
    <3> SUFFICES ASSUME Len(encoded) = First - 1 PROVE FALSE OBVIOUS
    <3>1. encoder.stack = <<Sent(First)>> BY <1>5 DEF Late, Marks
    <3>2. <<Sent(First)>> # <<>> OBVIOUS
    <3> QED BY <1>2, <3>1, <3>2
  <2>3. Len(encoded) >= First - 1 BY <1>5 DEF Late, Marks
  <2> QED BY <1>3, <2>1, <2>2, <2>3
<1>10. Numbered(encoded)' BY <1>2, <1>5, WorldStays
<1>11. First' = First BY <1>2, WorldStays
<1> QED BY <1>2, <1>7, <1>8, <1>9, <1>10, <1>11 DEF Whole
\* A value v is passed: x goes on the history, units on the wire.
Put(v, x, n, units, values, kids) ==
  /\ v \in Item(world) /\ v # AnyEnd /\ v.type \in DOMAIN Types
  /\ encoder.stack \in Seq(Item(world)) /\ encoder.stack # <<>> /\ encoder.index \in Nat
  /\ n \in Nat \ {0} /\ units \in Seq(Nat) /\ values \in Seq(Item(world)) /\ kids \in Seq(Item(world))
  /\ x \in History(world)
  /\ x.type = v.type /\ x.addr = v.addr /\ x.count = encoder.index /\ x.units = units
  /\ Writes(world, x.type, x.addr, x.units, kids)
  /\ world' = world /\ wire' = wire \o units /\ encoded' = Append(encoded, x)
  /\ encoder'.stack = values \o Tail(encoder.stack) /\ encoder'.index = encoder.index + n
  /\ encoder'.known = Remembered(v) /\ encoder'.top = encoder.top /\ encoder'.turn = encoder.turn


\* What a step inside a value does to the encoder and to the history.
LEMMA PutFacts ==
  ASSUME world \in Worlds, EncoderInv(world, encoder), Encoding(Kinds),
         NEW n, NEW units, NEW values, NEW kids, Puts(n, units, values, kids)
  PROVE  Put(Head(encoder.stack), Entry(Head(encoder.stack), encoder.index, units), n, units, values, kids)
<1> DEFINE v == Head(encoder.stack)
           x == Entry(v, encoder.index, units)
<1>1. /\ encoder.stack \in Seq(Item(world)) /\ encoder.stack # <<>>
      /\ v \in Item(world) /\ v # AnyEnd /\ v.type \in DOMAIN Types
  BY EncodingTop
<1>2. /\ n \in Nat \ {0} /\ units \in Seq(Nat) /\ values \in Seq(Item(world)) /\ Encodes(n, units, values)
      /\ kids \in Seq(Item(world)) /\ Writes(world, v.type, v.addr, units, kids)
  BY DEF Puts, Good, Wellformed, Sheds
<1>3. encoder \in EncoderType(world) /\ encoder.index \in Nat BY DEF EncoderInv, EncoderType
<1>4. /\ world' = world /\ wire' = wire \o units /\ encoded' = Append(encoded, x)
      /\ encoder' = [encoder EXCEPT !.stack = values \o Tail(@), !.index = @ + n, !.known = Remembered(v)]
  BY <1>2 DEF Encodes
<1>5. /\ encoder'.stack = values \o Tail(encoder.stack) /\ encoder'.index = encoder.index + n
      /\ encoder'.known = Remembered(v) /\ encoder'.top = encoder.top /\ encoder'.turn = encoder.turn
  <2> HIDE DEF v
  <2> QED BY <1>3, <1>4 DEF EncoderType
<1>6. x \in History(world)
  <2> HIDE DEF v
  <2> QED BY <1>1, <1>2, <1>3, EntryType
<1>7. x.type = v.type /\ x.addr = v.addr /\ x.count = encoder.index /\ x.units = units BY DEF Entry
<1> HIDE DEF v, x
<1>8. Writes(world, x.type, x.addr, x.units, kids) BY <1>2, <1>7
<1>9. Put(v, x, n, units, values, kids) BY <1>1, <1>2, <1>3, <1>4, <1>5, <1>6, <1>7, <1>8 DEF Put
<1> QED BY <1>9 DEF v, x

\* The step that passes a call's number.
LEMMA PutEarly ==
  ASSUME world \in Worlds, EncoderInv(world, encoder), WireInv(wire, Room), encoded \in Seq(History(world)),
         Encoding(Kinds), NEW n, NEW units, NEW values, NEW kids, Puts(n, units, values, kids),
         Early, Numbered(encoded)
  PROVE  Early' /\ Numbered(encoded)'
<1> DEFINE v == Head(encoder.stack)
           x == Entry(v, encoder.index, units)
           h == Append(encoded, x)
           u == wire \o units
<1>0. Put(v, x, n, units, values, kids) BY PutFacts
<1>1. /\ v \in Item(world) /\ v # AnyEnd /\ v.type \in DOMAIN Types
      /\ encoder.stack \in Seq(Item(world)) /\ encoder.stack # <<>>
      /\ units \in Seq(Nat) /\ values \in Seq(Item(world)) /\ kids \in Seq(Item(world))
      /\ x \in History(world)
      /\ x.type = v.type /\ x.addr = v.addr /\ x.units = units
      /\ Writes(world, x.type, x.addr, x.units, kids)
      /\ world' = world /\ wire' = u /\ encoded' = h
      /\ encoder'.stack = values \o Tail(encoder.stack) /\ encoder'.turn = encoder.turn
  BY <1>0 DEF Put
<1> HIDE DEF v, x
<1>2. First \in {1, 2} /\ (IsCall <=> First = 2) BY FirstFacts
<1>3. /\ encoder.turn <= First /\ Len(encoded) + Len(encoder.stack) = encoder.turn - 1
      /\ \A i \in DOMAIN encoder.stack : encoder.stack[i] = Sent(1)
      /\ Walks(encoded, wire, Listed(Len(encoded) + 1))
  BY DEF Early
<1>4. encoder.turn \in Nat BY DEF EncoderInv, EncoderType
<1>5. Len(encoder.stack) \in Nat /\ Len(encoder.stack) >= 1 /\ Len(encoded) \in Nat /\ 1 \in DOMAIN encoder.stack
  <2>1. Len(encoder.stack) >= 1 BY <1>1, PushFacts
  <2>2. Len(encoder.stack) \in Nat /\ DOMAIN encoder.stack = 1..Len(encoder.stack) BY <1>1
  <2>3. Len(encoded) \in Nat OBVIOUS
  <2>4. 1 \in 1..Len(encoder.stack) BY <2>1, <2>2
  <2> QED BY <2>1, <2>2, <2>3, <2>4, Zenon
<1>6. First = 2 /\ encoder.turn = 2 /\ Len(encoder.stack) = 1 /\ Len(encoded) = 0
  <2> DEFINE a == Len(encoded)
             b == Len(encoder.stack)
             c == encoder.turn
             f == First
  <2>1. a \in Nat /\ b \in Nat /\ b >= 1 /\ c \in Nat BY <1>4, <1>5
  <2>2. f \in {1, 2} BY <1>2
  <2>3. c <= f /\ a + b = c - 1 BY <1>3
  <2> HIDE DEF a, b, c, f
  <2>4. f = 2 /\ c = 2 /\ b = 1 /\ a = 0 BY <2>1, <2>2, <2>3
  <2> QED BY <2>4 DEF a, b, c, f
<1>7. IsCall BY <1>2, <1>6
<1>8. v = Sent(1) BY <1>1, <1>3, <1>5 DEF v
<1>9. Sent(1).type = CallId BY <1>7, FirstFacts
<1>10. Types[v.type].kind = "scalar" BY <1>8, <1>9, HashFacts
<1>11. values = <<>> BY <1>10 DEF Puts, v
<1>12. kids = <<>> BY <1>1, <1>10 DEF Writes
<1>13. Walks(encoded, wire, Listed(1))
  <2>1. Len(encoded) + 1 = 1 BY <1>6
  <2> QED BY <1>3, <2>1
<1> DEFINE s == Listed(1)
<1>14. s # <<>> /\ Head(s) = Sent(1) /\ Tail(s) = Listed(2) BY <1>7, ListedFacts
<1>15. wire \in Seq(Nat) BY DEF WireInv
<1> HIDE DEF s
<1>16. Walks(encoded, wire, s) BY <1>13 DEF s
<1>17. Walks(Append(encoded, x), wire \o x.units, kids \o Tail(s))
  <2>1. Head(s).type = x.type /\ Head(s).addr = x.addr BY <1>1, <1>8, <1>14
  <2> QED BY <1>1, <1>14, <1>15, <1>16, <2>1, WalksMore
<1>18. kids \o Tail(s) = Listed(2)
  <2>1. Listed(2) \in Seq(Item(world))
    <3>1. 2 \in 1..First BY <1>6
    <3> QED BY <3>1, ListedFacts
  <2>2. <<>> \o Listed(2) = Listed(2) BY <2>1
  <2> QED BY <1>12, <1>14, <2>2
<1>19. Walks(h, u, Listed(2)) BY <1>1, <1>17, <1>18
<1>20. PICK g : g = h OBVIOUS
<1>21. PICK w : w = u OBVIOUS
<1>22. PICK l : l = Listed(2) OBVIOUS
<1>23. Walks(encoded, wire, l)'
  <2>1. Walks(g, w, l) BY <1>19, <1>20, <1>21, <1>22
  <2>2. world' = world /\ encoded' = g /\ wire' = w BY <1>1, <1>20, <1>21
  <2> QED BY <2>1, <2>2, WalksThen
<1>24. First' = First /\ Listed(2)' = Listed(2) BY <1>1, WorldStays
<1>25. Len(h) = 1 /\ h[1] = x BY <1>6
<1>26. Len(encoder'.stack) = 0 /\ DOMAIN encoder'.stack = {}
  <2>1. Len(Tail(encoder.stack)) = 0 /\ Tail(encoder.stack) \in Seq(Item(world)) BY <1>1, <1>6
  <2>2. encoder'.stack = Tail(encoder.stack)
    <3> DEFINE t == Tail(encoder.stack)
    <3>1. t \in Seq(Item(world)) BY <2>1
    <3> HIDE DEF t
    <3>2. <<>> \o t = t BY <3>1
    <3>3. encoder'.stack = <<>> \o Tail(encoder.stack) BY <1>1, <1>11, Zenon
    <3> QED BY <3>2, <3>3 DEF t
  <2> DEFINE t == Tail(encoder.stack)
  <2>3. Len(t) = 0 /\ t \in Seq(Item(world)) BY <2>1
  <2> HIDE DEF t
  <2>4. Len(t) = 0 /\ DOMAIN t = {} BY <2>3
  <2> QED BY <2>2, <2>4 DEF t
<1>27. Early'
  <2>1. Len(encoded') = 1 BY <1>1, <1>25
  <2>2. Len(encoded') + 1 = 2 BY <2>1
  <2>3. Walks(encoded, wire, Listed(Len(encoded) + 1))' BY <1>22, <1>23, <1>24, <2>2
  <2> QED BY <1>1, <1>6, <1>24, <1>26, <2>1, <2>3 DEF Early
<1>28. Numbered(h)
  <2>1. ~(Len(h) >= First) /\ First..Len(h) = {} /\ 1..Len(h) = {1} BY <1>6, <1>25
  <2>2. ~Index(h[1]) BY <1>1, <1>10, <1>25 DEF Index
  <2> HIDE DEF h
  <2> QED BY <2>1, <2>2 DEF Numbered, Rising, Pointing
<1>29. Numbered(g)' BY <1>1, <1>20, <1>28, WorldStays
<1>30. Numbered(encoded)' BY <1>1, <1>20, <1>29
<1> QED BY <1>27, <1>30

\* What was counted stays counted in a longer history.
LEMMA CountedMore ==
  ASSUME First \in {1, 2}, NEW h, NEW g, NEW k \in Nat, NEW m \in Nat, k <= m,
         \A j \in 1..k : g[j] = h[j], NEW a, NEW c, Counted(h, k, a, c)
  PROVE  Counted(g, m, a, c)
<1>1. PICK j \in First..k : h[j].addr = a /\ h[j].count = c /\ <<h[j].type, a>> \in Referred(world)
  BY DEF Counted
<1>2. j \in 1..k /\ j \in First..m BY <1>1
<1>3. g[j] = h[j] BY <1>2
<1> QED BY <1>1, <1>2, <1>3 DEF Counted

LEMMA KeepersPush ==
  ASSUME NEW S, NEW s \in Seq(S), s # <<>>, NEW v \in Seq(S), Keepers(s), Keepers(v)
  PROVE  Keepers(v \o Tail(s))
<1> DEFINE r == v \o Tail(s)
<1>1. \A i \in DOMAIN r :
        \/ i \in DOMAIN v /\ r[i] = v[i]
        \/ /\ i \notin DOMAIN v /\ (i - Len(v)) + 1 \in DOMAIN s /\ (i - Len(v)) + 1 # 1
           /\ r[i] = s[(i - Len(v)) + 1]
  BY Stacked
<1> HIDE DEF r
<1>2. Keepers(r) BY <1>1 DEF Keepers
<1> QED BY <1>2 DEF r

\* The numbers of the walk, with one value more.
LEMMA NumberedMore ==
  ASSUME world \in Worlds, EncoderInv(world, encoder), encoded \in Seq(History(world)),
         Encoding(Kinds), NEW n, NEW units, NEW values, NEW kids, Puts(n, units, values, kids),
         Marks, Numbered(encoded), NEW g, g = encoded'
  PROVE  /\ Len(g) = Len(encoded) + 1 /\ Len(g) >= First
         /\ \A j \in First..Len(g) : g[j].count < encoder.index + n
         /\ \A a \in DOMAIN Remembered(Head(encoder.stack)) :
              Counted(g, Len(g), a, Remembered(Head(encoder.stack))[a])
         /\ Numbered(g)
<1> DEFINE v == Head(encoder.stack)
           x == Entry(v, encoder.index, units)
           N == Len(encoded)
           index == encoder.index
<1>0. Put(v, x, n, units, values, kids) BY PutFacts
<1>1. /\ v \in Item(world) /\ v # AnyEnd /\ v.type \in DOMAIN Types
      /\ encoder.stack \in Seq(Item(world)) /\ encoder.stack # <<>> /\ index \in Nat /\ n \in Nat \ {0}
      /\ x \in History(world)
      /\ x.type = v.type /\ x.addr = v.addr /\ x.count = index /\ x.units = units
      /\ encoded' = Append(encoded, x)
  BY <1>0 DEF Put
<1> HIDE DEF x
<1>2. First \in {1, 2} BY FirstFacts
<1>3. /\ N \in Nat /\ Len(g) = N + 1 /\ g[N + 1] = x
      /\ \A k \in 1..N : g[k] = encoded[k] /\ encoded[k].count \in Nat
  <2> HIDE DEF v
  <2>1. g = Append(encoded, x) BY <1>1
  <2>2. \A k \in 1..N : encoded[k] \in History(world) OBVIOUS
  <2>3. \A k \in 1..N : encoded[k].count \in Nat BY <2>2 DEF History
  <2> QED BY <2>1, <2>3
<1>4. /\ encoder.top = Sent(First).addr /\ N >= First - 1
      /\ N = First - 1 => index = 0 /\ encoder.stack = <<Sent(First)>> /\ encoder.known = <<>>
      /\ \A j \in First..N : encoded[j].count < index
      /\ \A a \in DOMAIN encoder.known : Counted(encoded, N, a, encoder.known[a])
      /\ Keepers(encoder.stack)
  BY DEF Marks
<1>5. (N >= First => OnTop(encoded)) /\ Rising(encoded) /\ Pointing(encoded) BY DEF Numbered
<1> HIDE DEF N, index
<1>6. Len(g) >= First BY <1>2, <1>3, <1>4
<1>7. \A j \in First..Len(g) : (j \in 1..N /\ j \in First..N /\ g[j] = encoded[j]) \/ (j = N + 1 /\ g[j] = x)
  BY <1>2, <1>3
<1>8. \A j \in First..Len(g) : g[j].count < index + n
  <2> TAKE j \in First..Len(g)
  <2>1. CASE j \in 1..N /\ j \in First..N /\ g[j] = encoded[j]
    <3> DEFINE c == encoded[j].count
    <3>1. c < index /\ c \in Nat BY <1>3, <1>4, <2>1
    <3>2. index \in Nat /\ n \in Nat \ {0} BY <1>1
    <3> HIDE DEF c
    <3>3. c < index + n BY <3>1, <3>2
    <3> QED BY <2>1, <3>3 DEF c
  <2>2. CASE j = N + 1 /\ g[j] = x
    <3>1. index \in Nat /\ n \in Nat \ {0} /\ x.count = index BY <1>1
    <3>2. index < index + n BY <3>1
    <3> QED BY <2>2, <3>1, <3>2
  <2> QED BY <1>7, <2>1, <2>2
<1>9. \A a \in DOMAIN Remembered(v) : Counted(g, Len(g), a, Remembered(v)[a])
  <2> TAKE a \in DOMAIN Remembered(v)
  <2>1. \/ a \in DOMAIN encoder.known /\ Remembered(v)[a] = encoder.known[a]
        \/ a = v.addr /\ v.keep /\ Remembered(v)[a] = index
    BY DEF Remembered, Over, Cell, index
  <2>2. CASE a \in DOMAIN encoder.known /\ Remembered(v)[a] = encoder.known[a]
    <3>1. Counted(encoded, N, a, Remembered(v)[a]) BY <1>4, <2>2
    <3> DEFINE c == Remembered(v)[a]
               m == Len(g)
    <3>2. m \in Nat /\ N \in Nat /\ N <= m /\ \A j \in 1..N : g[j] = encoded[j] BY <1>3
    <3>3. Counted(encoded, N, a, c) BY <3>1
    <3> HIDE DEF c, m
    <3>4. Counted(g, m, a, c) BY <1>2, <3>2, <3>3, CountedMore
    <3> QED BY <3>4 DEF c, m
  <2>3. CASE a = v.addr /\ v.keep /\ Remembered(v)[a] = index
    <3>1. 1 \in DOMAIN encoder.stack /\ v = encoder.stack[1] BY <1>1
    <3>2. <<v.type, v.addr>> \in Referred(world) BY <1>4, <2>3, <3>1 DEF Keepers
    <3>3. Len(g) \in First..Len(g) /\ g[Len(g)] = x BY <1>2, <1>3, <1>6
    <3> QED BY <1>1, <2>3, <3>2, <3>3 DEF Counted
  <2> QED BY <2>1, <2>2, <2>3
<1>10. OnTop(g)
  <2>1. CASE N >= First
    <3>1. First \in 1..N BY <1>2, <1>3, <2>1
    <3>2. g[First] = encoded[First] BY <1>3, <3>1
    <3> QED BY <1>5, <2>1, <3>2 DEF OnTop
  <2>2. CASE ~(N >= First)
    <3>1. N = First - 1 BY <1>2, <1>3, <1>4, <2>2
    <3>2. index = 0 /\ v = Sent(First)
      <4>1. encoder.stack = <<Sent(First)>> /\ index = 0 BY <1>4, <3>1
      <4> QED BY <4>1
    <3>3. g[First] = x BY <1>2, <1>3, <3>1
    <3> QED BY <1>1, <3>2, <3>3 DEF OnTop
  <2> QED BY <2>1, <2>2
<1>11. Rising(g)
  <2>1. \A i, j \in First..Len(g) : i < j => g[i].count < g[j].count
    <3> TAKE i, j \in First..Len(g)
    <3> HAVE i < j
    <3>1. i \in First..N /\ g[i] = encoded[i] /\ i \in 1..N BY <1>2, <1>3
    <3>2. CASE j \in 1..N /\ j \in First..N /\ g[j] = encoded[j]
      <4>1. Rising(encoded) /\ j \in First..Len(encoded) /\ i \in First..Len(encoded) BY <1>5, <3>1, <3>2 DEF N
      <4>2. encoded[i].count < encoded[j].count BY <4>1 DEF Rising
      <4> QED BY <3>1, <3>2, <4>2
    <3>3. CASE j = N + 1 /\ g[j] = x
      <4>1. encoded[i].count < index BY <1>4, <3>1
      <4> QED BY <1>1, <3>1, <3>3, <4>1
    <3> QED BY <1>7, <3>2, <3>3
  <2> QED BY <2>1 DEF Rising
<1>12. Pointing(g)
  <2>1. ASSUME NEW k \in 1..Len(g), Index(g[k])
        PROVE  Counted(g, k, world.memory[g[k].addr], g[k].units[2])
    <3>1. CASE k \in 1..N
      <4>1. g[k] = encoded[k] /\ k \in 1..Len(encoded) BY <1>3, <3>1 DEF N
      <4> DEFINE a == world.memory[g[k].addr]
                 c == g[k].units[2]
      <4>2. Counted(encoded, k, a, c) BY <1>5, <2>1, <4>1 DEF Pointing
      <4>3. \A j \in 1..k : g[j] = encoded[j] BY <1>3, <3>1
      <4>4. k \in Nat /\ k <= k OBVIOUS
      <4> HIDE DEF a, c
      <4>5. Counted(g, k, a, c) BY <1>2, <4>2, <4>3, <4>4, CountedMore
      <4> QED BY <4>5 DEF a, c
    <3>2. CASE k = N + 1
      <4> DEFINE target == world.memory[v.addr]
      <4>1. g[k] = x /\ k = Len(g) BY <1>3, <3>2
      <4>2. Indexing(v, units) BY DEF Puts
      <4>3. Seen(v, target) /\ units[2] = CountOf(v, target) BY <1>1, <2>1, <4>1, <4>2 DEF Indexing, Index
      <4>4. CASE target = encoder.top
        <5>1. units[2] = 0 BY <4>3, <4>4 DEF CountOf
        <5>2. /\ g[First].count = 0 /\ g[First].type = Sent(First).type /\ g[First].addr = Sent(First).addr
          BY <1>10 DEF OnTop
        <5>3. First \in 1..First /\ First \in First..Len(g) BY <1>2, <1>3, <1>6
        <5>4. <<Sent(First).type, Sent(First).addr>> \in Referred(world) BY <5>3, FirstFacts
        <5>5. target = Sent(First).addr BY <1>4, <4>4
        <5> HIDE DEF target
        <5>6. Counted(g, Len(g), target, 0) BY <5>2, <5>3, <5>4, <5>5 DEF Counted
        <5> QED BY <1>1, <4>1, <5>1, <5>6 DEF target
      <4>5. CASE target # encoder.top
        <5>1. target \in DOMAIN Remembered(v) /\ units[2] = Remembered(v)[target] BY <4>3, <4>5 DEF Seen, CountOf
        <5> HIDE DEF target
        <5>2. Counted(g, Len(g), target, units[2]) BY <1>9, <5>1
        <5> QED BY <1>1, <4>1, <5>2 DEF target
      <4> QED BY <4>4, <4>5
    <3> QED BY <1>3, <3>1, <3>2
  <2> QED BY <2>1 DEF Pointing
<1>13. Numbered(g) BY <1>10, <1>11, <1>12 DEF Numbered
<1> QED BY <1>3, <1>6, <1>8, <1>9, <1>13 DEF N, index

LEMMA PutLate ==
  ASSUME world \in Worlds, EncoderInv(world, encoder), WireInv(wire, Room), encoded \in Seq(History(world)),
         Encoding(Kinds), NEW n, NEW units, NEW values, NEW kids, Puts(n, units, values, kids),
         Late, Numbered(encoded)
  PROVE  Late' /\ Numbered(encoded)'
<1> DEFINE v == Head(encoder.stack)
           x == Entry(v, encoder.index, units)
<1>0. Put(v, x, n, units, values, kids) BY PutFacts
<1>1. /\ v \in Item(world) /\ v # AnyEnd
      /\ encoder.stack \in Seq(Item(world)) /\ encoder.stack # <<>> /\ encoder.index \in Nat
      /\ units \in Seq(Nat) /\ values \in Seq(Item(world)) /\ kids \in Seq(Item(world))
      /\ x \in History(world)
      /\ x.type = v.type /\ x.addr = v.addr /\ x.units = units
      /\ Writes(world, x.type, x.addr, x.units, kids)
      /\ world' = world /\ wire' = wire \o units /\ encoded' = Append(encoded, x)
      /\ encoder'.stack = values \o Tail(encoder.stack) /\ encoder'.index = encoder.index + n
      /\ encoder'.known = Remembered(v) /\ encoder'.top = encoder.top /\ encoder'.turn = encoder.turn
  BY <1>0 DEF Put
<1> HIDE DEF x
<1>2. encoder.turn = First + 1 /\ Marks /\ Ahead1 BY DEF Late
<1>3. PICK g : g = encoded' OBVIOUS
<1>4. /\ Len(g) = Len(encoded) + 1 /\ Len(g) >= First
      /\ \A j \in First..Len(g) : g[j].count < encoder.index + n
      /\ \A a \in DOMAIN Remembered(v) : Counted(g, Len(g), a, Remembered(v)[a])
      /\ Numbered(g)
  BY <1>2, <1>3, NumberedMore
<1>5. PICK s : Sheds(Item(world), encoder.stack, s) /\ Walks(encoded, wire, s) BY <1>2 DEF Ahead1
<1>6. Sheds(Item(world), values, kids) /\ Keepers(values) BY DEF Puts
<1>7. /\ Sheds(Item(world), values \o Tail(encoder.stack), kids \o Tail(s)) /\ s # <<>> /\ Head(s) = v
  BY <1>1, <1>5, <1>6, ShedsPush
<1>8. Walks(Append(encoded, x), wire \o x.units, kids \o Tail(s))
  <2>1. Head(s).type = x.type /\ Head(s).addr = x.addr BY <1>1, <1>7
  <2>2. wire \in Seq(Nat) BY DEF WireInv
  <2> HIDE DEF v
  <2> QED BY <1>1, <1>5, <1>7, <2>1, <2>2, WalksMore
<1>9. PICK w : w = wire' OBVIOUS
<1>10. PICK r : r = kids \o Tail(s) OBVIOUS
<1>11. Walks(g, w, r) BY <1>1, <1>3, <1>8, <1>9, <1>10
<1>12. Walks(encoded, wire, r)' BY <1>1, <1>3, <1>9, <1>11, WalksThen
<1>13. PICK stack : stack = encoder'.stack OBVIOUS
<1>14. Sheds(Item(world), stack, r) BY <1>1, <1>7, <1>10, <1>13
<1>15. Sheds(Item(world), encoder.stack, r)' BY <1>1, <1>13, <1>14
<1>16. Ahead1' BY <1>12, <1>15 DEF Ahead1
<1>17. PICK known : known = Remembered(v) OBVIOUS
<1>18. \A a \in DOMAIN known : Counted(g, Len(g), a, known[a]) BY <1>4, <1>17
<1>19. \A a \in DOMAIN known : Counted(g, Len(g), a, known[a])'
  BY <1>1, <1>18, WorldStays
<1>20. Keepers(stack)
  <2>1. Keepers(encoder.stack) BY <1>2 DEF Marks
  <2> QED BY <1>1, <1>6, <1>13, <2>1, KeepersPush
<1>21. Keepers(stack)' BY <1>1, <1>20, WorldStays
<1>22. First' = First /\ First \in {1, 2} /\ Sent(First)' = Sent(First) BY <1>1, FirstFacts, WorldStays
<1>23. encoder.top = Sent(First).addr /\ Len(encoded) \in Nat BY <1>2 DEF Marks
<1>24. Marks'
  <2>1. encoder'.top = Sent(First)'.addr BY <1>1, <1>22, <1>23
  <2>2. Len(encoded') >= First' - 1 /\ Len(encoded') # First' - 1 BY <1>3, <1>4, <1>22, <1>23
  <2>3. \A j \in First'..Len(encoded') : encoded'[j].count < encoder'.index BY <1>1, <1>3, <1>4, <1>22
  <2>4. \A a \in DOMAIN encoder'.known : Counted(encoded, Len(encoded), a, encoder.known[a])'
    BY <1>1, <1>3, <1>17, <1>19
  <2>5. Keepers(encoder.stack)' BY <1>13, <1>21
  <2> QED BY <2>1, <2>2, <2>3, <2>4, <2>5 DEF Marks
<1>25. encoder'.turn = First' + 1 BY <1>1, <1>2, <1>22
<1>26. Numbered(g)' BY <1>1, <1>4, WorldStays
<1>27. Numbered(encoded)' BY <1>3, <1>26
<1> QED BY <1>16, <1>24, <1>25, <1>27 DEF Late

\* Every step of the encoder keeps the walk, once nothing was given up.
LEMMA EncodeStaged ==
  ASSUME TypesInv, phase = "encode", encoded \in Seq(History(world)), Encode, Complete', Complete => Staged
  PROVE  \/ phase' = "encode" /\ Staged'
         \/ phase' = "deliver" /\ Whole'
<1>1. world \in Worlds /\ EncoderInv(world, encoder) BY DEF TypesInv
<1>2. WireInv(wire, Room) BY DEF TypesInv
<1>3. Complete /\ encoder.ok /\ (EncodeStart \/ EncodeAnyEnd \/ EncodeEnd \/ (Putting /\ Encoding(Kinds)))
  BY <1>1, PutForm
<1>4. Staged BY <1>3
<1>5. CASE EncodeStart
  <2>1. phase' = "encode" BY <1>5 DEF EncodeStart
  <2> QED BY <1>1, <1>4, <1>5, <2>1, StartStaged
<1>6. CASE EncodeAnyEnd
  <2>1. phase' = "encode" BY <1>6 DEF EncodeAnyEnd
  <2> QED BY <1>1, <1>4, <1>6, <2>1, AnyEndStaged
<1>7. CASE EncodeEnd
  <2>1. phase' = "deliver" BY <1>7 DEF EncodeEnd
  <2> QED BY <1>1, <1>3, <1>4, <1>7, <2>1, EndWhole
<1>8. CASE Putting /\ Encoding(Kinds)
  <2>1. PICK n, units, values, kids : Puts(n, units, values, kids) BY <1>8 DEF Putting
  <2>2. phase' = "encode" BY <2>1 DEF Puts, Good, Encodes
  <2>3. Numbered(encoded) /\ (Early \/ Late) BY <1>4 DEF Staged
  <2>4. CASE Early
    <3>1. Early' /\ Numbered(encoded)' BY <1>1, <1>2, <1>8, <2>1, <2>3, <2>4, PutEarly
    <3> QED BY <2>2, <3>1 DEF Staged
  <2>5. CASE Late
    <3>1. Late' /\ Numbered(encoded)' BY <1>1, <1>2, <1>8, <2>1, <2>3, <2>5, PutLate
    <3> QED BY <2>2, <3>1 DEF Staged
  <2> QED BY <2>3, <2>4, <2>5
<1> QED BY <1>3, <1>5, <1>6, <1>7, <1>8

\* What was encoded, once nothing was given up and nothing else wrote the wire.
WholeInv ==
  Complete => /\ phase = "encode" => Staged
              /\ phase = "deliver" => Whole
              /\ phase \in {"verify", "decode", "done"} /\ ~foreign => Whole

LEMMA WholeInit == Init => WholeInv
<1>1. Init => phase = "encode" BY DEF Init
<1> QED BY <1>1, StagedInit DEF WholeInv

LEMMA WholeThen ==
  ASSUME Whole, UNCHANGED <<world, wire, encoded>>
  PROVE  Whole'
<1>1. PICK l : l = <<>> OBVIOUS
<1>2. PICK h : h = encoded OBVIOUS
<1>3. PICK u : u = wire OBVIOUS
<1>4. Walks(h, u, l) BY <1>1, <1>2, <1>3 DEF Whole
<1>5. Walks(encoded, wire, l)' BY <1>2, <1>3, <1>4, WalksThen
<1>6. Numbered(h)' BY <1>2, WorldStays DEF Whole
<1>7. First' = First BY WorldStays
<1> QED BY <1>1, <1>2, <1>5, <1>6, <1>7 DEF Whole

LEMMA StagedThen ==
  ASSUME Staged, UNCHANGED <<world, wire, encoded, encoder>>
  PROVE  Staged'
<1>1. PICK h : h = encoded OBVIOUS
<1>2. PICK u : u = wire OBVIOUS
<1>3. PICK e : e = encoder OBVIOUS
<1>4. /\ First' = First /\ \A i : Sent(i)' = Sent(i) /\ Listed(i)' = Listed(i)
      /\ \A k, a, c : Counted(h, k, a, c)' <=> Counted(h, k, a, c)
      /\ Keepers(e.stack)' <=> Keepers(e.stack)
  BY WorldStays
<1>5. Numbered(h)' BY <1>1, WorldStays DEF Staged
<1>6. Numbered(encoded)' BY <1>1, <1>5
<1>7. CASE Early
  <2>1. PICK k : k = Len(h) + 1 OBVIOUS
  <2>2. PICK l : l = Listed(k) OBVIOUS
  <2>3. Walks(h, u, l) BY <1>1, <1>2, <1>7, <2>1, <2>2 DEF Early
  <2>4. Walks(encoded, wire, l)' BY <1>1, <1>2, <2>3, WalksThen
  <2>5. l = Listed(k)' /\ k = (Len(encoded) + 1)' BY <1>1, <1>4, <2>1, <2>2
  <2>6. Walks(encoded, wire, Listed(Len(encoded) + 1))' BY <2>4, <2>5
  <2>7. Early' BY <1>4, <1>7, <2>6 DEF Early
  <2> QED BY <1>6, <2>7 DEF Staged
<1>8. CASE Late
  <2>1. PICK s : Sheds(Item(world), encoder.stack, s) /\ Walks(h, u, s) BY <1>1, <1>2, <1>8 DEF Late, Ahead1
  <2>2. Walks(encoded, wire, s)' BY <1>1, <1>2, <2>1, WalksThen
  <2>3. Sheds(Item(world), encoder.stack, s)' BY <2>1
  <2>4. Ahead1' BY <2>2, <2>3 DEF Ahead1
  <2>5. Keepers(encoder.stack)' BY <1>3, <1>4, <1>8 DEF Late, Marks
  <2>6. \A a \in DOMAIN e.known : Counted(h, Len(h), a, e.known[a])' BY <1>1, <1>3, <1>4, <1>8 DEF Late, Marks
  <2>7. Marks' BY <1>1, <1>3, <1>4, <1>8, <2>5, <2>6 DEF Late, Marks
  <2>8. encoder'.turn = First' + 1 BY <1>4, <1>8 DEF Late
  <2> QED BY <1>6, <2>4, <2>7, <2>8 DEF Staged, Late
<1> QED BY <1>7, <1>8 DEF Staged

LEMMA WholeStep ==
  ASSUME TypesInv, TypesInv', EncodedInv, WholeInv, [Next]_vars
  PROVE  WholeInv'
<1> SUFFICES ASSUME Complete' PROVE /\ phase' = "encode" => Staged'
                                    /\ phase' = "deliver" => Whole'
                                    /\ phase' \in {"verify", "decode", "done"} /\ ~foreign' => Whole'
  BY DEF WholeInv
<1>1. encoded \in Seq(History(world)) BY DEF EncodedInv
<1>2. CASE Encode
  <2>1. phase = "encode"
    BY <1>2 DEF Encode, EncodeStart, EncodeScalar, EncodeTuple, EncodeArray, EncodeStruct, EncodePtr, EncodeAny,
                EncodeAnyEnd, EncodeUnion, EncodeFail, EncodeEnd, Encoding
  <2>2. Complete => Staged BY <2>1 DEF WholeInv
  <2> QED BY <1>1, <1>2, <2>1, <2>2, EncodeStaged
<1>3. CASE Deliver
  <2>1. /\ phase = "deliver" /\ phase' = "verify" /\ world' = world /\ encoded' = encoded /\ encoder' = encoder
        /\ ~foreign' => wire' = wire
    BY <1>3 DEF Deliver
  <2>2. Complete BY <2>1 DEF Complete
  <2>3. Whole BY <2>1, <2>2 DEF WholeInv
  <2>4. ~foreign' => Whole' BY <2>1, <2>3, WholeThen
  <2> QED BY <2>1, <2>4
<1>4. CASE Verify \/ Decode \/ UNCHANGED vars
  <2>1. /\ UNCHANGED <<world, wire, encoded, encoder, foreign>>
        /\ \/ phase' = phase
           \/ phase \in {"verify", "decode"} /\ phase' \in {"decode", "done"}
    <3>1. CASE Verify
      <4>1. VerifyStep \/ VerifyEnd BY <3>1, VerifyForm DEF TypesInv
      <4>2. phase = "verify" BY <4>1 DEF VerifyStep, VerifyEnd
      <4>3. UNCHANGED <<world, wire, encoded, encoder, foreign>> /\ phase' \in {"verify", "decode"}
        BY <4>1, <4>2 DEF VerifyStep, VerifyEnd, Advances, Verified
      <4> QED BY <4>2, <4>3
    <3>2. CASE Decode
      <4>1. phase = "decode" /\ UNCHANGED <<world, wire, foreign, encoder, verifier, encoded>> BY <3>2, DecodeFrame
      <4>2. DecodeStart \/ DecodeArguments \/ DecodeEnd \/ GotValue BY <3>2, GotForm DEF TypesInv
      <4>3. phase' \in {"decode", "done"}
        <5>1. CASE DecodeStart BY <4>1, <5>1 DEF DecodeStart
        <5>2. CASE DecodeArguments BY <4>1, <5>2 DEF DecodeArguments
        <5>3. CASE DecodeEnd BY <5>3 DEF DecodeEnd
        <5>4. CASE GotValue
          <6>1. ASSUME DecodeFails PROVE phase' \in {"decode", "done"} BY <4>1, <6>1 DEF DecodeFails
          <6>2. ASSUME NEW n, NEW skip, NEW cells, NEW values, Stores(n, skip, cells, values)
                PROVE  phase' \in {"decode", "done"}
            BY <4>1, <6>2 DEF Stores
          <6> HIDE DEF DecodeFails, Stores
          <6> QED BY <5>4, <6>1, <6>2
                  DEF GotValue, GotScalar, GotTuple, GotArray, GotStruct, GotPtr, GotAny, GotUnion
        <5> QED BY <4>2, <5>1, <5>2, <5>3, <5>4
      <4> QED BY <4>1, <4>3
    <3>3. CASE UNCHANGED vars BY <3>3 DEF vars
    <3> QED BY <1>4, <3>1, <3>2, <3>3
  <2>2. Complete BY <2>1 DEF Complete
  <2>3. Whole => Whole' BY <2>1, WholeThen
  <2>4. CASE phase' = phase
    <3>1. phase = "encode" => Staged'
      <4> SUFFICES ASSUME phase = "encode" PROVE Staged' OBVIOUS
      <4>1. UNCHANGED vars
        <5>1. Verify => phase = "verify" BY VerifyForm DEF TypesInv, VerifyStep, VerifyEnd
        <5>2. Decode => phase = "decode" BY DecodeFrame
        <5> QED BY <1>4, <5>1, <5>2
      <4>2. Staged BY <2>2 DEF WholeInv
      <4>3. Staged' BY <4>1, <4>2, StagedThen DEF vars
      <4> QED BY <4>3
    <3> QED BY <2>1, <2>2, <2>3, <2>4, <3>1 DEF WholeInv
  <2>5. CASE phase \in {"verify", "decode"} /\ phase' \in {"decode", "done"}
    BY <2>1, <2>2, <2>3, <2>5 DEF WholeInv
  <2> QED BY <2>1, <2>4, <2>5
<1> QED BY <1>2, <1>3, <1>4 DEF Next

-----------------------------------------------------------------------------
(* What the receiver has of a value x that was sent, at its own address b: *)
(* the units, and a pair in M for each value that x leads to.              *)

AgreesRow(w, m, M, t, a, b, n) ==
  LET e == Types[t].elem
  IN  \A i \in 0..n - 1 :
        IF IsScalar(e) THEN At(b, i) \in DOMAIN m /\ w.memory[At(a, i)] = m[At(b, i)]
        ELSE <<e, At(a, i * Types[e].size), At(b, i * Types[e].size)>> \in M

AgreesPtr(w, m, M, x, b) ==
  LET sent == w.memory[x.addr]
  IN  \/ sent = Nil /\ m[b] = Nil
      \/ sent # Nil /\ m[b] # Nil /\ <<Types[x.type].elem, sent, m[b]>> \in M
      \/ sent # Nil /\ x.units[1] = PtrIndex

Agrees(w, m, M, x, b) ==
  LET t == x.type
      kind == Types[t].kind
      sent == w.memory[x.addr]
  IN  /\ kind \in {"scalar", "string", "tuple", "ptr", "any", "union"} => b \in DOMAIN m
      /\ kind \notin {"dict", "iface"}
      /\ kind = "scalar" => sent = m[b]
      /\ kind \in {"string", "tuple"} => sent.len = m[b].len /\ AgreesRow(w, m, M, t, sent.data, m[b].data, sent.len)
      /\ kind = "array" => AgreesRow(w, m, M, t, x.addr, b, Types[t].size)
      /\ kind = "struct" =>
           \A i \in DOMAIN Types[t].fields :
             <<Types[t].fields[i], At(x.addr, Types[t].offsets[i]), At(b, Types[t].offsets[i])>> \in M
      /\ kind = "ptr" => AgreesPtr(w, m, M, x, b)
      /\ kind \in {"any", "union"} => sent.type = m[b].type /\ <<sent.type, sent.data, m[b].data>> \in M

\* More is stored, and more values are paired.
LEMMA AgreesMore ==
  ASSUME NEW w, NEW m, NEW o, \A c \in DOMAIN m : c \in DOMAIN o /\ o[c] = m[c],
         NEW M, NEW O, M \subseteq O, NEW x, NEW b, Agrees(w, m, M, x, b)
  PROVE  Agrees(w, o, O, x, b)
<1>1. \A t, a, d, n : AgreesRow(w, m, M, t, a, d, n) => AgreesRow(w, o, O, t, a, d, n)
  BY DEF AgreesRow
<1>2. Types[x.type].kind \in {"scalar", "string", "tuple", "ptr", "any", "union"} =>
        b \in DOMAIN m /\ b \in DOMAIN o /\ o[b] = m[b]
  BY DEF Agrees
<1>3. Types[x.type].kind = "ptr" => AgreesPtr(w, o, O, x, b)
  BY <1>2 DEF Agrees, AgreesPtr
<1> QED BY <1>1, <1>2, <1>3 DEF Agrees

\* The values left to send and those left to receive.
Alike(s, v) == Len(s) = Len(v) /\ \A i \in 1..Len(v) : s[i].type = v[i].type
Paired(s, v) == {<<s[i].type, s[i].addr, v[i].addr>> : i \in 1..Len(v)}

LEMMA AlikePush ==
  ASSUME NEW S, NEW T, NEW s \in Seq(S), NEW v \in Seq(T), s # <<>>, v # <<>>, Alike(s, v),
         NEW ks \in Seq(S), NEW kv \in Seq(T), Alike(ks, kv)
  PROVE  /\ Alike(ks \o Tail(s), kv \o Tail(v))
         /\ Paired(ks, kv) \subseteq Paired(ks \o Tail(s), kv \o Tail(v))
         /\ \A p \in Paired(s, v) : \/ p = <<Head(s).type, Head(s).addr, Head(v).addr>>
                                    \/ p \in Paired(ks \o Tail(s), kv \o Tail(v))
         /\ Head(s).type = Head(v).type
<1> DEFINE rs == ks \o Tail(s)
           rv == kv \o Tail(v)
           n == Len(kv)
           m == Len(v)
<1>1. /\ Head(s) = s[1] /\ Len(s) \in Nat /\ Len(ks) \in Nat /\ Len(rs) = Len(ks) + Len(s) - 1 /\ Len(s) >= 1
      /\ \A i \in 1..Len(ks) : rs[i] = ks[i]
      /\ \A i \in 1..(Len(s) - 1) : rs[Len(ks) + i] = s[i + 1]
  BY PushFacts
<1>2. /\ Head(v) = v[1] /\ m \in Nat /\ n \in Nat /\ Len(rv) = n + m - 1 /\ m >= 1
      /\ \A i \in 1..n : rv[i] = kv[i]
      /\ \A i \in 1..(m - 1) : rv[n + i] = v[i + 1]
  BY PushFacts
<1>3. Len(s) = m /\ Len(ks) = n /\ (\A i \in 1..m : s[i].type = v[i].type) /\ (\A i \in 1..n : ks[i].type = kv[i].type)
  BY DEF Alike
<1> HIDE DEF rs, rv, n, m
<1>4. Len(rs) = Len(rv) BY <1>1, <1>2, <1>3
<1>5. \A i \in 1..Len(rv) : i \in 1..n \/ (i - n \in 1..(m - 1) /\ i = n + (i - n)) BY <1>2
<1>6. \A i \in 1..(m - 1) : rs[n + i] = s[i + 1] /\ rv[n + i] = v[i + 1] /\ i + 1 \in 1..m
  BY <1>1, <1>2, <1>3
<1>7. \A i \in 1..n : rs[i] = ks[i] /\ rv[i] = kv[i] /\ i \in 1..Len(rv)
  BY <1>1, <1>2, <1>3
<1>8. \A i \in 1..Len(rv) : rs[i].type = rv[i].type
  <2> TAKE i \in 1..Len(rv)
  <2>1. CASE i \in 1..n BY <1>3, <1>7, <2>1
  <2>2. CASE i - n \in 1..(m - 1) /\ i = n + (i - n)
    <3> DEFINE j == i - n
    <3>1. j \in 1..(m - 1) /\ i = n + j BY <2>2
    <3> HIDE DEF j
    <3> QED BY <1>3, <1>6, <3>1
  <2> QED BY <1>5, <2>1, <2>2
<1>9. Alike(rs, rv) BY <1>4, <1>8 DEF Alike
<1>10. Paired(ks, kv) \subseteq Paired(rs, rv)
  <2> SUFFICES ASSUME NEW i \in 1..n PROVE <<ks[i].type, ks[i].addr, kv[i].addr>> \in Paired(rs, rv)
    BY DEF Paired, n
  <2> QED BY <1>7 DEF Paired
<1>11. \A i \in 1..m : i = 1 \/ (i - 1 \in 1..(m - 1) /\ n + (i - 1) \in 1..Len(rv)) BY <1>2
<1>12. ASSUME NEW p \in Paired(s, v)
       PROVE  p = <<Head(s).type, Head(s).addr, Head(v).addr>> \/ p \in Paired(rs, rv)
  <2>1. PICK i \in 1..m : p = <<s[i].type, s[i].addr, v[i].addr>> BY DEF Paired, m
  <2>2. CASE i = 1 BY <1>1, <1>2, <2>1, <2>2
  <2>3. CASE i - 1 \in 1..(m - 1) /\ n + (i - 1) \in 1..Len(rv)
    <3> DEFINE j == i - 1
    <3>1. j \in 1..(m - 1) /\ n + j \in 1..Len(rv) /\ i = j + 1 BY <1>2, <2>3
    <3> HIDE DEF j
    <3>2. p = <<rs[n + j].type, rs[n + j].addr, rv[n + j].addr>> BY <1>6, <2>1, <3>1
    <3> QED BY <3>1, <3>2 DEF Paired
  <2> QED BY <1>11, <2>2, <2>3
<1>13. Head(s).type = Head(v).type
  <2>1. 1 \in 1..m BY <1>2
  <2> QED BY <1>1, <1>2, <1>3, <2>1
<1> QED BY <1>9, <1>10, <1>12, <1>13 DEF rs, rv

\* A pointer that was sent as an index has what the table has.
Looked(x, m, b) ==
  Index(x) => m[b] = IF x.units[2] \in DOMAIN Indexed THEN Indexed[x.units[2]] ELSE Junk

\* The value on top is received: x, which led to values kids.
Received(w, x, kids, n, skip, cells, values) ==
  /\ n \in Nat /\ skip \in Nat /\ values \in Seq(DItem) /\ Ahead(n)
  /\ Stores(n, skip, cells, values) /\ n = Len(x.units)
  /\ DType.kind \in {"any", "union"} => skip >= 1
  /\ Alike(kids, values)
  /\ Agrees(w, Over(cells, memory), Paired(kids, values), x, DTop.addr)
  /\ Looked(x, Over(cells, memory), DTop.addr)

Receives(w, x, kids) ==
  \E n, skip, cells, values : Received(w, x, kids, n, skip, cells, values)

\* It is not, for an index that the decoder has not reached.
Refuses(x) == Index(x) /\ ~(x.units[2] < decoder.next + 1) /\ DecodeFails

\* What the decoder reads is what was sent.
Sending(w, x, kids) ==
  /\ DecoderInv(decoder, wire) /\ WireInv(wire, Room + 1) /\ decoder.stack # <<>>
  /\ x.units \in Seq(Nat) /\ DTop.type = x.type /\ DTop.addr[1] < decoder.blocks
  /\ Reads(wire, decoder.pos, x.units) /\ Writes(w, x.type, x.addr, x.units, kids)

LEMMA SendingFacts ==
  ASSUME NEW w, NEW x, NEW kids, Sending(w, x, kids)
  PROVE  /\ DTop \in DItem /\ DTop.type \in DOMAIN Types /\ DTop.addr \in DAddress /\ DType = Types[x.type]
         /\ x.type \in DOMAIN Types /\ decoder.pos \in Nat /\ Len(wire) \in Nat /\ Block \in DAddress
         /\ Len(x.units) \in Nat /\ Ahead(Len(x.units))
         /\ \A i \in 1..Len(x.units) : Unit(i) = x.units[i]
<1>1. decoder.stack \in Seq(DItem) /\ decoder.pos \in Nat /\ decoder.blocks \in Nat /\ decoder.stack # <<>>
  BY DEF Sending, DecoderInv, DecoderType
<1>2. DTop \in DItem BY <1>1, PushFacts DEF DTop
<1>3. /\ DTop.type = x.type /\ x.units \in Seq(Nat) /\ wire \in Seq(Nat) /\ Reads(wire, decoder.pos, x.units)
  BY DEF Sending, WireInv
<1>4. Len(wire) \in Nat /\ Len(x.units) \in Nat BY <1>3
<1>5. Ahead(Len(x.units)) /\ \A i \in 1..Len(x.units) : Unit(i) = x.units[i]
  BY <1>3 DEF Reads, Ahead, Unit
<1>6. Block \in DAddress BY <1>1 DEF Block, DAddress
<1> QED BY <1>1, <1>2, <1>3, <1>4, <1>5, <1>6 DEF DItem, DType

LEMMA OverFacts ==
  ASSUME NEW f, NEW g
  PROVE  /\ \A a \in DOMAIN f : a \in DOMAIN Over(f, g) /\ Over(f, g)[a] = f[a]
         /\ \A a, x : a \in DOMAIN Cell(a, x) /\ Cell(a, x)[a] = x /\ DOMAIN Cell(a, x) = {a}
BY DEF Over, Cell

LEMMA NoneAlike == Alike(<<>>, <<>>) /\ <<>> \in Seq(DItem)
BY DEF Alike

LEMMA ScalarReceived ==
  ASSUME NEW w, NEW x, NEW kids, Sending(w, x, kids), DType.kind = "scalar", GotScalar
  PROVE  Receives(w, x, kids)
<1> DEFINE b == DTop.addr
           cells == Cell(b, Unit(1))
           none == <<>>
           m == Over(cells, memory)
<1>1. /\ DType = Types[x.type] /\ Len(x.units) \in Nat /\ Ahead(Len(x.units))
      /\ \A i \in 1..Len(x.units) : Unit(i) = x.units[i]
  BY SendingFacts
<1>2. Len(x.units) = 1 /\ x.units[1] = w.memory[x.addr] /\ kids = <<>> BY <1>1 DEF Sending, Writes
<1>3. Ahead(1) /\ Unit(1) = w.memory[x.addr] BY <1>1, <1>2
<1>4. Stores(1, 0, cells, none) BY <1>3 DEF GotScalar
<1>5. b \in DOMAIN m /\ m[b] = Unit(1)
  <2>1. b \in DOMAIN cells /\ cells[b] = Unit(1) BY OverFacts
  <2> HIDE DEF cells
  <2> QED BY <2>1, OverFacts
<1>6. ~Index(x) BY <1>1 DEF Index
<1>7. Alike(kids, none) /\ none \in Seq(DItem) BY <1>2, NoneAlike
<1> HIDE DEF m, none, cells
<1>8. Agrees(w, m, Paired(kids, none), x, b) BY <1>1, <1>3, <1>5 DEF Agrees
<1>9. Looked(x, m, b) BY <1>6 DEF Looked
<1>10. Received(w, x, kids, 1, 0, cells, none)
  BY <1>1, <1>2, <1>3, <1>4, <1>7, <1>8, <1>9 DEF Received, m
<1> QED BY <1>10 DEF Receives

\* The elements of a tuple or an array at a, received at b.
LEMMA ElementsAlike ==
  ASSUME NEW t \in DOMAIN Types, Types[t].elem \in DOMAIN Types, ~IsScalar(Types[t].elem), NEW a, NEW b, NEW n \in Nat,
         NEW w, NEW m
  PROVE  /\ Alike(Elements(t, a, n), Elements(t, b, n))
         /\ AgreesRow(w, m, Paired(Elements(t, a, n), Elements(t, b, n)), t, a, b, n)
<1> DEFINE s == Elements(t, a, n)
           v == Elements(t, b, n)
           e == Types[t].elem
           z == Types[e].size
<1>1. /\ Len(s) = n /\ \A i \in 1..n : s[i] = Value(e, At(a, (i - 1) * z), FALSE)
  BY DEF Elements
<1>2. /\ Len(v) = n /\ \A i \in 1..n : v[i] = Value(e, At(b, (i - 1) * z), FALSE)
  BY DEF Elements
<1> HIDE DEF s, v
<1>3. \A i \in 1..n : s[i].type = e /\ s[i].addr = At(a, (i - 1) * z) /\ v[i].type = e /\ v[i].addr = At(b, (i - 1) * z)
  BY <1>1, <1>2 DEF Value
<1>4. Alike(s, v) BY <1>1, <1>2, <1>3 DEF Alike
<1>5. \A i \in 0..n - 1 : <<e, At(a, i * z), At(b, i * z)>> \in Paired(s, v)
  <2> TAKE i \in 0..n - 1
  <2>1. i + 1 \in 1..Len(v) /\ i + 1 \in 1..n BY <1>2
  <2> DEFINE j == i + 1
  <2>2. (j - 1) * z = i * z
    <3>1. j - 1 = i OBVIOUS
    <3> HIDE DEF j
    <3> QED BY <3>1
  <2>3. j \in 1..Len(v) /\ j \in 1..n BY <2>1
  <2> HIDE DEF j
  <2>4. s[j].type = e /\ s[j].addr = At(a, i * z) /\ v[j].addr = At(b, i * z) BY <1>3, <2>2, <2>3
  <2> QED BY <2>3, <2>4 DEF Paired
<1>6. AgreesRow(w, m, Paired(s, v), t, a, b, n) BY <1>5 DEF AgreesRow
<1> QED BY <1>4, <1>6 DEF s, v

\* Scalars that are copied to address b.
LEMMA CopiedFacts ==
  ASSUME NEW b \in DAddress, NEW n \in Nat, NEW len \in Nat, decoder.pos \in Nat
  PROVE  \A i \in 0..len - 1 : /\ At(b, i) \in DOMAIN Copied(b, n, len)
                               /\ Copied(b, n, len)[At(b, i)] = Unit(n + i)
<1> TAKE i \in 0..len - 1
<1> DEFINE c == At(b, i)
<1>1. b[1] \in Nat /\ b[2] \in Nat BY DEF DAddress
<1>2. c[2] = b[2] + i BY DEF At
<1>3. c \in {At(b, j) : j \in 0..len - 1} OBVIOUS
<1> HIDE DEF c
<1>4. c \in DOMAIN Copied(b, n, len) /\ Copied(b, n, len)[c] = wire[decoder.pos + n + c[2] - b[2]]
  BY <1>3 DEF Copied
<1>5. decoder.pos + n + c[2] - b[2] = decoder.pos + (n + i) BY <1>1, <1>2
<1>6. Copied(b, n, len)[c] = Unit(n + i) BY <1>4, <1>5 DEF Unit
<1> QED BY <1>4, <1>6 DEF c

LEMMA TupleReceived ==
  ASSUME NEW w, NEW x, NEW kids, Sending(w, x, kids), DType.kind \in {"string", "tuple"}, GotTuple
  PROVE  Receives(w, x, kids)
<1> DEFINE t == x.type
           a == x.addr
           b == DTop.addr
           sent == w.memory[a]
           len == sent.len
           none == <<>>
<1>1. /\ DType = Types[t] /\ t \in DOMAIN Types /\ Len(x.units) \in Nat /\ Ahead(Len(x.units))
      /\ \A i \in 1..Len(x.units) : Unit(i) = x.units[i]
      /\ Block \in DAddress /\ decoder.pos \in Nat /\ Len(wire) \in Nat
  BY SendingFacts
<1>2. WritesTuple(w, t, a, x.units, kids) BY <1>1 DEF Sending, Writes
<1>3. len \in Nat /\ Len(x.units) >= 1 /\ x.units[1] = len BY <1>2 DEF WritesTuple
<1>4. Unit(1) = len /\ Ahead(1)
  <2>1. 1 \in 1..Len(x.units) BY <1>1, <1>3
  <2> QED BY <1>1, <1>3, <2>1 DEF Ahead
<1>5. Types[t].elem \in DOMAIN Types BY <1>1, TypeFacts
<1>6. ~Index(x) BY <1>1 DEF Index
<1>7. DTop.type = t BY DEF Sending
<1>8. CASE IsScalar(Types[t].elem)
  <2> DEFINE ref == RefCell(len)
             copy == Copied(Block, 2, len)
             cells == Over(ref, copy)
             m == Over(cells, memory)
  <2>1. /\ kids = <<>> /\ Len(x.units) = 1 + len
        /\ \A i \in 1..len : x.units[1 + i] = w.memory[At(sent.data, i - 1)]
    BY <1>2, <1>8 DEF WritesTuple
  <2>2. Ahead(1 + len) BY <1>1, <2>1
  <2>3. Stores(1 + len, len, cells, none) BY <1>1, <1>4, <1>8, <2>2 DEF GotTuple
  <2>4. DOMAIN ref = {b} /\ ref[b] = [data |-> Block, len |-> len] BY OverFacts DEF RefCell
  <2>5. \A i \in 0..len - 1 : At(Block, i) \in DOMAIN copy /\ copy[At(Block, i)] = Unit(2 + i)
    <3>1. 2 \in Nat OBVIOUS
    <3> HIDE DEF len
    <3> QED BY <1>1, <1>3, <3>1, CopiedFacts
  <2> HIDE DEF ref, copy
  <2>6. b \in DOMAIN m /\ m[b] = [data |-> Block, len |-> len]
    <3>1. b \in DOMAIN cells /\ cells[b] = ref[b] BY <2>4, OverFacts
    <3> HIDE DEF cells
    <3> QED BY <2>4, <3>1, OverFacts
  <2>7. m[b].data = Block /\ m[b].len = len BY <2>6
  <2>8. \A i \in 0..len - 1 : At(Block, i) \in DOMAIN m /\ m[At(Block, i)] = Unit(2 + i)
    <3> TAKE i \in 0..len - 1
    <3> DEFINE c == At(Block, i)
    <3>1. c # b
      <4>1. c[1] = decoder.blocks BY DEF At, Block
      <4>2. b[1] < decoder.blocks /\ decoder.blocks \in Nat BY DEF Sending, DecoderInv, DecoderType
      <4> QED BY <4>1, <4>2
    <3>2. c \in DOMAIN copy /\ copy[c] = Unit(2 + i) BY <2>5
    <3> HIDE DEF c
    <3>3. c \in DOMAIN cells /\ cells[c] = copy[c] BY <2>4, <3>1, <3>2 DEF Over
    <3> HIDE DEF cells
    <3> QED BY <3>2, <3>3, OverFacts DEF c
  <2> HIDE DEF m
  <2>9. \A i \in 0..len - 1 : w.memory[At(sent.data, i)] = Unit(2 + i)
    <3> TAKE i \in 0..len - 1
    <3> DEFINE j == i + 1
    <3>1. j \in 1..len /\ j - 1 = i /\ 1 + j = 2 + i /\ 2 + i \in 1..Len(x.units) BY <1>3, <2>1
    <3> HIDE DEF j
    <3>2. x.units[1 + j] = w.memory[At(sent.data, j - 1)] BY <2>1, <3>1
    <3> QED BY <1>1, <3>1, <3>2
  <2> HIDE DEF len, sent
  <2>10. AgreesRow(w, m, Paired(kids, none), t, sent.data, Block, len)
    BY <1>8, <2>8, <2>9 DEF AgreesRow
  <2>11. Agrees(w, m, Paired(kids, none), x, b) BY <1>1, <2>6, <2>7, <2>10 DEF Agrees, sent, len
  <2>12. Alike(kids, none) /\ none \in Seq(DItem) BY <2>1, NoneAlike
  <2> HIDE DEF none, cells
  <2>13. Looked(x, m, b) BY <1>6 DEF Looked
  <2>14. 1 + len \in Nat BY <1>3
  <2>15. Received(w, x, kids, 1 + len, len, cells, none)
    BY <1>1, <1>3, <2>1, <2>2, <2>3, <2>11, <2>12, <2>13, <2>14 DEF Received, m
  <2> QED BY <2>15 DEF Receives
<1>9. CASE ~IsScalar(Types[t].elem)
  <2> DEFINE cells == RefCell(len)
             v == Elements(t, Block, len)
             m == Over(cells, memory)
  <2>1. Len(x.units) = 1 /\ kids = Elements(t, sent.data, len) BY <1>2, <1>9 DEF WritesTuple
  <2>2. Stores(1, 0, cells, v) BY <1>1, <1>4, <1>7, <1>9 DEF GotTuple
  <2>3. b \in DOMAIN m /\ m[b] = [data |-> Block, len |-> len]
    <3>1. DOMAIN cells = {b} /\ cells[b] = [data |-> Block, len |-> len] BY OverFacts DEF RefCell
    <3> HIDE DEF cells
    <3>2. b \in DOMAIN cells BY <3>1
    <3> QED BY <3>1, <3>2, OverFacts
  <2>4. m[b].data = Block /\ m[b].len = len BY <2>3
  <2> HIDE DEF m, cells
  <2>5. v \in Seq(DItem)
    <3> HIDE DEF len
    <3> QED BY <1>1, <1>3, ElementsTypes
  <2>6. Alike(kids, v) /\ AgreesRow(w, m, Paired(kids, v), t, sent.data, Block, len)
    <3> DEFINE data == sent.data
    <3>1. kids = Elements(t, data, len) BY <2>1
    <3>2. len \in Nat BY <1>3
    <3> HIDE DEF len, data
    <3>3. Alike(Elements(t, data, len), v) /\ AgreesRow(w, m, Paired(Elements(t, data, len), v), t, data, Block, len)
      BY <1>1, <1>5, <1>9, <3>2, ElementsAlike
    <3> QED BY <3>1, <3>3 DEF data
  <2> HIDE DEF v
  <2>7. Agrees(w, m, Paired(kids, v), x, b) BY <1>1, <2>3, <2>4, <2>6 DEF Agrees
  <2>8. Looked(x, m, b) BY <1>6 DEF Looked
  <2>9. Received(w, x, kids, 1, 0, cells, v)
    BY <1>1, <1>4, <2>1, <2>2, <2>5, <2>6, <2>7, <2>8 DEF Received, m
  <2> QED BY <2>9 DEF Receives
<1> QED BY <1>8, <1>9

LEMMA ArrayReceived ==
  ASSUME NEW w, NEW x, NEW kids, Sending(w, x, kids), DType.kind = "array", GotArray
  PROVE  Receives(w, x, kids)
<1> DEFINE t == x.type
           a == x.addr
           b == DTop.addr
           n == Types[t].size
           none == <<>>
<1>1. /\ DType = Types[t] /\ t \in DOMAIN Types /\ Len(x.units) \in Nat /\ Ahead(Len(x.units))
      /\ \A i \in 1..Len(x.units) : Unit(i) = x.units[i]
      /\ b \in DAddress /\ decoder.pos \in Nat /\ Len(wire) \in Nat
  BY SendingFacts
<1>2. WritesArray(w, t, a, x.units, kids) BY <1>1 DEF Sending, Writes
<1>3. n \in Nat /\ Types[t].elem \in DOMAIN Types BY <1>1, TypeFacts
<1>4. ~Index(x) BY <1>1 DEF Index
<1>5. DTop.type = t BY DEF Sending
<1>6. CASE IsScalar(Types[t].elem)
  <2> DEFINE cells == Copied(b, 1, n)
             m == Over(cells, memory)
  <2>1. /\ kids = <<>> /\ Len(x.units) = n
        /\ \A i \in 1..n : x.units[i] = w.memory[At(a, i - 1)]
    BY <1>2, <1>6 DEF WritesArray
  <2>2. Ahead(n) BY <1>1, <2>1
  <2>3. Stores(n, n, cells, none) BY <1>1, <1>6, <2>2 DEF GotArray
  <2>4. \A i \in 0..n - 1 : At(b, i) \in DOMAIN cells /\ cells[At(b, i)] = Unit(1 + i)
    <3>1. 1 \in Nat OBVIOUS
    <3> HIDE DEF n, b
    <3> QED BY <1>1, <1>3, <3>1, CopiedFacts
  <2> HIDE DEF cells
  <2>5. \A i \in 0..n - 1 : At(b, i) \in DOMAIN m /\ m[At(b, i)] = Unit(1 + i) BY <2>4, OverFacts
  <2> HIDE DEF m
  <2>6. \A i \in 0..n - 1 : w.memory[At(a, i)] = Unit(1 + i)
    <3> TAKE i \in 0..n - 1
    <3> DEFINE j == i + 1
    <3>1. j \in 1..n /\ j - 1 = i /\ j = 1 + i /\ 1 + i \in 1..Len(x.units) BY <1>3, <2>1
    <3> HIDE DEF j
    <3>2. x.units[j] = w.memory[At(a, j - 1)] BY <2>1, <3>1
    <3> QED BY <1>1, <3>1, <3>2
  <2>7. AgreesRow(w, m, Paired(kids, none), t, a, b, n) BY <1>6, <2>5, <2>6 DEF AgreesRow
  <2>8. Agrees(w, m, Paired(kids, none), x, b) BY <1>1, <2>7 DEF Agrees
  <2>9. Alike(kids, none) /\ none \in Seq(DItem) BY <2>1, NoneAlike
  <2> HIDE DEF none
  <2>10. Looked(x, m, b) BY <1>4 DEF Looked
  <2>11. Received(w, x, kids, n, n, cells, none)
    BY <1>1, <1>3, <2>1, <2>2, <2>3, <2>8, <2>9, <2>10 DEF Received, m
  <2> QED BY <2>11 DEF Receives
<1>7. CASE ~IsScalar(Types[t].elem)
  <2> DEFINE v == Elements(t, b, n)
             m == Over(none, memory)
  <2>1. Len(x.units) = 0 /\ kids = Elements(t, a, n) BY <1>2, <1>7 DEF WritesArray
  <2>2. Ahead(0) /\ Stores(0, 0, none, v) BY <1>1, <1>5, <1>7, <2>1 DEF GotArray
  <2> HIDE DEF m
  <2>3. v \in Seq(DItem)
    <3> HIDE DEF n, b
    <3> QED BY <1>1, <1>3, ElementsTypes
  <2>4. Alike(kids, v) /\ AgreesRow(w, m, Paired(kids, v), t, a, b, n)
    <3> HIDE DEF n, b
    <3>1. Alike(Elements(t, a, n), v) /\ AgreesRow(w, m, Paired(Elements(t, a, n), v), t, a, b, n)
      BY <1>1, <1>3, <1>7, ElementsAlike
    <3> QED BY <2>1, <3>1
  <2> HIDE DEF v, none
  <2>5. Agrees(w, m, Paired(kids, v), x, b) BY <1>1, <2>4 DEF Agrees
  <2>6. Looked(x, m, b) BY <1>4 DEF Looked
  <2>7. Received(w, x, kids, 0, 0, none, v)
    BY <1>1, <2>1, <2>2, <2>3, <2>4, <2>5, <2>6 DEF Received, m
  <2> QED BY <2>7 DEF Receives
<1> QED BY <1>6, <1>7

LEMMA StructReceived ==
  ASSUME NEW w, NEW x, NEW kids, Sending(w, x, kids), DType.kind = "struct", GotStruct
  PROVE  Receives(w, x, kids)
<1> DEFINE t == x.type
           a == x.addr
           b == DTop.addr
           none == <<>>
           fields == Types[t].fields
           offsets == Types[t].offsets
           v == Fields(t, b)
           s == Fields(t, a)
           m == Over(none, memory)
<1>1. /\ DType = Types[t] /\ t \in DOMAIN Types /\ Len(x.units) \in Nat /\ b \in DAddress
  BY SendingFacts
<1>2. Len(x.units) = 0 /\ kids = s BY <1>1 DEF Sending, Writes
<1>3. DTop.type = t BY DEF Sending
<1>4. Ahead(0) /\ Stores(0, 0, none, v) BY <1>3 DEF GotStruct
<1>5. v \in Seq(DItem)
  <2> HIDE DEF b, t
  <2> QED BY <1>1, FieldsTypes DEF t
<1>6. fields \in Seq(DOMAIN Types) BY <1>1, TypeFacts
<1>7. Len(fields) \in Nat /\ DOMAIN fields = 1..Len(fields)
  <2> HIDE DEF fields
  <2> QED BY <1>6
<1>8. DOMAIN s = DOMAIN fields /\ DOMAIN v = DOMAIN fields BY DEF Fields
<1>9. \A i \in DOMAIN fields : /\ s[i].type = fields[i] /\ s[i].addr = At(a, offsets[i])
                               /\ v[i].type = fields[i] /\ v[i].addr = At(b, offsets[i])
  BY DEF Fields, Value
<1>10. Len(s) = Len(fields) /\ Len(v) = Len(fields)
  <2>1. s = [i \in 1..Len(fields) |-> s[i]] /\ v = [i \in 1..Len(fields) |-> v[i]] BY <1>7 DEF Fields
  <2> DEFINE l == Len(fields)
  <2>2. l \in Nat BY <1>7
  <2> HIDE DEF s, v, l
  <2>3. \A f : f = [i \in 1..l |-> f[i]] => Len(f) = l BY <2>2
  <2> QED BY <2>1, <2>3 DEF l
<1> HIDE DEF s, v, fields, offsets
<1>11. Alike(s, v) BY <1>7, <1>9, <1>10 DEF Alike
<1>12. \A i \in DOMAIN fields : <<fields[i], At(a, offsets[i]), At(b, offsets[i])>> \in Paired(s, v)
  BY <1>7, <1>9, <1>10 DEF Paired
<1> HIDE DEF m, none
<1>13. Agrees(w, m, Paired(s, v), x, b) BY <1>1, <1>12 DEF Agrees, fields, offsets
<1>14. Looked(x, m, b) BY <1>1 DEF Looked, Index
<1>15. Received(w, x, kids, 0, 0, none, v)
  BY <1>1, <1>2, <1>4, <1>5, <1>11, <1>13, <1>14 DEF Received, m
<1> QED BY <1>15 DEF Receives

\* One value, in the new block.
LEMMA OneAlike ==
  ASSUME NEW t \in DOMAIN Types, decoder.blocks \in Nat, NEW a, NEW keep
  PROVE  /\ InBlock(t) \in Seq(DItem) /\ Alike(<<Value(t, a, keep)>>, InBlock(t))
         /\ <<t, a, Block>> \in Paired(<<Value(t, a, keep)>>, InBlock(t))
<1> DEFINE s == <<Value(t, a, keep)>>
           v == InBlock(t)
<1>1. v \in Seq(DItem) BY SpreadOne
<1>2. Len(s) = 1 /\ s[1].type = t /\ s[1].addr = a BY DEF Value
<1>3. Len(v) = 1 /\ v[1].type = t /\ v[1].addr = Block BY DEF InBlock, Value
<1> HIDE DEF s, v
<1>4. Alike(s, v) BY <1>2, <1>3 DEF Alike
<1>5. <<t, a, Block>> \in Paired(s, v) BY <1>2, <1>3 DEF Paired
<1> QED BY <1>1, <1>4, <1>5 DEF s, v

LEMMA PtrReceived ==
  ASSUME NEW w, NEW x, NEW kids, Sending(w, x, kids), DType.kind = "ptr", GotPtr
  PROVE  Receives(w, x, kids) \/ Refuses(x)
<1> DEFINE t == x.type
           a == x.addr
           b == DTop.addr
           sent == w.memory[a]
           none == <<>>
<1>1. /\ DType = Types[t] /\ t \in DOMAIN Types /\ Len(x.units) \in Nat /\ Ahead(Len(x.units))
      /\ \A i \in 1..Len(x.units) : Unit(i) = x.units[i]
      /\ Block \in DAddress /\ decoder.pos \in Nat /\ Len(wire) \in Nat
  BY SendingFacts
<1>2. WritesPtr(w, t, a, x.units, kids) BY <1>1 DEF Sending, Writes
<1>3. Types[t].elem \in DOMAIN Types BY <1>1, TypeFacts
<1>4. decoder.blocks \in Nat BY DEF Sending, DecoderInv, DecoderType
<1>5. PtrNil = 0 /\ PtrIndex = 1 /\ PtrInline = 2 BY DEF PtrNil, PtrIndex, PtrInline
<1>6. \A y : b \in DOMAIN Over(Cell(b, y), memory) /\ Over(Cell(b, y), memory)[b] = y
  <2> TAKE y
  <2>1. b \in DOMAIN Cell(b, y) /\ Cell(b, y)[b] = y BY OverFacts
  <2> QED BY <2>1, OverFacts
<1>7. CASE sent = Nil /\ Len(x.units) = 1 /\ x.units[1] = PtrNil /\ kids = <<>>
  <2> DEFINE cells == Cell(b, Nil)
             m == Over(cells, memory)
  <2>1. Ahead(1) /\ Unit(1) = PtrNil BY <1>1, <1>7
  <2>2. Stores(1, 0, cells, none) BY <1>5, <2>1 DEF GotPtr
  <2>3. b \in DOMAIN m /\ m[b] = Nil BY <1>6
  <2>4. Alike(kids, none) /\ none \in Seq(DItem) BY <1>7, NoneAlike
  <2> HIDE DEF m, none, cells
  <2>5. AgreesPtr(w, m, Paired(kids, none), x, b) BY <1>7, <2>3 DEF AgreesPtr
  <2>6. Agrees(w, m, Paired(kids, none), x, b) BY <1>1, <2>3, <2>5 DEF Agrees
  <2>7. ~Index(x) BY <1>5, <1>7 DEF Index
  <2>8. Looked(x, m, b) BY <2>7 DEF Looked
  <2>9. Received(w, x, kids, 1, 0, cells, none)
    BY <1>1, <1>7, <2>1, <2>2, <2>4, <2>6, <2>8 DEF Received, m
  <2> QED BY <2>9 DEF Receives
<1>8. CASE sent # Nil /\ Len(x.units) = 2 /\ x.units[1] = PtrIndex /\ kids = <<>>
  <2> DEFINE y == IF Unit(2) \in DOMAIN Indexed THEN Indexed[Unit(2)] ELSE Junk
             cells == Cell(b, y)
             m == Over(cells, memory)
  <2>1. Ahead(1) /\ Ahead(2) /\ Unit(1) = PtrIndex /\ Unit(2) = x.units[2] BY <1>1, <1>8 DEF Ahead
  <2>2. Index(x) BY <1>1, <1>8 DEF Index
  <2>3. CASE ~(Unit(2) < decoder.next + 1)
    <3>1. DecodeFails BY <1>5, <2>1, <2>3 DEF GotPtr
    <3> QED BY <2>1, <2>2, <2>3, <3>1 DEF Refuses
  <2>4. CASE Unit(2) < decoder.next + 1
    <3>1. Stores(2, 0, cells, none) BY <1>5, <2>1, <2>4 DEF GotPtr
    <3>2. b \in DOMAIN m /\ m[b] = y BY <1>6
    <3>3. Alike(kids, none) /\ none \in Seq(DItem) BY <1>8, NoneAlike
    <3>4. Looked(x, m, b) BY <2>1, <3>2 DEF Looked
    <3> HIDE DEF m, none, cells
    <3>5. AgreesPtr(w, m, Paired(kids, none), x, b) BY <1>8, <3>2 DEF AgreesPtr
    <3>6. Agrees(w, m, Paired(kids, none), x, b) BY <1>1, <3>2, <3>5 DEF Agrees
    <3>7. Received(w, x, kids, 2, 0, cells, none)
      BY <1>1, <1>8, <2>1, <3>1, <3>3, <3>4, <3>6 DEF Received, m
    <3> QED BY <3>7 DEF Receives
  <2> QED BY <2>3, <2>4
<1>9. CASE /\ sent # Nil /\ Len(x.units) = 1 /\ x.units[1] = PtrInline
           /\ kids = <<Value(Types[t].elem, sent, TRUE)>>
  <2> DEFINE cells == Cell(b, Block)
             v == InBlock(Types[t].elem)
             m == Over(cells, memory)
             e == Types[t].elem
  <2>1. Ahead(1) /\ Unit(1) = PtrInline BY <1>1, <1>9
  <2>2. Stores(1, 0, cells, v) BY <1>1, <1>5, <2>1 DEF GotPtr
  <2>3. b \in DOMAIN m /\ m[b] = Block BY <1>6
  <2>4. v \in Seq(DItem) /\ Alike(kids, v) /\ <<e, sent, Block>> \in Paired(kids, v)
    <3>1. e \in DOMAIN Types BY <1>3
    <3>2. kids = <<Value(e, sent, TRUE)>> BY <1>9
    <3>3. v = InBlock(e) OBVIOUS
    <3> HIDE DEF e, sent, v
    <3> QED BY <1>4, <3>1, <3>2, <3>3, OneAlike
  <2> HIDE DEF m, v, cells
  <2>5. Block # Nil BY <1>1, EtnCodecAssumption DEF DAddress
  <2>6. AgreesPtr(w, m, Paired(kids, v), x, b) BY <1>9, <2>3, <2>4, <2>5 DEF AgreesPtr
  <2>7. Agrees(w, m, Paired(kids, v), x, b) BY <1>1, <2>3, <2>6 DEF Agrees
  <2>8. ~Index(x) BY <1>5, <1>9 DEF Index
  <2>9. Looked(x, m, b) BY <2>8 DEF Looked
  <2>10. Received(w, x, kids, 1, 0, cells, v)
    BY <1>1, <1>9, <2>1, <2>2, <2>4, <2>7, <2>9 DEF Received, m
  <2> QED BY <2>10 DEF Receives
<1> QED BY <1>2, <1>7, <1>8, <1>9 DEF WritesPtr

\* An any value or a union that holds a value of type s.
LEMMA HeldReceived ==
  ASSUME NEW w, NEW x, NEW kids, Sending(w, x, kids), DType.kind \in {"any", "union"},
         NEW keep, kids = <<Value(w.memory[x.addr].type, w.memory[x.addr].data, keep)>>,
         w.memory[x.addr].type \in DOMAIN Types, NEW skip \in Nat, skip >= 1,
         Stores(Len(x.units), skip, HeldCell(w.memory[x.addr].type), InBlock(w.memory[x.addr].type))
  PROVE  Receives(w, x, kids)
<1> DEFINE b == DTop.addr
           sent == w.memory[x.addr]
           s == sent.type
           data == sent.data
           n == Len(x.units)
           cells == HeldCell(s)
           v == InBlock(s)
           m == Over(cells, memory)
<1>1. DType = Types[x.type] /\ n \in Nat /\ Ahead(n) BY SendingFacts
<1>2. decoder.blocks \in Nat BY DEF Sending, DecoderInv, DecoderType
<1>3. DOMAIN cells = {b} /\ cells[b] = [type |-> s, data |-> Block]
  <2> HIDE DEF s
  <2>1. cells = Cell(b, [type |-> s, data |-> Block]) BY DEF HeldCell
  <2> DEFINE y == [type |-> s, data |-> Block]
  <2>2. cells = Cell(b, y) BY <2>1
  <2> HIDE DEF y, b, cells
  <2>3. DOMAIN cells = {b} /\ cells[b] = y BY <2>2 DEF Cell
  <2> QED BY <2>3 DEF y
<1>4. v \in Seq(DItem) /\ Alike(kids, v) /\ <<s, data, Block>> \in Paired(kids, v)
  <2>1. s \in DOMAIN Types /\ kids = <<Value(s, data, keep)>> /\ v = InBlock(s) OBVIOUS
  <2> HIDE DEF s, data, v
  <2> QED BY <1>2, <2>1, OneAlike
<1>5. Stores(n, skip, cells, v) OBVIOUS
<1> HIDE DEF cells, v
<1>6. b \in DOMAIN m /\ m[b] = [type |-> s, data |-> Block]
  <2>1. b \in DOMAIN cells BY <1>3
  <2> QED BY <1>3, <2>1, OverFacts
<1>7. m[b].type = s /\ m[b].data = Block BY <1>6
<1> HIDE DEF m
<1>8. Agrees(w, m, Paired(kids, v), x, b) BY <1>1, <1>4, <1>6, <1>7 DEF Agrees
<1>9. Looked(x, m, b) BY <1>1 DEF Looked, Index
<1> HIDE DEF n
<1>10. Received(w, x, kids, n, skip, cells, v)
  BY <1>1, <1>4, <1>5, <1>8, <1>9 DEF Received, m, n
<1> QED BY <1>10 DEF Receives

LEMMA AnyReceived ==
  ASSUME NEW w, NEW x, NEW kids, Sending(w, x, kids), DType.kind = "any", GotAny
  PROVE  Receives(w, x, kids)
<1> DEFINE s == w.memory[x.addr].type
<1>1. /\ DType = Types[x.type] /\ Len(x.units) \in Nat /\ Ahead(Len(x.units))
      /\ \A i \in 1..Len(x.units) : Unit(i) = x.units[i]
      /\ decoder.pos \in Nat /\ Len(wire) \in Nat
  BY SendingFacts
<1>2. WritesAny(w, x.addr, x.units, kids) BY <1>1 DEF Sending, Writes
<1>3. /\ s \in DOMAIN Hashes /\ Len(x.units) = 1 + HashSize /\ x.units[1] = HashSize
      /\ \A i \in 1..HashSize : x.units[1 + i] = Hashes[s][i]
      /\ kids = <<Value(s, w.memory[x.addr].data, TRUE)>>
  BY <1>2 DEF WritesAny
<1>4. HashSize \in Nat /\ s \in DOMAIN Types BY <1>3, HashFacts
<1> HIDE DEF s
<1>5. Ahead(1 + HashSize) /\ Ahead(1) BY <1>1, <1>3, <1>4 DEF Ahead
<1>6. Unit(1) = HashSize
  <2>1. 1 \in 1..Len(x.units) BY <1>3, <1>4
  <2> QED BY <1>1, <1>3, <2>1
<1>7. \A i \in 1..HashSize : Unit(1 + i) = Hashes[s][i]
  <2> TAKE i \in 1..HashSize
  <2>1. 1 + i \in 1..Len(x.units) BY <1>3, <1>4
  <2> QED BY <1>1, <1>3, <2>1
<1>8. \A i \in 1..HashSize : wire[decoder.pos + 1 + i] = Hashes[s][i]
  <2> TAKE i \in 1..HashSize
  <2>1. decoder.pos + (1 + i) = decoder.pos + 1 + i BY <1>1, <1>4
  <2>2. Unit(1 + i) = Hashes[s][i] BY <1>7
  <2> QED BY <2>1, <2>2 DEF Unit
<1>9. Hashed(s) BY <1>5, <1>6, <1>8 DEF Hashed, HashAt
<1>10. PICK r \in DOMAIN Hashes :
         /\ \A q \in DOMAIN Hashes : Hashed(q) => r = q
         /\ Stores(1 + Unit(1), 1 + Unit(1), HeldCell(r), InBlock(r))
  BY <1>3, <1>9 DEF GotAny
<1>11. r = s BY <1>3, <1>9, <1>10
<1>12. Stores(Len(x.units), 1 + HashSize, HeldCell(s), InBlock(s)) BY <1>3, <1>6, <1>10, <1>11
<1>13. 1 + HashSize \in Nat /\ 1 + HashSize >= 1 BY <1>4
<1> DEFINE skip == 1 + HashSize
<1> HIDE DEF skip
<1>14. skip \in Nat /\ skip >= 1 BY <1>13 DEF skip
<1>15. Stores(Len(x.units), skip, HeldCell(w.memory[x.addr].type), InBlock(w.memory[x.addr].type))
  BY <1>12 DEF skip, s
<1>16. kids = <<Value(w.memory[x.addr].type, w.memory[x.addr].data, TRUE)>> /\ w.memory[x.addr].type \in DOMAIN Types
  BY <1>3, <1>4 DEF s
<1> QED BY <1>14, <1>15, <1>16, HeldReceived

LEMMA UnionReceived ==
  ASSUME NEW w, NEW x, NEW kids, Sending(w, x, kids), DType.kind = "union", GotUnion
  PROVE  Receives(w, x, kids)
<1> DEFINE s == w.memory[x.addr].type
           fields == Types[x.type].fields
<1>1. /\ DType = Types[x.type] /\ x.type \in DOMAIN Types /\ Len(x.units) \in Nat /\ Ahead(Len(x.units))
      /\ \A i \in 1..Len(x.units) : Unit(i) = x.units[i]
  BY SendingFacts
<1>2. WritesUnion(w, x.type, x.addr, x.units, kids) BY <1>1 DEF Sending, Writes
<1>3. PICK i \in Choices(x.type, s), keep \in BOOLEAN :
        /\ Len(x.units) = 1 /\ x.units[1] = i - 1
        /\ kids = <<Value(s, w.memory[x.addr].data, keep)>>
  BY <1>2 DEF WritesUnion
<1>4. fields \in Seq(DOMAIN Types) BY <1>1, TypeFacts
<1>5. i \in DOMAIN fields /\ fields[i] = s BY <1>3 DEF Choices
<1> HIDE DEF fields, s
<1>6. i \in Nat \ {0} /\ i <= Len(fields) /\ Len(fields) \in Nat /\ s \in DOMAIN Types BY <1>4, <1>5
<1>7. Ahead(1) /\ Unit(1) = i - 1 BY <1>1, <1>3
<1>8. Unit(1) < Len(fields) BY <1>6, <1>7
<1>9. PICK j \in DOMAIN fields : Unit(1) = j - 1 /\ Stores(1, 1, HeldCell(fields[j]), InBlock(fields[j]))
  BY <1>1, <1>7, <1>8 DEF GotUnion, fields
<1>10. j = i BY <1>4, <1>6, <1>7, <1>9
<1>11. Stores(Len(x.units), 1, HeldCell(s), InBlock(s)) BY <1>3, <1>5, <1>9, <1>10
<1>12. 1 \in Nat /\ 1 >= 1 OBVIOUS
<1>13. kids = <<Value(w.memory[x.addr].type, w.memory[x.addr].data, keep)>> /\ w.memory[x.addr].type \in DOMAIN Types
  BY <1>3, <1>6 DEF s
<1>14. Stores(Len(x.units), 1, HeldCell(w.memory[x.addr].type), InBlock(w.memory[x.addr].type)) BY <1>11 DEF s
<1>15. DType.kind \in {"any", "union"} OBVIOUS
<1> QED BY <1>12, <1>13, <1>14, <1>15, HeldReceived

\* What was sent is received, but for an index that the decoder has not reached.
LEMMA ValueReceived ==
  ASSUME NEW w, NEW x, NEW kids, Sending(w, x, kids), GotValue
  PROVE  Receives(w, x, kids) \/ Refuses(x)
<1>1. DType = Types[x.type] /\ x.type \in DOMAIN Types BY SendingFacts
<1>2. DType.kind \notin {"dict", "iface"} BY <1>1 DEF Sending, Writes
<1>3. CASE DType.kind = "scalar"
  <2>1. GotScalar BY <1>3 DEF GotValue
  <2> QED BY <1>3, <2>1, ScalarReceived
<1>4. CASE DType.kind \in {"string", "tuple"}
  <2>1. GotTuple BY <1>4 DEF GotValue
  <2> QED BY <1>4, <2>1, TupleReceived
<1>5. CASE DType.kind = "array"
  <2>1. GotArray BY <1>5 DEF GotValue
  <2> QED BY <1>5, <2>1, ArrayReceived
<1>6. CASE DType.kind = "struct"
  <2>1. GotStruct BY <1>6 DEF GotValue
  <2> QED BY <1>6, <2>1, StructReceived
<1>7. CASE DType.kind = "ptr"
  <2>1. GotPtr BY <1>7 DEF GotValue
  <2> QED BY <1>7, <2>1, PtrReceived
<1>8. CASE DType.kind = "any"
  <2>1. GotAny BY <1>8 DEF GotValue
  <2> QED BY <1>8, <2>1, AnyReceived
<1>9. CASE DType.kind = "union"
  <2>1. GotUnion BY <1>9 DEF GotValue
  <2> QED BY <1>9, <2>1, UnionReceived
<1>10. DType.kind \in Kinds BY <1>1, TypeFacts
<1> QED BY <1>2, <1>3, <1>4, <1>5, <1>6, <1>7, <1>8, <1>9, <1>10 DEF Kinds

-----------------------------------------------------------------------------
(* The decoder on the walk of the encoder: f is First, h the history of    *)
(* the encoder, g that of the decoder d, m the memory.                     *)

Decoded == [type : DOMAIN Types, addr : DAddress, count : Nat]

Passed(h, g) == {<<h[j].type, h[j].addr, g[j].addr>> : j \in 1..Len(g)}

\* The table has the addresses of the values decoded.
Noted(f, d, g) ==
  /\ \A j \in f..Len(g) : g[j].count < d.next /\ g[j].count \in DOMAIN d.table /\ d.table[g[j].count] = g[j].addr
  /\ Len(g) >= f => g[f].count = 0
  /\ Len(g) < f => d.next = 0
  /\ \A j \in 1..f - 1 : g[j].count = 0

\* An index leads to the value decoded with that count.
Points(f, m, h, g, k) ==
  Index(h[k]) => \A j \in f..k : g[j].count = h[k].units[2] => m[g[k].addr] = g[j].addr

Known(w, f, h, m, M, g, k) ==
  g[k].type = h[k].type /\ Agrees(w, m, M, h[k], g[k].addr) /\ Points(f, m, h, g, k)

Tracked(w, f, h, S, P, d, m, g) ==
  /\ g \in Seq(Decoded) /\ f - 1 <= Len(g) /\ Len(g) <= Len(h) /\ d.turn = f
  /\ d.pos = P[Len(g) + 1] /\ Alike(S[Len(g) + 1], d.stack) /\ Noted(f, d, g)
  /\ \A k \in 1..Len(g) : Known(w, f, h, m, Passed(h, g) \cup Paired(S[Len(g) + 1], d.stack), g, k)

\* o has what m has; r begins as g does.
Holds(o, m) == \A c \in DOMAIN m : c \in DOMAIN o /\ o[c] = m[c]
Begins(r, g, k) == \A j \in 1..k : r[j] = g[j]

LEMMA KnownMore ==
  ASSUME NEW w, NEW f \in {1, 2}, NEW h, NEW m, NEW o, Holds(o, m), NEW M, NEW O, M \subseteq O,
         NEW g, NEW r, NEW k \in Nat \ {0}, Begins(r, g, k), Known(w, f, h, m, M, g, k)
  PROVE  Known(w, f, h, o, O, r, k)
<1>0. (\A c \in DOMAIN m : c \in DOMAIN o /\ o[c] = m[c]) /\ \A j \in 1..k : r[j] = g[j] BY DEF Holds, Begins
<1>1. g[k].type = h[k].type /\ Agrees(w, m, M, h[k], g[k].addr) /\ Points(f, m, h, g, k) BY DEF Known
<1>2. r[k] = g[k] BY <1>0
<1> DEFINE x == h[k]
           b == g[k].addr
<1>3. Agrees(w, m, M, x, b) BY <1>1
<1> HIDE DEF x, b
<1>4. Agrees(w, o, O, x, b) BY <1>0, <1>3, AgreesMore
<1>5. Points(f, o, h, r, k)
  <2> SUFFICES ASSUME Index(h[k]), NEW j \in f..k, r[j].count = h[k].units[2] PROVE o[r[k].addr] = r[j].addr
    BY DEF Points
  <2>1. j \in 1..k BY f \in {1, 2}
  <2>2. r[j] = g[j] BY <1>0, <2>1
  <2>3. m[b] = g[j].addr BY <1>1, <2>2 DEF Points, b
  <2>4. b \in DOMAIN m BY <1>3 DEF Agrees, Index, x
  <2> QED BY <1>0, <1>2, <2>2, <2>3, <2>4 DEF b
<1> QED BY <1>1, <1>2, <1>4, <1>5 DEF Known, x, b

\* The table with what is decoded now.
LEMMA IndexedFacts ==
  ASSUME DecoderInv(decoder, wire), NEW skip \in Nat, DType.kind \in {"any", "union"} => skip >= 1
  PROVE  /\ decoder.next \in DOMAIN Indexed /\ Indexed[decoder.next] = DTop.addr
         /\ \A c \in DOMAIN decoder.table :
              c < decoder.next => c \in DOMAIN Indexed /\ Indexed[c] = decoder.table[c]
<1>1. decoder.next \in Nat BY DEF DecoderInv, DecoderType
<1>2. \A c : c < decoder.next => c # decoder.next /\ (c \in Nat => c # decoder.next + 1) BY <1>1
<1> DEFINE n == decoder.next
           a == DTop.addr
           rest == IF DType.kind \in {"any", "union"} THEN Over(Cell(n + 1, Junk), decoder.table) ELSE decoder.table
<1>3. Indexed = Over(Cell(n, a), rest) BY DEF Indexed
<1>4. n \in DOMAIN Indexed /\ Indexed[n] = a
  <2>1. n \in DOMAIN Cell(n, a) /\ Cell(n, a)[n] = a BY OverFacts
  <2> HIDE DEF rest
  <2> QED BY <1>3, <2>1, OverFacts
<1>5. ASSUME NEW c \in DOMAIN decoder.table, c < n
      PROVE  c \in DOMAIN Indexed /\ Indexed[c] = decoder.table[c]
  <2>1. decoder.table \in Partial(Nat, DAddress \cup {Junk}) BY DEF DecoderInv, DecoderType
  <2>2. c \in Nat BY <2>1 DEF Partial
  <2>3. c # n /\ c # n + 1 BY <1>1, <1>5, <2>2
  <2>4. c \in DOMAIN rest /\ rest[c] = decoder.table[c] BY <2>3 DEF Over, Cell
  <2> HIDE DEF rest
  <2> QED BY <1>3, <2>3, <2>4 DEF Over, Cell
<1> QED BY <1>4, <1>5

LEMMA NotedMore ==
  ASSUME DecoderInv(decoder, wire), NEW f \in {1, 2}, decoded \in Seq(Decoded), f - 1 <= Len(decoded),
         Noted(f, decoder, decoded), NEW skip \in Nat, DType.kind \in {"any", "union"} => skip >= 1,
         NEW d, d.next = decoder.next + 1 + skip, d.table = Indexed,
         NEW e, e.addr = DTop.addr, e.count = decoder.next, NEW g, g = Append(decoded, e)
  PROVE  Noted(f, d, g)
<1> DEFINE n == Len(decoded)
           next == decoder.next
<1>1. next \in Nat BY DEF DecoderInv, DecoderType
<1>2. n \in Nat /\ Len(g) = n + 1 /\ g[n + 1] = e /\ \A j \in 1..n : g[j] = decoded[j] /\ decoded[j] \in Decoded
  OBVIOUS
<1>3. /\ \A j \in f..n : decoded[j].count < next /\ decoded[j].count \in DOMAIN decoder.table
                         /\ decoder.table[decoded[j].count] = decoded[j].addr
      /\ n >= f => decoded[f].count = 0
      /\ n < f => next = 0
      /\ \A j \in 1..f - 1 : decoded[j].count = 0
  BY DEF Noted
<1>4. /\ next \in DOMAIN Indexed /\ Indexed[next] = DTop.addr
      /\ \A c \in DOMAIN decoder.table : c < next => c \in DOMAIN Indexed /\ Indexed[c] = decoder.table[c]
  BY IndexedFacts
<1>5. next < next + 1 + skip /\ \A c \in Nat : c < next => c < next + 1 + skip BY <1>1
<1> HIDE DEF next, n
<1>6. \A j \in f..Len(g) : g[j].count < d.next /\ g[j].count \in DOMAIN d.table /\ d.table[g[j].count] = g[j].addr
  <2> TAKE j \in f..Len(g)
  <2>1. (j \in 1..n /\ j \in f..n) \/ j = n + 1 BY <1>2
  <2>2. CASE j \in 1..n /\ j \in f..n
    <3> DEFINE c == decoded[j].count
    <3>1. c < next /\ c \in DOMAIN decoder.table /\ decoder.table[c] = decoded[j].addr BY <1>3, <2>2
    <3>2. c \in Nat BY <1>2, <2>2 DEF Decoded
    <3>3. g[j] = decoded[j] BY <1>2, <2>2
    <3> HIDE DEF c
    <3>4. c < next + 1 + skip BY <1>5, <3>1, <3>2
    <3>5. c \in DOMAIN Indexed /\ Indexed[c] = decoder.table[c] BY <1>4, <3>1
    <3>6. c < d.next BY <3>4 DEF next
    <3> QED BY <3>1, <3>3, <3>5, <3>6 DEF c
  <2>3. CASE j = n + 1
    <3>1. g[j].count = next /\ g[j].addr = DTop.addr BY <1>2, <2>3 DEF next
    <3>2. next < d.next BY <1>5 DEF next
    <3> QED BY <1>4, <3>1, <3>2
  <2> QED BY <2>1, <2>2, <2>3
<1>7. g[f].count = 0
  <2>1. CASE n >= f
    <3>1. f \in 1..n BY <1>2, <2>1
    <3> QED BY <1>2, <1>3, <2>1, <3>1
  <2>2. CASE ~(n >= f)
    <3>1. n < f /\ f = n + 1 BY <1>2, <2>2 DEF n
    <3> QED BY <1>2, <1>3, <3>1 DEF next
  <2> QED BY <2>1, <2>2
<1>8. \A j \in 1..f - 1 : g[j].count = 0
  <2> TAKE j \in 1..f - 1
  <2>1. j \in 1..n BY <1>2 DEF n
  <2> QED BY <1>2, <1>3, <2>1
<1>9. ~(Len(g) < f) BY <1>2 DEF n
<1> QED BY <1>6, <1>7, <1>8, <1>9 DEF Noted

LEMMA WalkedFacts ==
  ASSUME encoded \in Seq(History(world)), NEW S, NEW P, WalksTo(encoded, wire, S, P, <<>>)
  PROVE  /\ S \in [1..Len(encoded) + 1 -> Seq(Item(world))] /\ P \in [1..Len(encoded) + 1 -> Nat]
         /\ S[1] = Listed(1) /\ P[1] = 0 /\ S[Len(encoded) + 1] = <<>>
         /\ \A k \in 1..Len(encoded) : Walked(encoded[k], wire, S[k], P[k], S[k + 1], P[k + 1])
BY DEF WalksTo, Walk

\* The pairs, with one value more received.
LEMMA PassedMore ==
  ASSUME NEW h, NEW g, NEW n \in Nat, Len(g) = n, NEW r, Len(r) = n + 1, \A j \in 1..n : r[j] = g[j]
  PROVE  /\ Passed(h, g) \subseteq Passed(h, r)
         /\ <<h[n + 1].type, h[n + 1].addr, r[n + 1].addr>> \in Passed(h, r)
<1>1. \A j \in 1..n : j \in 1..Len(r) /\ r[j] = g[j] OBVIOUS
<1>2. Passed(h, g) \subseteq Passed(h, r)
  <2> SUFFICES ASSUME NEW j \in 1..n PROVE <<h[j].type, h[j].addr, g[j].addr>> \in Passed(h, r)
    BY DEF Passed
  <2> QED BY <1>1 DEF Passed
<1>3. n + 1 \in 1..Len(r) OBVIOUS
<1> QED BY <1>2, <1>3 DEF Passed

LEMMA TrackValue ==
  ASSUME world \in Worlds, DecoderInv(decoder, wire), WireInv(wire, Room + 1), MemoryInv, Kept, GotValue,
         encoded \in Seq(History(world)), NEW f \in {1, 2},
         NEW S, NEW P, WalksTo(encoded, wire, S, P, <<>>),
         Tracked(world, f, encoded, S, P, decoder, memory, decoded)
  PROVE  \/ Len(decoded) + 1 \in DOMAIN encoded /\ Refuses(encoded[Len(decoded) + 1])
         \/ /\ Tracked(world, f, encoded, S, P, decoder', memory', decoded')
            /\ decoder'.result = decoder.result /\ phase' = phase
<1> DEFINE n == Len(decoded)
           k == n + 1
           x == encoded[k]
           M == Passed(encoded, decoded) \cup Paired(S[k], decoder.stack)
<1>1. /\ decoded \in Seq(Decoded) /\ f - 1 <= n /\ n <= Len(encoded) /\ decoder.turn = f
      /\ decoder.pos = P[k] /\ Alike(S[k], decoder.stack) /\ Noted(f, decoder, decoded)
      /\ \A j \in 1..n : Known(world, f, encoded, memory, M, decoded, j)
  BY DEF Tracked
<1>2. n \in Nat /\ Len(encoded) \in Nat BY <1>1
<1>3. /\ S \in [1..Len(encoded) + 1 -> Seq(Item(world))] /\ P \in [1..Len(encoded) + 1 -> Nat]
      /\ S[Len(encoded) + 1] = <<>>
      /\ \A j \in 1..Len(encoded) : Walked(encoded[j], wire, S[j], P[j], S[j + 1], P[j + 1])
  BY WalkedFacts
<1>4. decoder.stack \in Seq(DItem) /\ decoder.stack # <<>> /\ decoder.blocks \in Nat
  BY DEF GotValue, DecoderInv, DecoderType
<1>5. S[k] \in Seq(Item(world)) /\ S[k] # <<>>
  <2>1. k \in 1..Len(encoded) + 1 BY <1>1, <1>2
  <2>2. S[k] \in Seq(Item(world)) BY <1>3, <2>1
  <2>3. Len(S[k]) = Len(decoder.stack) BY <1>1 DEF Alike
  <2>4. Len(decoder.stack) >= 1 /\ Len(decoder.stack) \in Nat BY <1>4, PushFacts
  <2>5. S[k] # <<>>
    <3> SUFFICES ASSUME S[k] = <<>> PROVE FALSE OBVIOUS
    <3>1. Len(S[k]) = 0 OBVIOUS
    <3> QED BY <2>3, <2>4, <3>1
  <2> QED BY <2>2, <2>5
<1>6. k # Len(encoded) + 1 BY <1>3, <1>5
<1>7. k \in 1..Len(encoded) /\ k + 1 \in 1..Len(encoded) + 1 /\ k \in DOMAIN encoded BY <1>1, <1>2, <1>6
<1>8. x \in History(world) /\ x.units \in Seq(Nat)
  <2>1. x \in History(world) BY <1>7
  <2> HIDE DEF x
  <2> QED BY <2>1 DEF History
<1>9. Walked(x, wire, S[k], P[k], S[k + 1], P[k + 1]) BY <1>3, <1>7
<1> HIDE DEF x, n, M
<1>10. PICK kids \in Seq(Item(world)) :
         Writes(world, x.type, x.addr, x.units, kids) /\ S[k + 1] = kids \o Tail(S[k])
  BY <1>9 DEF Walked
<1>11. /\ Head(S[k]).type = x.type /\ Head(S[k]).addr = x.addr
       /\ Reads(wire, decoder.pos, x.units) /\ P[k + 1] = decoder.pos + Len(x.units)
  BY <1>1, <1>9 DEF Walked
<1>12. DTop = Head(decoder.stack) /\ Head(decoder.stack) = decoder.stack[1] /\ 1 \in DOMAIN decoder.stack
       /\ DTop \in DItem
  BY <1>4, PushFacts DEF DTop
<1>13. \A kv \in Seq(DItem) : Alike(kids, kv) =>
         /\ Alike(kids \o Tail(S[k]), kv \o Tail(decoder.stack))
         /\ Paired(kids, kv) \subseteq Paired(kids \o Tail(S[k]), kv \o Tail(decoder.stack))
         /\ \A p \in Paired(S[k], decoder.stack) :
              \/ p = <<Head(S[k]).type, Head(S[k]).addr, DTop.addr>>
              \/ p \in Paired(kids \o Tail(S[k]), kv \o Tail(decoder.stack))
         /\ Head(S[k]).type = DTop.type
  <2> SUFFICES ASSUME NEW kv \in Seq(DItem), Alike(kids, kv)
               PROVE  /\ Alike(kids \o Tail(S[k]), kv \o Tail(decoder.stack))
                      /\ Paired(kids, kv) \subseteq Paired(kids \o Tail(S[k]), kv \o Tail(decoder.stack))
                      /\ \A p \in Paired(S[k], decoder.stack) :
                           \/ p = <<Head(S[k]).type, Head(S[k]).addr, DTop.addr>>
                           \/ p \in Paired(kids \o Tail(S[k]), kv \o Tail(decoder.stack))
                      /\ Head(S[k]).type = DTop.type
    OBVIOUS
  <2> DEFINE s == S[k]
             v == decoder.stack
  <2>1. s \in Seq(Item(world)) /\ s # <<>> /\ v \in Seq(DItem) /\ v # <<>> /\ Alike(s, v) BY <1>1, <1>4, <1>5
  <2>2. DTop = Head(v) BY <1>12
  <2> HIDE DEF s, v
  <2>3. /\ Alike(kids \o Tail(s), kv \o Tail(v))
        /\ Paired(kids, kv) \subseteq Paired(kids \o Tail(s), kv \o Tail(v))
        /\ \A p \in Paired(s, v) : \/ p = <<Head(s).type, Head(s).addr, Head(v).addr>>
                                   \/ p \in Paired(kids \o Tail(s), kv \o Tail(v))
        /\ Head(s).type = Head(v).type
    BY <2>1, AlikePush
  <2> QED BY <2>2, <2>3 DEF s, v
<1>14. DTop.type = x.type
  <2>1. S[k][1].type = decoder.stack[1].type
    <3>1. 1 \in 1..Len(decoder.stack) BY <1>4, <1>12
    <3> QED BY <1>1, <3>1 DEF Alike
  <2>2. Head(S[k]) = S[k][1] BY <1>5, PushFacts
  <2> QED BY <1>11, <1>12, <2>1, <2>2
<1>15. DTop.addr[1] < decoder.blocks BY <1>12 DEF MemoryInv, Below
<1>16. Sending(world, x, kids) BY <1>4, <1>8, <1>10, <1>11, <1>14, <1>15 DEF Sending
<1>17. Receives(world, x, kids) \/ Refuses(x) BY <1>16, ValueReceived
<1>18. CASE Refuses(x) BY <1>7, <1>18 DEF x, n
<1>19. CASE Receives(world, x, kids)
  <2>1. PICK z, skip, cells, values : Received(world, x, kids, z, skip, cells, values) BY <1>19 DEF Receives
  <2>2. /\ z \in Nat /\ skip \in Nat /\ values \in Seq(DItem) /\ Ahead(z)
        /\ Stores(z, skip, cells, values) /\ z = Len(x.units)
        /\ DType.kind \in {"any", "union"} => skip >= 1
        /\ Alike(kids, values)
        /\ Agrees(world, Over(cells, memory), Paired(kids, values), x, DTop.addr)
        /\ Looked(x, Over(cells, memory), DTop.addr)
    BY <2>1 DEF Received
  <2>3. /\ decoder'.table = Indexed
        /\ decoder'.stack = values \o Tail(decoder.stack) /\ decoder'.pos = decoder.pos + z
        /\ decoder'.next = decoder.next + 1 + skip /\ decoder'.turn = decoder.turn
        /\ memory' = Over(cells, memory)
        /\ decoded' = Append(decoded, [type |-> DTop.type, addr |-> DTop.addr, count |-> decoder.next])
    BY <2>2, StoresMore
  <2>4. decoder'.result = decoder.result BY <1>4, <2>2, StoresTypes DEF Ahead
  <2>5. phase' = phase BY <2>2 DEF Stores
  <2> DEFINE e == [type |-> DTop.type, addr |-> DTop.addr, count |-> decoder.next]
  <2>6. PICK g : g = decoded' OBVIOUS
  <2>7. PICK o : o = memory' OBVIOUS
  <2>8. PICK d : d = decoder' OBVIOUS
  <2>9. e.type = x.type /\ e.addr = DTop.addr /\ e.count = decoder.next /\ e \in Decoded
    <3>1. decoder.next \in Nat BY DEF DecoderInv, DecoderType
    <3> QED BY <1>12, <1>14, <3>1 DEF Decoded, DItem
  <2>10. g = Append(decoded, e) BY <2>3, <2>6
  <2> HIDE DEF e
  <2>11. /\ g \in Seq(Decoded) /\ Len(g) = k /\ g[k] = e /\ \A j \in 1..n : g[j] = decoded[j]
    BY <1>1, <2>9, <2>10 DEF n
  <2>12. Noted(f, d, g)
    <3>1. d.next = decoder.next + 1 + skip /\ d.table = Indexed BY <2>3, <2>8
    <3>2. f - 1 <= Len(decoded) BY <1>1 DEF n
    <3> QED BY <1>1, <2>2, <2>9, <2>10, <3>1, <3>2, NotedMore
  <2> DEFINE O == Passed(encoded, g) \cup Paired(S[k + 1], d.stack)
  <2>13. d.stack = values \o Tail(decoder.stack) BY <2>3, <2>8
  <2>14. /\ Alike(S[k + 1], d.stack)
         /\ Paired(kids, values) \subseteq Paired(S[k + 1], d.stack)
         /\ \A p \in Paired(S[k], decoder.stack) :
              \/ p = <<x.type, x.addr, DTop.addr>>
              \/ p \in Paired(S[k + 1], d.stack)
    BY <1>10, <1>11, <1>13, <2>2, <2>13
  <2>15. /\ Passed(encoded, decoded) \subseteq Passed(encoded, g)
         /\ <<x.type, x.addr, DTop.addr>> \in Passed(encoded, g)
    <3>1. Len(decoded) = n BY DEF n
    <3>2. /\ Passed(encoded, decoded) \subseteq Passed(encoded, g)
          /\ <<encoded[n + 1].type, encoded[n + 1].addr, g[n + 1].addr>> \in Passed(encoded, g)
      BY <1>2, <2>11, <3>1, PassedMore
    <3> QED BY <2>9, <2>11, <3>2 DEF x
  <2>16. M \subseteq O BY <2>14, <2>15 DEF M
  <2>17. Paired(kids, values) \subseteq O BY <2>14
  <2> HIDE DEF O
  <2>18. \A c \in DOMAIN memory : c \in DOMAIN o /\ o[c] = memory[c] BY <2>7 DEF Kept
  <2>19. \A j \in 1..k : Known(world, f, encoded, o, O, g, j)
    <3> TAKE j \in 1..k
    <3>1. CASE j \in 1..n
      <4>1. Known(world, f, encoded, memory, M, decoded, j) BY <1>1, <3>1
      <4>2. j \in Nat \ {0} /\ \A i \in 1..j : g[i] = decoded[i] BY <1>2, <2>11, <3>1
      <4>3. PICK m : m = memory OBVIOUS
      <4>4. PICK r : r = decoded OBVIOUS
      <4>5. PICK h : h = encoded OBVIOUS
      <4>6. Known(world, f, h, m, M, r, j) BY <4>1, <4>3, <4>4, <4>5
      <4>7. Begins(g, r, j) BY <4>2, <4>4 DEF Begins
      <4>8. Holds(o, m) BY <2>18, <4>3 DEF Holds
      <4>9. j \in Nat \ {0} BY <4>2
      <4>10. Known(world, f, h, o, O, g, j) BY <2>16, <4>6, <4>7, <4>8, <4>9, KnownMore
      <4> QED BY <4>5, <4>10
    <3>2. CASE j = k
      <4> DEFINE b == DTop.addr
      <4>1. g[j].type = x.type /\ g[j].addr = b /\ g[j] = e BY <2>9, <2>11, <3>2
      <4>2. o = Over(cells, memory) BY <2>3, <2>7
      <4>3. Agrees(world, o, Paired(kids, values), x, b) BY <2>2, <4>2
      <4> HIDE DEF b
      <4>4. Agrees(world, o, O, x, b) BY <2>17, <4>3, AgreesMore
      <4>5. Points(f, o, encoded, g, j)
        <5> SUFFICES ASSUME Index(x), NEW i \in f..k, g[i].count = x.units[2] PROVE o[b] = g[i].addr
          BY <3>2, <4>1 DEF Points, x
        <5> DEFINE c == x.units[2]
        <5>1. o[b] = IF c \in DOMAIN Indexed THEN Indexed[c] ELSE Junk BY <2>2, <4>2 DEF Looked, b
        <5>2. /\ decoder.next \in DOMAIN Indexed /\ Indexed[decoder.next] = b
              /\ \A y \in DOMAIN decoder.table :
                   y < decoder.next => y \in DOMAIN Indexed /\ Indexed[y] = decoder.table[y]
          BY <2>2, IndexedFacts DEF b
        <5>3. CASE i = k
          <6>1. c = decoder.next /\ g[i].addr = b BY <2>9, <2>11, <5>3 DEF b
          <6> QED BY <5>1, <5>2, <6>1
        <5>4. CASE i # k
          <6>1. i \in 1..n /\ i \in f..Len(decoded) BY <1>2, <5>4 DEF n
          <6>2. g[i] = decoded[i] BY <2>11, <6>1
          <6>3. decoded[i].count < decoder.next /\ decoded[i].count \in DOMAIN decoder.table
                /\ decoder.table[decoded[i].count] = decoded[i].addr
            BY <1>1, <6>1 DEF Noted
          <6>4. c = decoded[i].count BY <6>2
          <6> QED BY <5>1, <5>2, <6>2, <6>3, <6>4
        <5> QED BY <5>3, <5>4
      <4> QED BY <3>2, <4>1, <4>4, <4>5 DEF Known, x
    <3> QED BY <1>2, <3>1, <3>2
  <2>20. d.pos = P[k + 1] /\ d.turn = f BY <1>1, <1>11, <2>2, <2>3, <2>8
  <2>21. f - 1 <= k /\ k <= Len(encoded) BY <1>1, <1>2, <1>7 DEF n
  <2>22. Tracked(world, f, encoded, S, P, d, o, g)
    BY <2>11, <2>12, <2>14, <2>19, <2>20, <2>21 DEF Tracked, O
  <2> QED BY <2>4, <2>5, <2>6, <2>7, <2>8, <2>22
<1> QED BY <1>17, <1>18, <1>19

-----------------------------------------------------------------------------
(* From the start of the decoding to its end.                              *)

\* The decoder gave up at an index beyond its counts.
Missed(h, g) ==
  \E k \in DOMAIN h : Index(h[k]) /\ h[k].units[2] # 0 /\ \A j \in DOMAIN g : g[j].count < h[k].units[2]

\* The host has yet to decode the number of the method, or has done so.
CallStage ==
  /\ IsCall /\ decoder.turn = 1
  /\ \/ CallAhead /\ decoder.next = 0
     \/ /\ CallKnown /\ <<0, 0>> \in DOMAIN memory
        /\ decoded = <<[type |-> CallId, addr |-> <<0, 0>>, count |-> 0]>>

Retraces(S, P) ==
  /\ WalksTo(encoded, wire, S, P, <<>>)
  /\ IF decoder.result = "fail" THEN Missed(encoded, decoded)
     ELSE CallStage \/ Tracked(world, First, encoded, S, P, decoder, memory, decoded)

Along == \E S, P : Retraces(S, P)

LEMMA WalksToThen ==
  ASSUME NEW h, NEW u, NEW S, NEW P, WalksTo(h, u, S, P, <<>>), world' = world, encoded' = h, wire' = u
  PROVE  WalksTo(encoded, wire, S, P, <<>>)'
<1>1. \A i : Listed(i)' = Listed(i) BY WorldStays
<1>2. \A x, v, t, p, r, q : Walked(x, v, t, p, r, q)' <=> Walked(x, v, t, p, r, q) BY DEF Walked
<1>3. WalksTo(h, u, S, P, <<>>)' BY <1>1, <1>2 DEF WalksTo, Walk
<1> QED BY <1>3 DEF WalksTo, Walk

\* The walk has begun, with the value that counts on top.
LEMMA TrackStart ==
  ASSUME world \in Worlds, NEW f, f = First, NEW h, f - 1 <= Len(h), NEW S, NEW P, NEW d, NEW m,
         NEW g \in Seq(Decoded), Len(g) = f - 1, d.turn = f, d.pos = P[f], d.next = 0,
         S[f] = <<Sent(f)>>, NEW v, d.stack = <<v>>, v.type = Sent(f).type,
         \A j \in 1..f - 1 :
           /\ g[j].count = 0 /\ g[j].type = h[j].type /\ ~Index(h[j])
           /\ \A M : Agrees(world, m, M, h[j], g[j].addr)
  PROVE  Tracked(world, f, h, S, P, d, m, g)
<1>1. f \in {1, 2} BY FirstFacts
<1>2. Len(g) + 1 = f /\ f - 1 <= Len(g) /\ Len(g) < f /\ ~(Len(g) >= f) BY <1>1
<1>3. Alike(S[Len(g) + 1], d.stack)
  <2>1. Len(<<Sent(f)>>) = 1 /\ Len(<<v>>) = 1 /\ <<Sent(f)>>[1] = Sent(f) /\ <<v>>[1] = v OBVIOUS
  <2> DEFINE s == <<Sent(f)>>
             r == <<v>>
  <2>2. Len(s) = 1 /\ Len(r) = 1 /\ s[1].type = r[1].type BY <2>1
  <2>3. S[Len(g) + 1] = s /\ d.stack = r BY <1>2
  <2> HIDE DEF s, r
  <2>4. \A i \in 1..Len(r) : i = 1 BY <2>2
  <2>5. Alike(s, r) BY <2>2, <2>4 DEF Alike
  <2> QED BY <2>3, <2>5
<1>4. Noted(f, d, g)
  <2>1. \A j \in f..Len(g) : FALSE BY <1>1, <1>2
  <2> QED BY <1>2, <2>1 DEF Noted
<1>5. \A k \in 1..Len(g) : Known(world, f, h, m, Passed(h, g) \cup Paired(S[Len(g) + 1], d.stack), g, k)
  <2> TAKE k \in 1..Len(g)
  <2>1. k \in 1..f - 1 BY <1>1
  <2> QED BY <2>1 DEF Known, Points
<1> QED BY <1>2, <1>3, <1>4, <1>5 DEF Tracked

\* The number of the method, on the walk of a call.
LEMMA CallWalk ==
  ASSUME world \in Worlds, encoded \in Seq(History(world)), WireInv(wire, Room + 1), IsCall,
         NEW S, NEW P, WalksTo(encoded, wire, S, P, <<>>), Len(encoded) >= First
  PROVE  /\ encoded[1].type = CallId /\ encoded[1].addr = world.values[1].addr /\ ~Index(encoded[1])
         /\ S[2] = <<Sent(2)>> /\ P[2] = 1 /\ 1 <= Len(wire) /\ wire[1] = world.memory[encoded[1].addr]
         /\ First = 2 /\ 1 \in 1..Len(encoded)
<1>1. First = 2 /\ Sent(1).type = CallId /\ Sent(1).addr = world.values[1].addr
      /\ Sent(1) \in Item(world) /\ Sent(2) \in Item(world)
  <2>1. First = 2 BY FirstFacts
  <2>2. 1 \in 1..First /\ 2 \in 1..First BY <2>1
  <2> QED BY <2>1, <2>2, FirstFacts
<1>2. 1 \in 1..Len(encoded) /\ Len(encoded) \in Nat BY <1>1
<1>3. S[1] = <<Sent(1), Sent(2)>> /\ Head(S[1]) = Sent(1) /\ Tail(S[1]) = <<Sent(2)>> /\ P[1] = 0
  <2>1. S[1] = Listed(1) /\ P[1] = 0 BY WalkedFacts
  <2>2. Listed(1) = <<Sent(1), Sent(2)>> /\ Tail(Listed(1)) = Listed(2) /\ Head(Listed(1)) = Sent(1)
        /\ Listed(First) = <<Sent(First)>>
    BY ListedFacts
  <2> QED BY <1>1, <2>1, <2>2
<1> DEFINE x == encoded[1]
<1>4. Walked(x, wire, S[1], P[1], S[1 + 1], P[1 + 1]) BY <1>2, WalkedFacts
<1>5. x \in History(world) /\ x.units \in Seq(Nat)
  <2>1. x \in History(world) BY <1>2
  <2> HIDE DEF x
  <2> QED BY <2>1 DEF History
<1> HIDE DEF x
<1>6. PICK kids \in Seq(Item(world)) :
        Writes(world, x.type, x.addr, x.units, kids) /\ S[1 + 1] = kids \o Tail(S[1])
  BY <1>4 DEF Walked
<1>7. x.type = CallId /\ x.addr = world.values[1].addr /\ Reads(wire, 0, x.units)
      /\ P[1 + 1] = 0 + Len(x.units)
  BY <1>1, <1>3, <1>4 DEF Walked
<1>8. Types[x.type].kind = "scalar" BY <1>7, HashFacts
<1>9. Len(x.units) = 1 /\ x.units[1] = world.memory[x.addr] /\ kids = <<>> BY <1>6, <1>8 DEF Writes
<1>10. P[2] = 1 BY <1>7, <1>9
<1>11. S[2] = <<Sent(2)>>
  <2>1. <<>> \o <<Sent(2)>> = <<Sent(2)>> OBVIOUS
  <2>2. 1 + 1 = 2 OBVIOUS
  <2> QED BY <1>3, <1>6, <1>9, <2>1, <2>2
<1>12. 1 <= Len(wire) /\ wire[1] = x.units[1]
  <2>1. wire \in Seq(Nat) BY DEF WireInv
  <2>2. 1 <= Len(x.units) BY <1>9
  <2>3. wire[0 + 1] = x.units[1] /\ 0 + 1 <= Len(wire) BY <1>5, <1>7, <2>1, <2>2, ReadsFacts
  <2> QED BY <2>3
<1>13. ~Index(x) BY <1>8 DEF Index
<1> QED BY <1>1, <1>2, <1>7, <1>9, <1>10, <1>11, <1>12, <1>13 DEF x

\* What a pointer written as an index has.
LEMMA IndexUnits ==
  ASSUME encoded \in Seq(History(world)), NEW S, NEW P, WalksTo(encoded, wire, S, P, <<>>),
         NEW k \in 1..Len(encoded), Index(encoded[k])
  PROVE  encoded[k].units[2] \in Nat /\ world.memory[encoded[k].addr] # Nil
<1> DEFINE x == encoded[k]
<1>1. Walked(x, wire, S[k], P[k], S[k + 1], P[k + 1]) BY WalkedFacts
<1>2. x \in History(world) OBVIOUS
<1>3. Index(x) OBVIOUS
<1> HIDE DEF x
<1>4. x.units \in Seq(Nat) BY <1>2 DEF History
<1>5. PICK kids : Writes(world, x.type, x.addr, x.units, kids) BY <1>1 DEF Walked
<1>6. WritesPtr(world, x.type, x.addr, x.units, kids) BY <1>3, <1>5 DEF Index, Writes
<1>7. Len(x.units) = 2 /\ world.memory[x.addr] # Nil
  BY <1>3, <1>6 DEF WritesPtr, Index, PtrNil, PtrIndex, PtrInline
<1>8. x.units[2] \in Nat BY <1>4, <1>7
<1> QED BY <1>7, <1>8 DEF x

LEMMA RetracesThen ==
  ASSUME NEW S, NEW P, Retraces(S, P), UNCHANGED <<world, wire, encoded, decoder, memory, decoded>>
  PROVE  Retraces(S, P)'
<1>1. PICK h : h = encoded OBVIOUS
<1>2. PICK u : u = wire OBVIOUS
<1>3. WalksTo(h, u, S, P, <<>>) BY <1>1, <1>2 DEF Retraces
<1>4. WalksTo(encoded, wire, S, P, <<>>)' BY <1>1, <1>2, <1>3, WalksToThen
<1>5. First' = First /\ IsCall' = IsCall BY WorldStays
<1>6. CallStage => CallStage' BY <1>5 DEF CallStage, CallAhead, CallKnown
<1> QED BY <1>4, <1>5, <1>6 DEF Retraces

LEMMA StartRetraces ==
  ASSUME TypesInv, encoded \in Seq(History(world)), Whole, decoder.result = "none", DecodeStart
  PROVE  Along'
<1>1. PICK h : h = encoded OBVIOUS
<1>2. PICK u : u = wire OBVIOUS
<1>3. PICK S, P : WalksTo(h, u, S, P, <<>>) BY <1>1, <1>2 DEF Whole, Walks
<1>4. UNCHANGED <<world, wire, encoded, memory, decoded>> BY DEF DecodeStart
<1>5. WalksTo(encoded, wire, S, P, <<>>)' BY <1>1, <1>2, <1>3, <1>4, WalksToThen
<1>6. world \in Worlds /\ First' = First /\ IsCall' = IsCall BY <1>4, WorldStays DEF TypesInv
<1>7. /\ decoder'.turn = 1 /\ decoder'.pos = 0 /\ decoder'.next = 0
      /\ decoder'.stack = <<Value(IF IsCall THEN CallId ELSE world.type, <<0, 0>>, FALSE)>>
      /\ decoded = <<>> /\ decoder'.result = "none"
  BY DecodeStartTypes
<1>8. CallStage' \/ Tracked(world, First, encoded, S, P, decoder', memory', decoded')
  <2>1. CASE IsCall
    <3>1. decoder'.stack = <<Value(CallId, <<0, 0>>, FALSE)>> BY <1>7, <2>1
    <3>2. CallAhead' BY <1>4, <1>7, <3>1 DEF CallAhead
    <3> QED BY <1>6, <1>7, <2>1, <3>2 DEF CallStage
  <2>2. CASE ~IsCall
    <3> DEFINE v == Value(world.type, <<0, 0>>, FALSE)
    <3>1. decoder'.stack = <<v>> /\ v.type = world.type BY <1>7, <2>2 DEF Value
    <3>2. First = 1 BY <2>2 DEF First
    <3>3. Sent(1).type = world.type BY <1>6, <2>2, FirstFacts
    <3>4. S[1] = <<Sent(1)>> /\ P[1] = 0
      <4>1. WalksTo(encoded, wire, S, P, <<>>) BY <1>1, <1>2, <1>3
      <4>2. S[1] = Listed(1) /\ P[1] = 0 BY <4>1 DEF WalksTo, Walk
      <4>3. Listed(First) = <<Sent(First)>> BY <1>6, ListedFacts
      <4> QED BY <3>2, <4>2, <4>3
    <3> HIDE DEF v
    <3>5. decoded' \in Seq(Decoded) /\ Len(decoded') = 0 BY <1>4, <1>7
    <3>6. PICK d : d = decoder' OBVIOUS
    <3>7. PICK g : g = decoded' OBVIOUS
    <3>8. PICK f : f = First OBVIOUS
    <3>9. g \in Seq(Decoded) /\ Len(g) = f - 1 /\ f - 1 <= Len(encoded) BY <3>2, <3>5, <3>7, <3>8
    <3>10. d.turn = f /\ d.pos = P[f] /\ d.next = 0 /\ S[f] = <<Sent(f)>> /\ d.stack = <<v>> /\ v.type = Sent(f).type
      BY <1>7, <3>1, <3>2, <3>3, <3>4, <3>6, <3>8
    <3>11. \A j \in 1..f - 1 : FALSE BY <3>2, <3>8
    <3>12. Tracked(world, f, encoded, S, P, d, memory, g) BY <1>6, <3>8, <3>9, <3>10, <3>11, TrackStart
    <3> QED BY <1>4, <3>6, <3>7, <3>8, <3>12
  <2> QED BY <2>1, <2>2
<1>9. Retraces(S, P)' BY <1>4, <1>5, <1>6, <1>7, <1>8 DEF Retraces
<1> QED BY <1>9 DEF Along

LEMMA ArgumentsRetraces ==
  ASSUME TypesInv, encoded \in Seq(History(world)), Len(encoded) >= First, NEW S, NEW P, Retraces(S, P),
         decoder.result = "none", DecodeArguments
  PROVE  Retraces(S, P)' /\ decoder'.result = "none" /\ phase' = "decode"
<1>1. PICK h : h = encoded OBVIOUS
<1>2. PICK u : u = wire OBVIOUS
<1>3. WalksTo(h, u, S, P, <<>>) BY <1>1, <1>2 DEF Retraces
<1>4. UNCHANGED <<world, wire, encoded, memory, decoded>> /\ IsCall /\ decoder.turn = 1 /\ decoder.stack = <<>>
  BY DEF DecodeArguments
<1>5. WalksTo(encoded, wire, S, P, <<>>)' BY <1>1, <1>2, <1>3, <1>4, WalksToThen
<1>6. world \in Worlds /\ WireInv(wire, Room + 1) /\ First' = First BY <1>4, WorldStays DEF TypesInv
<1>7. WalksTo(encoded, wire, S, P, <<>>) BY <1>1, <1>2, <1>3
<1>8. /\ encoded[1].type = CallId /\ encoded[1].addr = world.values[1].addr /\ ~Index(encoded[1])
      /\ S[2] = <<Sent(2)>> /\ P[2] = 1 /\ 1 <= Len(wire) /\ wire[1] = world.memory[encoded[1].addr]
      /\ First = 2 /\ 1 \in 1..Len(encoded)
  BY <1>4, <1>6, <1>7, CallWalk
<1>9. CallStage
  <2>1. CallStage \/ Tracked(world, First, encoded, S, P, decoder, memory, decoded) BY DEF Retraces
  <2>2. Tracked(world, First, encoded, S, P, decoder, memory, decoded) => decoder.turn = First BY DEF Tracked
  <2> QED BY <1>4, <1>8, <2>1, <2>2
<1>10. /\ CallKnown /\ <<0, 0>> \in DOMAIN memory
       /\ decoded = <<[type |-> CallId, addr |-> <<0, 0>>, count |-> 0]>>
  <2>1. <<Value(CallId, <<0, 0>>, FALSE)>> # <<>> OBVIOUS
  <2>2. ~CallAhead BY <1>4, <2>1 DEF CallAhead
  <2> QED BY <1>9, <2>2 DEF CallStage
<1>11. PICK call \in Nat : (CallKnown => call = wire[1]) /\ (Called(call) \/ NotCalled(call)) BY ArgumentsTypes
<1> DEFINE methods == Types[world.type].methods
<1>12. PICK c \in DOMAIN methods : world.memory[world.values[1].addr] = c - 1 /\ world.values[2].type = methods[c]
  BY <1>4, <1>6, SendsFacts
<1>13. methods \in Seq(DOMAIN Types) /\ c \in 1..Len(methods)
  <2>1. world.type \in DOMAIN Types BY <1>6, WorldFacts
  <2>2. methods \in Seq(DOMAIN Types) BY <1>4, <2>1, TypeFacts DEF IsCall
  <2> HIDE DEF methods
  <2> QED BY <2>2
<1>14. call = c - 1 /\ call < Len(methods) /\ call + 1 = c
  <2>1. call = c - 1 BY <1>8, <1>10, <1>11, <1>12
  <2> HIDE DEF methods
  <2> QED BY <1>13, <2>1
<1>15. Called(call) BY <1>11, <1>14 DEF NotCalled
<1> DEFINE v == Value(methods[c], Block, FALSE)
<1>16. /\ decoder'.turn = 2 /\ decoder'.pos = 1 /\ decoder'.next = 0 /\ phase' = "decode"
       /\ decoder'.stack = <<v>> /\ decoder'.result = "none"
  BY <1>10, <1>14, <1>15 DEF Called, CallKnown
<1>17. v.type = Sent(2).type
  <2>1. v.type = methods[c] BY DEF Value
  <2>2. Sent(2).type = world.values[2].type BY DEF Sent, Value
  <2> QED BY <1>12, <2>1, <2>2
<1> HIDE DEF v, methods
<1>18. PICK d : d = decoder' OBVIOUS
<1>19. PICK g : g = decoded OBVIOUS
<1> DEFINE e == [type |-> CallId, addr |-> <<0, 0>>, count |-> 0]
<1>20. g \in Seq(Decoded) /\ Len(g) = 2 - 1 /\ g[1] = e
  <2>1. e \in Decoded BY HashFacts DEF Decoded, DAddress
  <2>2. g = <<e>> BY <1>10, <1>19
  <2> HIDE DEF e
  <2> QED BY <2>1, <2>2
<1>21. e.type = CallId /\ e.addr = <<0, 0>> /\ e.count = 0 OBVIOUS
<1> HIDE DEF e
<1>22. \A M : Agrees(world, memory, M, encoded[1], g[1].addr)
  <2> TAKE M
  <2> DEFINE x == encoded[1]
             b == g[1].addr
  <2>1. Types[x.type].kind = "scalar" /\ b = <<0, 0>> BY <1>8, <1>20, <1>21, HashFacts
  <2>2. b \in DOMAIN memory /\ world.memory[x.addr] = memory[b] BY <1>8, <1>10, <2>1 DEF CallKnown
  <2> HIDE DEF x, b
  <2>3. Agrees(world, memory, M, x, b) BY <2>1, <2>2 DEF Agrees
  <2> QED BY <2>3 DEF x, b
<1>23. \A j \in 1..2 - 1 :
         /\ g[j].count = 0 /\ g[j].type = encoded[j].type /\ ~Index(encoded[j])
         /\ \A M : Agrees(world, memory, M, encoded[j], g[j].addr)
  <2>1. \A j \in 1..2 - 1 : j = 1 OBVIOUS
  <2>2. g[1].count = 0 /\ g[1].type = encoded[1].type BY <1>8, <1>20, <1>21
  <2> QED BY <1>8, <1>22, <2>1, <2>2
<1>24. 2 - 1 <= Len(encoded) BY <1>8
<1>25. d.turn = 2 /\ d.pos = P[2] /\ d.next = 0 /\ d.stack = <<v>> BY <1>8, <1>16, <1>18
<1>26. Tracked(world, 2, encoded, S, P, d, memory, g)
  BY <1>6, <1>8, <1>17, <1>20, <1>23, <1>24, <1>25, TrackStart
<1>27. Tracked(world, First, encoded, S, P, decoder, memory, decoded)'
  BY <1>4, <1>6, <1>8, <1>18, <1>19, <1>26
<1> QED BY <1>5, <1>16, <1>27 DEF Retraces

\* The decoder reads the number of the method.
LEMMA CallRetraces ==
  ASSUME TypesInv, encoded \in Seq(History(world)), Len(encoded) >= First, NEW S, NEW P, Retraces(S, P),
         decoder.result = "none", CallStage, Decode, GotValue
  PROVE  CallStage' /\ decoder'.result = "none" /\ phase' = "decode"
<1>1. DecoderInv(decoder, wire) /\ WireInv(wire, Room + 1) /\ world \in Worlds BY DEF TypesInv
<1>2. IsCall /\ decoder.turn = 1 BY DEF CallStage
<1>3. decoder.stack # <<>> BY DEF GotValue
<1>4. CallAhead /\ decoder.next = 0 BY <1>3 DEF CallStage, CallKnown
<1>5. 1 <= Len(wire) BY <1>1, <1>2, CallWalk DEF Retraces
<1>6. /\ CallKnown' \/ (CallLost' /\ ~(1 <= Len(wire)))
      /\ decoder'.turn = 1 /\ phase' = phase /\ phase = "decode" /\ decoder'.result = decoder.result
      /\ UNCHANGED <<wire, verifier, world, foreign, encoder, encoded>>
  BY <1>1, <1>2, <1>4, CallStep
<1>7. DTop.type = CallId /\ DTop.addr = <<0, 0>> /\ decoder.pos = 0 /\ decoded = <<>>
  <2> DEFINE v == Value(CallId, <<0, 0>>, FALSE)
  <2>1. v.type = CallId /\ v.addr = <<0, 0>> BY DEF Value
  <2>2. decoder.stack = <<v>> BY <1>4 DEF CallAhead
  <2> HIDE DEF v
  <2>3. DTop = v BY <2>2 DEF DTop
  <2> QED BY <1>4, <2>1, <2>3 DEF CallAhead
<1>8. DType.kind = "scalar" BY <1>7, HashFacts DEF DType
<1>9. Ahead(1) BY <1>5, <1>7 DEF Ahead
<1>10. GotScalar BY <1>8 DEF GotValue
<1>11. Stores(1, 0, Cell(DTop.addr, Unit(1)), <<>>) BY <1>9, <1>10 DEF GotScalar
<1>12. memory' = Over(Cell(DTop.addr, Unit(1)), memory)
       /\ decoded' = Append(decoded, [type |-> DTop.type, addr |-> DTop.addr, count |-> decoder.next])
  BY <1>11 DEF Stores
<1>13. decoded' = <<[type |-> CallId, addr |-> <<0, 0>>, count |-> 0]>>
  <2> DEFINE e == [type |-> CallId, addr |-> <<0, 0>>, count |-> 0]
  <2>1. decoded' = Append(<<>>, e) BY <1>4, <1>7, <1>12
  <2> HIDE DEF e
  <2>2. decoded' = <<e>> BY <2>1
  <2> QED BY <2>2 DEF e
<1>14. <<0, 0>> \in DOMAIN memory' BY <1>7, <1>12, OverFacts
<1>15. IsCall' BY <1>2, <1>6, WorldStays
<1> QED BY <1>5, <1>6, <1>13, <1>14, <1>15 DEF CallStage

LEMMA GotRetraces ==
  ASSUME TypesInv, MemoryInv, Kept, encoded \in Seq(History(world)), Len(encoded) >= First,
         NEW S, NEW P, Retraces(S, P), decoder.result = "none", Decode, GotValue
  PROVE  Retraces(S, P)'
<1>1. DecoderInv(decoder, wire) /\ WireInv(wire, Room + 1) /\ world \in Worlds BY DEF TypesInv
<1>2. UNCHANGED <<world, wire, encoded>> BY DecodeFrame
<1>3. PICK h : h = encoded OBVIOUS
<1>4. PICK u : u = wire OBVIOUS
<1>5. WalksTo(h, u, S, P, <<>>) BY <1>3, <1>4 DEF Retraces
<1>6. WalksTo(encoded, wire, S, P, <<>>)' BY <1>2, <1>3, <1>4, <1>5, WalksToThen
<1>7. WalksTo(encoded, wire, S, P, <<>>) BY <1>3, <1>4, <1>5
<1>8. First' = First /\ First \in {1, 2} /\ (IsCall <=> First = 2) BY <1>1, <1>2, WorldStays, FirstFacts
<1>9. CASE CallStage
  <2>1. CallStage' /\ decoder'.result = "none" BY <1>9, CallRetraces
  <2> QED BY <1>6, <2>1 DEF Retraces
<1>10. CASE Tracked(world, First, encoded, S, P, decoder, memory, decoded)
  <2> DEFINE k == Len(decoded) + 1
  <2>1. PICK f : f = First OBVIOUS
  <2>2. Tracked(world, f, encoded, S, P, decoder, memory, decoded) /\ f \in {1, 2} BY <1>8, <1>10, <2>1
  <2>3. \/ k \in DOMAIN encoded /\ Refuses(encoded[k])
        \/ /\ Tracked(world, f, encoded, S, P, decoder', memory', decoded')
           /\ decoder'.result = decoder.result /\ phase' = phase
    BY <1>1, <1>7, <2>2, TrackValue
  <2>4. CASE k \in DOMAIN encoded /\ Refuses(encoded[k])
    <3>1. DecodeFails /\ Index(encoded[k]) /\ ~(encoded[k].units[2] < decoder.next + 1) BY <2>4 DEF Refuses
    <3>2. decoder.turn = f /\ decoded \in Seq(Decoded) /\ Noted(f, decoder, decoded) BY <2>2 DEF Tracked
    <3>3. ~(IsCall /\ decoder.turn = 1) BY <1>8, <2>1, <3>2
    <3>4. decoder'.result = "fail" /\ decoded' = decoded
      <4>1. decoder' = [decoder EXCEPT !.result = "fail"] /\ decoded' = decoded BY <3>1, <3>3 DEF DecodeFails
      <4>2. decoder \in DecoderType BY <1>1 DEF DecoderInv
      <4>3. [decoder EXCEPT !.result = "fail"].result = "fail" BY <4>2 DEF DecoderType
      <4> QED BY <4>1, <4>3
    <3>5. encoded[k].units[2] \in Nat
      <4>1. k \in 1..Len(encoded) BY <2>4
      <4> HIDE DEF k
      <4> QED BY <1>7, <3>1, <4>1, IndexUnits
    <3>6. decoder.next \in Nat BY <1>1 DEF DecoderInv, DecoderType
    <3> DEFINE c == encoded[k].units[2]
    <3>7. c \in Nat /\ ~(c < decoder.next + 1) BY <3>1, <3>5
    <3>8. c # 0 /\ \A j \in 1..Len(decoded) : decoded[j].count < c
      <4> HIDE DEF c
      <4>1. c # 0 BY <3>6, <3>7
      <4>2. \A j \in 1..Len(decoded) : decoded[j].count < c
        <5> TAKE j \in 1..Len(decoded)
        <5>1. decoded[j].count \in Nat
          <6>1. decoded[j] \in Decoded BY <3>2
          <6> QED BY <6>1 DEF Decoded
        <5>2. CASE j >= f
          <6>1. j \in f..Len(decoded) BY <2>2, <5>2
          <6>2. decoded[j].count < decoder.next BY <3>2, <6>1 DEF Noted
          <6> DEFINE y == decoded[j].count
          <6>3. y \in Nat /\ y < decoder.next BY <5>1, <6>2
          <6> HIDE DEF y
          <6>4. y < c BY <3>6, <3>7, <6>3
          <6> QED BY <6>4 DEF y
        <5>3. CASE ~(j >= f)
          <6>1. j \in 1..f - 1 BY <2>2, <5>3
          <6>2. decoded[j].count = 0 BY <3>2, <6>1 DEF Noted
          <6> QED BY <3>7, <4>1, <6>2
        <5> QED BY <5>2, <5>3
      <4> QED BY <4>1, <4>2
    <3>9. Missed(encoded, decoded)
      <4>1. DOMAIN decoded = 1..Len(decoded) BY <3>2
      <4> QED BY <2>4, <3>1, <3>8, <4>1 DEF Missed
    <3>10. Missed(encoded, decoded)' BY <1>2, <3>4, <3>9
    <3> QED BY <1>6, <3>4, <3>10 DEF Retraces
  <2>5. CASE /\ Tracked(world, f, encoded, S, P, decoder', memory', decoded')
             /\ decoder'.result = decoder.result
    <3>1. Tracked(world, First, encoded, S, P, decoder, memory, decoded)' BY <1>2, <1>8, <2>1, <2>5
    <3> QED BY <1>6, <2>5, <3>1 DEF Retraces
  <2> QED BY <2>3, <2>4, <2>5
<1> QED BY <1>9, <1>10 DEF Retraces

LEMMA EndRetraces ==
  ASSUME TypesInv, encoded \in Seq(History(world)), NEW S, NEW P, Retraces(S, P), decoder.result = "none", DecodeEnd
  PROVE  Retraces(S, P)'
<1>1. decoder \in DecoderType /\ world \in Worlds BY DEF TypesInv, DecoderInv
<1>2. UNCHANGED <<world, wire, encoded, memory, decoded>> BY DEF DecodeEnd
<1>3. PICK h : h = encoded OBVIOUS
<1>4. PICK u : u = wire OBVIOUS
<1>5. WalksTo(h, u, S, P, <<>>) BY <1>3, <1>4 DEF Retraces
<1>6. WalksTo(encoded, wire, S, P, <<>>)' BY <1>2, <1>3, <1>4, <1>5, WalksToThen
<1>7. First' = First BY <1>2, WorldStays
<1>8. Tracked(world, First, encoded, S, P, decoder, memory, decoded)
  <2>1. CallStage => IsCall /\ decoder.turn = 1 BY DEF CallStage
  <2>2. IsCall => decoder.turn = 2 BY DEF DecodeEnd
  <2> QED BY <2>1, <2>2 DEF Retraces
<1> DEFINE e == [decoder EXCEPT !.result = "ok"]
<1>9. decoder' = e BY DEF DecodeEnd
<1>10. /\ e.stack = decoder.stack /\ e.pos = decoder.pos /\ e.turn = decoder.turn /\ e.next = decoder.next
       /\ e.table = decoder.table /\ e.result = "ok"
  BY <1>1 DEF DecoderType
<1> HIDE DEF e
<1>11. PICK f : f = First OBVIOUS
<1>12. Noted(f, decoder, decoded) => Noted(f, e, decoded) BY <1>10 DEF Noted
<1>13. Tracked(world, f, encoded, S, P, e, memory, decoded) BY <1>8, <1>10, <1>11, <1>12 DEF Tracked
<1>14. Tracked(world, First, encoded, S, P, decoder, memory, decoded)' BY <1>2, <1>7, <1>9, <1>11, <1>13
<1> QED BY <1>6, <1>9, <1>10, <1>14 DEF Retraces

\* How a decoding ends.
Settled ==
  /\ phase # "done" => decoder.result = "none"
  /\ phase = "done" =>
       \/ decoder.result = "fail"
       \/ decoder.result = "ok" /\ decoder.stack = <<>> /\ decoder.turn = First
  /\ phase = "done" => decoder.turn # 0

LEMMA SettledInit == Init => Settled
<1> SUFFICES ASSUME Init PROVE Settled OBVIOUS
<1>1. phase = "encode" BY DEF Init
<1>2. decoder = NewDecoder BY DEF Init, NewDecoder
<1> QED BY <1>1, <1>2 DEF Settled, NewDecoder

LEMMA DecodeSettled ==
  ASSUME TypesInv, Settled, Decode
  PROVE  Settled'
<1>1. phase = "decode" /\ UNCHANGED <<world, wire, foreign, encoder, verifier, encoded>> BY DecodeFrame
<1>2. DecoderInv(decoder, wire) /\ WireInv(wire, Room + 1) /\ world \in Worlds /\ CallInv BY DEF TypesInv
<1>3. decoder.result = "none" /\ First' = First BY <1>1, WorldStays DEF Settled
<1>4. DecodeStart \/ DecodeArguments \/ DecodeEnd \/ GotValue BY <1>2, GotForm
<1>5. decoder \in DecoderType BY <1>2 DEF DecoderInv
<1> DEFINE e == [decoder EXCEPT !.result = "fail"]
<1>6. e.result = "fail" /\ e.turn = decoder.turn BY <1>5 DEF DecoderType
<1> HIDE DEF e
<1>7. CASE DecodeStart
  <2>1. phase' = phase /\ decoder'.result = decoder.result BY <1>7, DecodeStartTypes DEF DecodeStart
  <2> QED BY <1>1, <1>3, <2>1 DEF Settled
<1>8. CASE DecodeArguments
  <2>1. decoder.turn = 1 BY <1>8 DEF DecodeArguments
  <2>2. PICK call : Called(call) \/ NotCalled(call) BY <1>8, ArgumentsTypes
  <2>3. CASE Called(call) BY <1>3, <2>3 DEF Called, Settled
  <2>4. CASE NotCalled(call)
    <3>1. phase' = "done" BY <2>4 DEF NotCalled
    <3>2. decoder' = e BY <1>1, <1>8, <3>1 DEF DecodeArguments, e
    <3> QED BY <1>6, <2>1, <3>1, <3>2 DEF Settled
  <2> QED BY <2>2, <2>3, <2>4
<1>9. CASE DecodeEnd
  <2>1. /\ decoder'.turn = decoder.turn /\ decoder'.stack = decoder.stack /\ decoder'.result = "ok"
        /\ phase' = "done"
    BY <1>9, EndTypes
  <2>2. decoder.stack = <<>> /\ decoder.turn = First /\ First \in {1, 2}
    <3>1. decoder.stack = <<>> BY <1>9 DEF DecodeEnd
    <3>2. CASE IsCall BY <1>9, <3>1, <3>2 DEF DecodeEnd, First
    <3>3. CASE ~IsCall BY <1>9, <3>1, <3>3 DEF DecodeEnd, First
    <3> QED BY <3>2, <3>3
  <2> QED BY <1>3, <2>1, <2>2 DEF Settled
<1>10. CASE GotValue
  <2>1. \/ DecodeFails
        \/ \E n, skip, cells, values :
             /\ n \in Nat /\ skip \in Nat /\ values \in Seq(DItem) /\ decoder.pos + n <= Len(wire)
             /\ Stores(n, skip, cells, values)
    <3>1. DecodeStep \/ DecodeStart \/ DecodeArguments \/ DecodeEnd BY <1>2, DecodeForm
    <3>2. decoder.stack # <<>> BY <1>10 DEF GotValue
    <3>3. ~DecodeArguments /\ ~DecodeEnd BY <3>2 DEF DecodeArguments, DecodeEnd
    <3>4. decoder.turn # 0
      <4> SUFFICES ASSUME decoder.turn = 0 PROVE FALSE OBVIOUS
      <4>1. decoder.stack = <<>> BY <1>2 DEF CallInv, NewDecoder
      <4> QED BY <3>2, <4>1
    <3>5. ~DecodeStart BY <3>4 DEF DecodeStart
    <3> QED BY <3>1, <3>3, <3>5 DEF DecodeStep, StoresSome
  <2>2. decoder.turn # 0
    <3> SUFFICES ASSUME decoder.turn = 0 PROVE FALSE OBVIOUS
    <3>1. decoder.stack = <<>> BY <1>2 DEF CallInv, NewDecoder
    <3> QED BY <1>10, <3>1 DEF GotValue
  <2>3. CASE DecodeFails
    <3>1. CASE IsCall /\ decoder.turn = 1
      <4>1. phase' = phase /\ decoder'.result = decoder.result BY <1>2, <2>3, <3>1, FailsTypes
      <4> QED BY <1>1, <1>3, <4>1 DEF Settled
    <3>2. CASE ~(IsCall /\ decoder.turn = 1)
      <4>1. decoder' = e /\ phase' = "done" BY <2>3, <3>2 DEF DecodeFails, e
      <4> QED BY <1>6, <2>2, <4>1 DEF Settled
    <3> QED BY <3>1, <3>2
  <2>4. CASE ~DecodeFails
    <3>1. PICK n, skip, cells, values :
            /\ n \in Nat /\ skip \in Nat /\ values \in Seq(DItem) /\ decoder.pos + n <= Len(wire)
            /\ Stores(n, skip, cells, values)
      BY <2>1, <2>4
    <3>2. decoder'.result = decoder.result BY <1>2, <1>10, <3>1, StoresTypes DEF GotValue
    <3>3. phase' = phase BY <3>1 DEF Stores
    <3> QED BY <1>1, <1>3, <3>2, <3>3 DEF Settled
  <2> QED BY <2>3, <2>4
<1> QED BY <1>4, <1>7, <1>8, <1>9, <1>10

\* The steps of the encoder and of the verifier are not steps of the decoder.
LEMMA OthersStay ==
  ASSUME TypesInv, Encode \/ Deliver \/ Verify
  PROVE  /\ phase \in {"encode", "deliver", "verify"} /\ UNCHANGED <<decoder, decoded, memory>>
         /\ phase' # "done" /\ decoder = NewDecoder
<1>1. CASE Encode
  BY <1>1 DEF Encode, EncodeStart, EncodeScalar, EncodeTuple, EncodeArray, EncodeStruct, EncodePtr, EncodeAny,
              EncodeAnyEnd, EncodeUnion, EncodeFail, EncodeEnd, Encoding, Encodes, TypesInv
<1>2. CASE Deliver BY <1>2 DEF Deliver, TypesInv
<1>3. CASE Verify
  <2>1. VerifyStep \/ VerifyEnd BY <1>3, VerifyForm DEF TypesInv
  <2> QED BY <2>1 DEF VerifyStep, VerifyEnd, Advances, Verified, TypesInv
<1> QED BY <1>1, <1>2, <1>3

LEMMA SettledStep ==
  ASSUME TypesInv, Settled, [Next]_vars
  PROVE  Settled'
<1>1. CASE Encode \/ Deliver \/ Verify
  <2>1. decoder' = decoder /\ phase' # "done" /\ phase # "done" BY <1>1, OthersStay
  <2> QED BY <2>1 DEF Settled
<1>2. CASE Decode BY <1>2, DecodeSettled
<1>3. CASE UNCHANGED vars
  <2>1. UNCHANGED <<world, phase, decoder>> BY <1>3 DEF vars
  <2>2. First' = First BY <2>1, WorldStays
  <2> QED BY <2>1, <2>2 DEF Settled
<1> QED BY <1>1, <1>2, <1>3 DEF Next

\* What arrives unchanged is decoded along the walk of the encoder.
RoundInv == Settled /\ (Complete /\ decoder.turn # 0 /\ ~foreign => Along)

LEMMA RoundInit == Init => RoundInv
<1> SUFFICES ASSUME Init PROVE RoundInv OBVIOUS
<1>1. decoder.turn = 0
  <2>1. decoder = NewDecoder BY DEF Init, NewDecoder
  <2> QED BY <2>1 DEF NewDecoder
<1> QED BY <1>1, SettledInit DEF RoundInv

LEMMA RoundStep ==
  ASSUME LaidOut, TypesInv, EncodedInv, WholeInv, MemoryInv, RoundInv, [Next]_vars
  PROVE  RoundInv'
<1>1. Settled' BY SettledStep DEF RoundInv
<1>2. encoded \in Seq(History(world)) BY DEF EncodedInv
<1> SUFFICES ASSUME Complete', decoder'.turn # 0, ~foreign' PROVE Along' BY <1>1 DEF RoundInv
<1>3. CASE Encode \/ Deliver \/ Verify
  <2>1. decoder' = NewDecoder BY <1>3, OthersStay
  <2> QED BY <2>1 DEF NewDecoder
<1>4. CASE UNCHANGED vars
  <2>1. UNCHANGED <<world, phase, wire, foreign, encoder, decoder, memory, encoded, decoded>> BY <1>4 DEF vars
  <2>2. Along BY <2>1 DEF RoundInv, Complete
  <2>3. PICK S, P : Retraces(S, P) BY <2>2 DEF Along
  <2>4. Retraces(S, P)' BY <2>1, <2>3, RetracesThen
  <2> QED BY <2>4 DEF Along
<1>5. CASE Decode
  <2>1. phase = "decode" /\ UNCHANGED <<world, wire, foreign, encoder, verifier, encoded>> BY <1>5, DecodeFrame
  <2>2. Complete /\ ~foreign BY <2>1 DEF Complete
  <2>3. Whole BY <2>1, <2>2 DEF WholeInv
  <2>4. Len(encoded) >= First BY <2>3 DEF Whole
  <2>5. decoder.result = "none" BY <2>1 DEF RoundInv, Settled
  <2>6. DecodeStart \/ DecodeArguments \/ DecodeEnd \/ GotValue BY <1>5, GotForm DEF TypesInv
  <2>7. Kept BY MemoryStep
  <2>8. CASE DecodeStart BY <1>2, <2>3, <2>5, <2>8, StartRetraces
  <2>9. CASE ~DecodeStart
    <3>1. decoder.turn # 0
      <4> SUFFICES ASSUME decoder.turn = 0 PROVE FALSE OBVIOUS
      <4>1. decoder = NewDecoder BY DEF TypesInv, CallInv
      <4>2. decoder.stack = <<>> /\ decoder.turn = 0 BY <4>1 DEF NewDecoder
      <4>3. ~GotValue BY <4>2 DEF GotValue
      <4>4. ~DecodeArguments /\ ~DecodeEnd BY <4>2 DEF DecodeArguments, DecodeEnd
      <4> QED BY <2>6, <2>9, <4>3, <4>4
    <3>2. PICK S, P : Retraces(S, P) BY <2>2, <3>1 DEF RoundInv, Along
    <3>3. CASE DecodeArguments BY <1>2, <2>4, <2>5, <3>2, <3>3, ArgumentsRetraces DEF Along
    <3>4. CASE DecodeEnd BY <1>2, <2>5, <3>2, <3>4, EndRetraces DEF Along
    <3>5. CASE GotValue BY <1>2, <1>5, <2>4, <2>5, <2>7, <3>2, <3>5, GotRetraces DEF Along
    <3> QED BY <2>6, <2>9, <3>3, <3>4, <3>5
  <2> QED BY <2>8, <2>9
<1> QED BY <1>3, <1>4, <1>5 DEF Next

-----------------------------------------------------------------------------
(* What the receiver has in the end.                                       *)

\* Encoder and decoder count alike, or the indices are those of the top.
Agreeing == TopOnly \/ CountsAgree

LEMMA NotMissed ==
  ASSUME encoded \in Seq(History(world)), NEW S, NEW P, WalksTo(encoded, wire, S, P, <<>>), Agreeing
  PROVE  ~Missed(encoded, decoded)
<1> SUFFICES ASSUME NEW k \in DOMAIN encoded, Index(encoded[k]), encoded[k].units[2] # 0,
                    \A j \in DOMAIN decoded : decoded[j].count < encoded[k].units[2]
             PROVE  FALSE
  BY DEF Missed
<1>1. Types[encoded[k].type].kind = "ptr" /\ encoded[k].units[1] = PtrIndex BY DEF Index
<1>2. ~TopOnly BY <1>1 DEF TopOnly
<1>3. PICK j \in DOMAIN encoded \cap DOMAIN decoded :
        encoded[j].count = encoded[k].units[2] /\ decoded[j].count = encoded[j].count
  BY <1>1, <1>2 DEF Agreeing, CountsAgree
<1>4. k \in 1..Len(encoded) OBVIOUS
<1>5. encoded[k].units[2] \in Nat BY <1>4, IndexUnits
<1> DEFINE c == encoded[k].units[2]
<1>6. c < c /\ c \in Nat BY <1>3, <1>5
<1> HIDE DEF c
<1> QED BY <1>6

\* All that was walked has been decoded.
AllKnown(f) ==
  /\ decoded \in Seq(Decoded) /\ Len(decoded) = Len(encoded) /\ Noted(f, decoder, decoded)
  /\ \A k \in 1..Len(encoded) : Known(world, f, encoded, memory, Passed(encoded, decoded), decoded, k)

LEMMA TrackedEnd ==
  ASSUME encoded \in Seq(History(world)), NEW f \in {1, 2}, NEW S, NEW P, WalksTo(encoded, wire, S, P, <<>>),
         Tracked(world, f, encoded, S, P, decoder, memory, decoded), decoder.stack = <<>>
  PROVE  AllKnown(f)
<1> DEFINE n == Len(decoded)
           M == Passed(encoded, decoded)
<1>1. /\ decoded \in Seq(Decoded) /\ n <= Len(encoded) /\ Alike(S[n + 1], decoder.stack)
      /\ Noted(f, decoder, decoded)
      /\ \A k \in 1..n : Known(world, f, encoded, memory, M \cup Paired(S[n + 1], decoder.stack), decoded, k)
  BY DEF Tracked
<1>2. n \in Nat /\ Len(encoded) \in Nat BY <1>1
<1>3. n = Len(encoded)
  <2> SUFFICES ASSUME n # Len(encoded) PROVE FALSE OBVIOUS
  <2>1. n + 1 \in 1..Len(encoded) BY <1>1, <1>2
  <2> DEFINE s == S[n + 1]
  <2>2. Walked(encoded[n + 1], wire, s, P[n + 1], S[n + 1 + 1], P[n + 1 + 1]) BY <2>1, WalkedFacts
  <2>3. s # <<>> BY <2>2 DEF Walked
  <2>4. s \in Seq(Item(world))
    <3>1. n + 1 \in 1..Len(encoded) + 1 BY <1>2, <2>1
    <3>2. S \in [1..Len(encoded) + 1 -> Seq(Item(world))] BY WalkedFacts
    <3> HIDE DEF n
    <3> QED BY <3>1, <3>2
  <2>5. Len(s) = Len(decoder.stack) BY <1>1 DEF Alike
  <2>6. Len(s) = 0
    <3>1. Len(<<>>) = 0 OBVIOUS
    <3> QED BY <2>5, <3>1
  <2> HIDE DEF s
  <2> QED BY <2>3, <2>4, <2>6
<1>4. Paired(S[n + 1], decoder.stack) = {}
  <2> DEFINE none == <<>>
             s == S[n + 1]
  <2>1. \A i \in 1..Len(none) : FALSE OBVIOUS
  <2>2. decoder.stack = none OBVIOUS
  <2> HIDE DEF none, s
  <2>3. Paired(s, none) = {} BY <2>1 DEF Paired
  <2> QED BY <2>2, <2>3 DEF s
<1>5. M \cup Paired(S[n + 1], decoder.stack) = M BY <1>4
<1> HIDE DEF M
<1>6. \A k \in 1..n : Known(world, f, encoded, memory, M, decoded, k) BY <1>1, <1>5
<1> QED BY <1>1, <1>3, <1>6 DEF AllKnown, M

LEMMA PassedLinked ==
  ASSUME encoded \in Seq(History(world)), NEW f, AllKnown(f), NEW p \in Passed(encoded, decoded)
  PROVE  Linked(p[1], p[2], p[3])
<1>1. PICK j \in 1..Len(decoded) : p = <<encoded[j].type, encoded[j].addr, decoded[j].addr>> BY DEF Passed
<1>2. p[1] = encoded[j].type /\ p[2] = encoded[j].addr /\ p[3] = decoded[j].addr BY <1>1
<1>3. j \in DOMAIN encoded /\ j \in DOMAIN decoded /\ j \in 1..Len(encoded) BY DEF AllKnown
<1>4. decoded[j].type = encoded[j].type BY <1>3 DEF AllKnown, Known
<1> QED BY <1>2, <1>3, <1>4 DEF Linked

\* Of the values that count, each has a count of its own.
LEMMA CountOnce ==
  ASSUME world \in Worlds, encoded \in Seq(History(world)), Whole,
         NEW i \in First..Len(encoded), NEW j \in First..Len(encoded), encoded[i].count = encoded[j].count
  PROVE  i = j
<1>1. First \in {1, 2} BY FirstFacts
<1>2. i \in 1..Len(encoded) /\ j \in 1..Len(encoded) /\ i \in Nat /\ j \in Nat BY <1>1
<1>3. encoded[i] \in History(world) BY <1>2
<1>4. encoded[i].count \in Nat BY <1>3 DEF History
<1> DEFINE c == encoded[i].count
<1>5. c \in Nat /\ encoded[j].count = c BY <1>4
<1>6. i < j => encoded[i].count < encoded[j].count BY DEF Whole, Numbered, Rising
<1>7. j < i => encoded[j].count < encoded[i].count BY DEF Whole, Numbered, Rising
<1>8. ~(c < c) BY <1>5
<1>9. ~(i < j) /\ ~(j < i) BY <1>5, <1>6, <1>7, <1>8
<1> QED BY <1>2, <1>9

\* The value that an index leads to was counted as the encoder counted it.
LEMMA CountedAlike ==
  ASSUME world \in Worlds, encoded \in Seq(History(world)), Whole, Agreeing, AllKnown(First),
         NEW k \in 1..Len(encoded), Index(encoded[k])
  PROVE  \E j \in First..k :
           /\ encoded[j].addr = world.memory[encoded[k].addr] /\ decoded[j].count = encoded[k].units[2]
           /\ <<encoded[j].type, encoded[j].addr>> \in Referred(world)
<1> DEFINE a == world.memory[encoded[k].addr]
           c == encoded[k].units[2]
<1>1. First \in {1, 2} BY FirstFacts
<1>2. PICK j \in First..k : encoded[j].addr = a /\ encoded[j].count = c /\ <<encoded[j].type, a>> \in Referred(world)
  BY DEF Whole, Numbered, Pointing, Counted
<1>3. j \in First..Len(encoded) /\ First \in First..Len(encoded) /\ First <= Len(decoded)
  BY <1>1 DEF AllKnown
<1>4. decoded[First].count = 0
  <2>1. Len(decoded) >= First BY <1>1, <1>3 DEF AllKnown
  <2> QED BY <2>1 DEF AllKnown, Noted
<1>5. encoded[First].count = 0
  <2>1. Len(encoded) >= First BY <1>1, <1>3
  <2> QED BY <2>1 DEF Whole, Numbered, OnTop
<1>6. c = 0 => decoded[j].count = c
  <2> SUFFICES ASSUME c = 0 PROVE decoded[j].count = c OBVIOUS
  <2>1. j = First BY <1>2, <1>3, <1>5, CountOnce
  <2> QED BY <1>4, <2>1
<1>7. Types[encoded[k].type].kind = "ptr" /\ encoded[k].units[1] = PtrIndex /\ k \in DOMAIN encoded BY DEF Index
<1>8. CASE TopOnly
  <2>1. c = 0 BY <1>7, <1>8 DEF TopOnly
  <2> QED BY <1>2, <1>6, <2>1
<1>9. CASE CountsAgree
  <2>1. PICK i \in DOMAIN encoded \cap DOMAIN decoded : encoded[i].count = c /\ decoded[i].count = encoded[i].count
    BY <1>7, <1>9 DEF CountsAgree
  <2>2. i \in 1..Len(encoded) BY <2>1
  <2>3. CASE i >= First
    <3>1. i \in First..Len(encoded) BY <1>1, <2>2, <2>3
    <3>2. i = j BY <1>2, <1>3, <2>1, <3>1, CountOnce
    <3> QED BY <1>2, <2>1, <3>2
  <2>4. CASE ~(i >= First)
    <3>1. i \in 1..First - 1 BY <1>1, <2>2, <2>4
    <3>2. decoded[i].count = 0 BY <3>1 DEF AllKnown, Noted
    <3>3. c = 0 BY <2>1, <3>2
    <3> QED BY <1>2, <1>6, <3>3
  <2> QED BY <2>3, <2>4
<1> QED BY <1>8, <1>9 DEF Agreeing

\* A pointer leads to what is referred to.
LEMMA PointsReferred ==
  ASSUME world \in Worlds, encoded \in Seq(History(world)), NEW S, NEW P, WalksTo(encoded, wire, S, P, <<>>),
         NEW k \in 1..Len(encoded), Index(encoded[k])
  PROVE  <<Types[encoded[k].type].elem, world.memory[encoded[k].addr]>> \in Referred(world)
<1> DEFINE x == encoded[k]
           q == <<Types[x.type].elem, world.memory[x.addr]>>
<1>1. Walked(x, wire, S[k], P[k], S[k + 1], P[k + 1]) /\ S[k] \in Seq(Item(world))
  <2>1. S \in [1..Len(encoded) + 1 -> Seq(Item(world))] BY WalkedFacts
  <2>2. k \in 1..Len(encoded) + 1 OBVIOUS
  <2> QED BY <2>1, <2>2, WalkedFacts
<1>2. x \in History(world) /\ world.memory[x.addr] # Nil /\ Index(x) BY IndexUnits
<1> HIDE DEF x, q
<1> DEFINE v == Head(S[k])
<1>3. S[k] # <<>> /\ v.type = x.type /\ v.addr = x.addr BY <1>1 DEF Walked
<1>4. v \in Item(world) BY <1>1, <1>3, PushFacts
<1>5. x.type \in DOMAIN Types BY <1>2 DEF History
<1>6. AnyEnd.type = "anyEnd" BY DEF AnyEnd, Value
<1>7. v # AnyEnd BY <1>3, <1>5, <1>6, EtnCodecAssumption
<1>8. Represents(world, x.type, x.addr) BY <1>3, <1>4, <1>7, ItemFacts
<1>9. Types[x.type].kind = "ptr" BY <1>2 DEF Index
<1>10. q \in Places(world) BY <1>2, <1>8, <1>9 DEF Represents, q
<1>11. q \in Refers(world, v.type, v.addr)
  <2> HIDE DEF v
  <2>1. q \in Refers(world, x.type, x.addr) BY <1>9, <1>10 DEF Refers, q
  <2> QED BY <1>3, <2>1
<1> HIDE DEF v
<1>12. q \in Referred(world) BY <1>4, <1>7, <1>11, Referring
<1> QED BY <1>12 DEF q, x

\* An index leads to the value that was received for the one it was sent for.
LEMMA PointerLinked ==
  ASSUME OneTypeEach, world \in Worlds, encoded \in Seq(History(world)), Whole, Agreeing,
         NEW S, NEW P, WalksTo(encoded, wire, S, P, <<>>), AllKnown(First),
         NEW k \in 1..Len(encoded), Index(encoded[k])
  PROVE  /\ world.memory[encoded[k].addr] # Nil /\ memory[decoded[k].addr] # Nil
         /\ Linked(Types[encoded[k].type].elem, world.memory[encoded[k].addr], memory[decoded[k].addr])
<1> DEFINE a == world.memory[encoded[k].addr]
           e == Types[encoded[k].type].elem
<1>1. First \in {1, 2} BY FirstFacts
<1>2. PICK j \in First..k :
        /\ encoded[j].addr = a /\ decoded[j].count = encoded[k].units[2]
        /\ <<encoded[j].type, encoded[j].addr>> \in Referred(world)
  BY CountedAlike
<1>3. j \in 1..Len(encoded) BY <1>1
<1>4. a # Nil BY IndexUnits
<1>5. memory[decoded[k].addr] = decoded[j].addr
  <2>1. Points(First, memory, encoded, decoded, k) BY DEF AllKnown, Known
  <2> QED BY <1>2, <2>1 DEF Points
<1>6. decoded[j].addr # Nil
  <2>1. decoded[j] \in Decoded BY <1>3 DEF AllKnown
  <2>2. decoded[j].addr \in Nat \X Nat BY <2>1 DEF Decoded, DAddress
  <2> QED BY <2>2, EtnCodecAssumption
<1>7. encoded[j].type = e
  <2> DEFINE p == <<encoded[j].type, encoded[j].addr>>
             q == <<e, a>>
  <2>1. p \in Referred(world) /\ q \in Referred(world) BY <1>2, PointsReferred
  <2>2. p[2] = q[2] /\ p[1] = encoded[j].type /\ q[1] = e BY <1>2
  <2> HIDE DEF p, q
  <2> QED BY <2>1, <2>2 DEF OneTypeEach
<1>8. decoded[j].type = encoded[j].type BY <1>3 DEF AllKnown, Known
<1>9. j \in DOMAIN encoded /\ j \in DOMAIN decoded BY <1>3 DEF AllKnown
<1>10. Linked(e, a, decoded[j].addr) BY <1>2, <1>7, <1>8, <1>9 DEF Linked
<1> QED BY <1>4, <1>5, <1>6, <1>10

\* The elements that agree are the same.
LEMMA RowSame ==
  ASSUME NEW M, \A p \in M : Linked(p[1], p[2], p[3]), NEW t, NEW a, NEW b, NEW n,
         AgreesRow(world, memory, M, t, a, b, n)
  PROVE  \A i \in 0..n - 1 : SameElement(t, a, b, i)
<1> TAKE i \in 0..n - 1
<1> DEFINE e == Types[t].elem
<1>1. CASE IsScalar(e) BY <1>1 DEF AgreesRow, SameElement
<1>2. CASE ~IsScalar(e)
  <2> DEFINE c == At(a, i * Types[e].size)
             d == At(b, i * Types[e].size)
  <2>1. <<e, c, d>> \in M BY <1>2 DEF AgreesRow
  <2> HIDE DEF c, d
  <2>2. Linked(e, c, d) BY <2>1
  <2> QED BY <1>2, <2>2 DEF SameElement, c, d
<1> QED BY <1>1, <1>2

LEMMA AgreesSame ==
  ASSUME NEW M, \A p \in M : Linked(p[1], p[2], p[3]), NEW x, x.type \in DOMAIN Types, NEW b,
         Agrees(world, memory, M, x, b),
         Index(x) => /\ world.memory[x.addr] # Nil /\ memory[b] # Nil
                     /\ Linked(Types[x.type].elem, world.memory[x.addr], memory[b])
  PROVE  SameValue(x.type, x.addr, b)
<1> DEFINE t == x.type
           kind == Types[t].kind
           sent == world.memory[x.addr]
           got == memory[b]
<1>1. kind \in Kinds /\ kind \notin {"dict", "iface"} BY EtnCodecAssumption DEF Agrees
<1>2. CASE kind = "scalar" BY <1>2 DEF Agrees, SameValue
<1>3. CASE kind \in {"string", "tuple"}
  <2>1. sent.len = got.len /\ AgreesRow(world, memory, M, t, sent.data, got.data, sent.len) BY <1>3 DEF Agrees
  <2> DEFINE n == sent.len
             c == sent.data
             d == got.data
  <2>2. AgreesRow(world, memory, M, t, c, d, n) BY <2>1
  <2> HIDE DEF n, c, d
  <2>3. \A i \in 0..n - 1 : SameElement(t, c, d, i) BY <2>2, RowSame
  <2>4. \A i \in 0..sent.len - 1 : SameElement(t, sent.data, got.data, i) BY <2>3 DEF n, c, d
  <2> QED BY <1>3, <2>1, <2>4 DEF SameValue
<1>4. CASE kind = "array"
  <2>1. AgreesRow(world, memory, M, t, x.addr, b, Types[t].size) BY <1>4 DEF Agrees
  <2>2. \A i \in 0..Types[t].size - 1 : SameElement(t, x.addr, b, i) BY <2>1, RowSame
  <2> QED BY <1>4, <2>2 DEF SameValue
<1>5. CASE kind = "struct"
  <2>1. ASSUME NEW i \in DOMAIN Types[t].fields
        PROVE  Linked(Types[t].fields[i], At(x.addr, Types[t].offsets[i]), At(b, Types[t].offsets[i]))
    <3> DEFINE e == Types[t].fields[i]
               c == At(x.addr, Types[t].offsets[i])
               d == At(b, Types[t].offsets[i])
    <3>1. <<e, c, d>> \in M BY <1>5 DEF Agrees
    <3> HIDE DEF e, c, d
    <3>2. Linked(e, c, d) BY <3>1
    <3> QED BY <3>2 DEF e, c, d
  <2> QED BY <1>5, <2>1 DEF SameValue
<1>6. CASE kind = "ptr"
  <2>1. AgreesPtr(world, memory, M, x, b) BY <1>6 DEF Agrees
  <2> DEFINE e == Types[t].elem
  <2>2. (sent = Nil) = (got = Nil) /\ (sent # Nil => Linked(e, sent, got))
    <3> HIDE DEF e, sent, got
    <3>1. CASE sent = Nil /\ got = Nil BY <3>1
    <3>2. CASE sent # Nil /\ got # Nil /\ <<e, sent, got>> \in M
      <4>1. Linked(e, sent, got) BY <3>2
      <4> QED BY <3>2, <4>1
    <3>3. CASE sent # Nil /\ x.units[1] = PtrIndex
      <4>1. Index(x) BY <1>6, <3>3 DEF Index
      <4>2. got # Nil /\ Linked(e, sent, got) BY <4>1 DEF e, sent, got
      <4> QED BY <3>3, <4>2
    <3> QED BY <2>1, <3>1, <3>2, <3>3 DEF AgreesPtr, e, sent, got
  <2> QED BY <1>6, <2>2 DEF SameValue
<1>7. CASE kind \in {"any", "union"}
  <2>1. sent.type = got.type /\ <<sent.type, sent.data, got.data>> \in M BY <1>7 DEF Agrees
  <2> DEFINE e == sent.type
             c == sent.data
             d == got.data
  <2>2. <<e, c, d>> \in M BY <2>1
  <2> HIDE DEF e, c, d
  <2>3. Linked(e, c, d) BY <2>2
  <2>4. Linked(sent.type, sent.data, got.data) BY <2>3 DEF e, c, d
  <2> QED BY <1>7, <2>1, <2>4 DEF SameValue
<1> QED BY <1>1, <1>2, <1>3, <1>4, <1>5, <1>6, <1>7 DEF Kinds

LEMMA RoundEnough ==
  ASSUME OneTypeEach, TypesInv, EncodedInv, WholeInv, RoundInv
  PROVE  RoundTrip
<1> SUFFICES ASSUME phase = "done", ~foreign, Complete, Agreeing PROVE SameValues BY DEF RoundTrip, Agreeing
<1>1. world \in Worlds /\ encoded \in Seq(History(world)) BY DEF TypesInv, EncodedInv
<1>2. Whole BY DEF WholeInv
<1>3. PICK S, P : Retraces(S, P) BY DEF RoundInv, Settled, Along
<1>4. WalksTo(encoded, wire, S, P, <<>>) BY <1>3 DEF Retraces
<1>5. ~Missed(encoded, decoded) BY <1>1, <1>4, NotMissed
<1>6. decoder.result = "ok" /\ decoder.stack = <<>> /\ decoder.turn = First
  BY <1>3, <1>5 DEF RoundInv, Settled, Retraces
<1>7. First \in {1, 2} /\ (IsCall <=> First = 2) BY <1>1, FirstFacts
<1>8. ~CallStage BY <1>6, <1>7 DEF CallStage
<1>9. Tracked(world, First, encoded, S, P, decoder, memory, decoded) BY <1>3, <1>6, <1>8 DEF Retraces
<1>10. AllKnown(First) BY <1>1, <1>4, <1>6, <1>7, <1>9, TrackedEnd
<1> DEFINE M == Passed(encoded, decoded)
<1>11. \A p \in M : Linked(p[1], p[2], p[3])
  <2> TAKE p \in M
  <2> QED BY <1>1, <1>10, PassedLinked
<1>12. ASSUME NEW k \in DOMAIN encoded
       PROVE  /\ decoded[k].type = encoded[k].type
              /\ SameValue(encoded[k].type, encoded[k].addr, decoded[k].addr)
  <2>1. k \in 1..Len(encoded) BY <1>1
  <2>2. Known(world, First, encoded, memory, M, decoded, k) BY <1>10, <2>1 DEF AllKnown
  <2> DEFINE x == encoded[k]
             b == decoded[k].addr
  <2>3. decoded[k].type = x.type /\ Agrees(world, memory, M, x, b) BY <2>2 DEF Known
  <2>4. Index(x) => /\ world.memory[x.addr] # Nil /\ memory[b] # Nil
                    /\ Linked(Types[x.type].elem, world.memory[x.addr], memory[b])
    BY <1>1, <1>2, <1>4, <1>10, <2>1, PointerLinked
  <2>5. x.type \in DOMAIN Types
    <3>1. x \in History(world) BY <1>1, <2>1
    <3> HIDE DEF x
    <3> QED BY <3>1 DEF History
  <2> HIDE DEF x, b, M
  <2>6. SameValue(x.type, x.addr, b) BY <1>11, <2>3, <2>4, <2>5, AgreesSame
  <2> QED BY <2>3, <2>6 DEF x, b
<1> HIDE DEF M
<1>13. Len(decoded) = Len(encoded) BY <1>10 DEF AllKnown
<1> QED BY <1>6, <1>12, <1>13 DEF SameValues

\* What encoder.c wrote arrives as it was sent when the wire is unchanged: for every
\* value of every type, laid out side by side, that refers to what is at one address
\* by one type, decoder.c makes of each part the same value, nil where it was nil and
\* linked as it was linked, if the indices are those of the top-level value or the two
\* count alike; and a call arrives with its arguments (erpc.c).
THEOREM RoundTripAlways ==
  ASSUME LaidOut, OneTypeEach
  PROVE  Spec => []RoundTrip
<1> DEFINE I == TypesInv /\ VerifiedInv /\ EncodedInv /\ WholeInv /\ MemoryInv /\ RoundInv
<1>1. Init => I BY InitTypes, VerifiedInit, EncodedStart, WholeInit, MemoryInit, RoundInit
<1>2. I /\ [Next]_vars => I'
  <2> SUFFICES ASSUME I, [Next]_vars PROVE I' OBVIOUS
  <2>1. TypesInv' BY TypesStep
  <2>2. VerifiedInv' /\ EncodedInv' BY VerifiedKept, EncodedStep
  <2>3. WholeInv' BY <2>1, WholeStep
  <2>4. MemoryInv' BY MemoryStep
  <2>5. RoundInv' BY RoundStep
  <2> QED BY <2>1, <2>2, <2>3, <2>4, <2>5
<1>3. I => RoundTrip BY RoundEnough
<1> HIDE DEF I
<1> QED BY <1>1, <1>2, <1>3, PTL DEF Spec
=============================================================================
