--------------------------- MODULE EtnCodecProofs ---------------------------
(***************************************************************************)
(* What TLAPS proves of module EtnCodec, for every type graph, every value *)
(* of it and every wire.                                                   *)
(***************************************************************************)
EXTENDS EtnCodec, SequenceTheorems, TLAPS

-----------------------------------------------------------------------------
(* Constants, and functions that grow.                                     *)

LEMMA TypeFacts ==
  ASSUME NEW t \in DOMAIN Types
  PROVE  /\ Types[t].kind \in Kinds /\ Types[t].size \in Nat
         /\ Types[t].kind \in {"string", "tuple", "array", "ptr"} => Types[t].elem \in DOMAIN Types
         /\ Types[t].kind \in {"union", "struct"} => Types[t].fields \in Seq(DOMAIN Types)
         /\ Types[t].kind = "struct" => Types[t].offsets \in [DOMAIN Types[t].fields -> Nat]
         /\ Types[t].kind = "iface" => Types[t].methods \in Seq(DOMAIN Types)
BY EtnCodecAssumption

LEMMA HashFacts ==
  /\ HashSize \in Nat /\ Room \in Nat /\ Units \subseteq Nat
  /\ CallId \in DOMAIN Types /\ Types[CallId].kind = "scalar"
  /\ \A t \in DOMAIN Hashes : /\ t \in DOMAIN Types
                              /\ Hashes[t] \in Seq(Nat) /\ Len(Hashes[t]) = HashSize
  /\ \A s, t \in DOMAIN Hashes : Hashes[s] = Hashes[t] => s = t
BY EtnCodecAssumption

\* The functions from a part of A to B.
Partial(A, B) == UNION {[D -> B] : D \in SUBSET A}

LEMMA PartialFacts ==
  ASSUME NEW A, NEW B
  PROVE  /\ \A a \in A, b \in B : Cell(a, b) \in Partial(A, B)
         /\ \A f, g \in Partial(A, B) : Over(f, g) \in Partial(A, B)
         /\ <<>> \in Partial(A, B)
<1>0. \A D \in SUBSET A : [D -> B] \subseteq Partial(A, B)
  BY DEF Partial
<1>1. \A a \in A, b \in B : Cell(a, b) \in Partial(A, B)
  <2> SUFFICES ASSUME NEW a \in A, NEW b \in B PROVE Cell(a, b) \in Partial(A, B)
    OBVIOUS
  <2>1. Cell(a, b) \in [{a} -> B] BY DEF Cell
  <2>2. {a} \in SUBSET A OBVIOUS
  <2> QED BY <2>1, <2>2, <1>0
<1>2. \A f, g \in Partial(A, B) : Over(f, g) \in Partial(A, B)
  <2> SUFFICES ASSUME NEW f \in Partial(A, B), NEW g \in Partial(A, B)
               PROVE  Over(f, g) \in Partial(A, B)
    OBVIOUS
  <2>1. PICK D \in SUBSET A : f \in [D -> B] BY DEF Partial
  <2>2. PICK E \in SUBSET A : g \in [E -> B] BY DEF Partial
  <2>3. Over(f, g) \in [D \cup E -> B] BY <2>1, <2>2 DEF Over
  <2>4. D \cup E \in SUBSET A OBVIOUS
  <2> QED BY <2>3, <2>4, <1>0
<1>3. <<>> \in Partial(A, B)
  <2>1. <<>> \in [{} -> B] OBVIOUS
  <2>2. {} \in SUBSET A OBVIOUS
  <2> QED BY <2>1, <2>2 DEF Partial
<1> QED BY <1>1, <1>2, <1>3

-----------------------------------------------------------------------------
(* Sequences: what is on a stack after its top was replaced.               *)

LEMMA PushFacts ==
  ASSUME NEW S, NEW s \in Seq(S), s # <<>>, NEW v \in Seq(S)
  PROVE  /\ Head(s) \in S /\ Head(s) = s[1] /\ Tail(s) \in Seq(S)
         /\ v \o Tail(s) \in Seq(S)
         /\ Len(s) \in Nat /\ Len(s) >= 1 /\ Len(v) \in Nat /\ Len(Tail(s)) = Len(s) - 1
         /\ Len(v \o Tail(s)) = Len(v) + Len(s) - 1
         /\ \A i \in 1..Len(v) : (v \o Tail(s))[i] = v[i]
         /\ \A i \in 1..(Len(s) - 1) : (v \o Tail(s))[Len(v) + i] = s[i + 1]
<1>1. Len(s) \in Nat /\ Len(s) >= 1 /\ Len(v) \in Nat /\ Head(s) = s[1] /\ Head(s) \in S
  OBVIOUS
<1>2. Tail(s) \in Seq(S) /\ Len(Tail(s)) = Len(s) - 1
      /\ \A i \in 1..(Len(s) - 1) : Tail(s)[i] = s[i + 1]
  BY HeadTailProperties
<1>3. v \o Tail(s) \in Seq(S) /\ Len(v \o Tail(s)) = Len(v) + Len(Tail(s))
  BY <1>2, ConcatProperties
<1>4. \A i \in 1..Len(v) : (v \o Tail(s))[i] = v[i]
  BY <1>1, <1>2
<1>5. \A i \in 1..(Len(s) - 1) : (v \o Tail(s))[Len(v) + i] = s[i + 1]
  BY <1>1, <1>2
<1> QED BY <1>1, <1>2, <1>3, <1>4, <1>5

LEMMA OneFacts ==
  ASSUME NEW S, NEW x \in S
  PROVE  /\ <<x>> \in Seq(S) /\ Len(<<x>>) = 1 /\ <<x>>[1] = x /\ <<x>> # <<>>
         /\ Head(<<x>>) = x /\ Tail(<<x>>) = <<>>
OBVIOUS

LEMMA JoinFacts ==
  ASSUME NEW S, NEW s \in Seq(S), NEW t \in Seq(S)
  PROVE  /\ s \o t \in Seq(S) /\ Len(s \o t) = Len(s) + Len(t) /\ Len(s) \in Nat /\ Len(t) \in Nat
         /\ \A i \in 1..Len(s) : (s \o t)[i] = s[i]
         /\ \A i \in 1..Len(t) : (s \o t)[Len(s) + i] = t[i]
<1>1. s \o t \in Seq(S) /\ Len(s \o t) = Len(s) + Len(t)
  BY ConcatProperties
<1>2. Len(s) \in Nat /\ Len(t) \in Nat
  OBVIOUS
<1> QED BY <1>1, <1>2

LEMMA MadeFacts ==
  ASSUME NEW S, NEW n \in Nat, NEW f \in [1..n -> S]
  PROVE  f \in Seq(S) /\ Len(f) = n
OBVIOUS

-----------------------------------------------------------------------------
(* The values that the encoder walks are in their places.                  *)

Item(w) == {Value(p[1], p[2], k) : p \in Places(w), k \in BOOLEAN} \cup {AnyEnd}
Address(w) == {p[2] : p \in Places(w)} \cup {Nil}

LEMMA WorldFacts ==
  ASSUME NEW w \in Worlds
  PROVE  /\ w.type \in DOMAIN Types /\ Sends(w)
         /\ w.values \in Seq({[type |-> p[1], addr |-> p[2]] : p \in Places(w)})
         /\ \A p \in Places(w) : p[1] \in DOMAIN Types /\ Represents(w, p[1], p[2])
BY WorldsAssumption

LEMMA ItemFacts ==
  ASSUME NEW w \in Worlds, NEW v \in Item(w)
  PROVE  /\ v.addr \in Address(w) /\ v.keep \in BOOLEAN
         /\ v # AnyEnd => v.type \in DOMAIN Types /\ Represents(w, v.type, v.addr)
<1>1. CASE v = AnyEnd
  BY <1>1 DEF AnyEnd, Value, Address
<1>2. CASE v # AnyEnd
  <2>1. PICK p \in Places(w), k \in BOOLEAN : v = Value(p[1], p[2], k)
    BY <1>2 DEF Item
  <2>2. v.type = p[1] /\ v.addr = p[2] /\ v.keep = k
    BY <2>1 DEF Value
  <2> QED BY <2>2, WorldFacts DEF Address
<1> QED BY <1>1, <1>2

LEMMA PlacedItem ==
  ASSUME NEW w \in Worlds, NEW t, NEW a, NEW k \in BOOLEAN, <<t, a>> \in Places(w)
  PROVE  Value(t, a, k) \in Item(w) /\ a \in Address(w)
<1>1. <<t, a>>[1] = t /\ <<t, a>>[2] = a OBVIOUS
<1> QED BY <1>1 DEF Item, Address

LEMMA ElementsPlaced ==
  ASSUME NEW w \in Worlds, NEW t \in DOMAIN Types, NEW a, NEW n \in Nat,
         InPlace(w, Elements(t, a, n))
  PROVE  Elements(t, a, n) \in Seq(Item(w))
<1> DEFINE at(i) == At(a, (i - 1) * Types[Types[t].elem].size)
<1>1. Elements(t, a, n) = [i \in 1..n |-> Value(Types[t].elem, at(i), FALSE)]
  BY DEF Elements
<1> HIDE DEF at
<1>2. \A i \in 1..n : Value(Types[t].elem, at(i), FALSE) \in Item(w)
  <2> TAKE i \in 1..n
  <2>1. <<Types[t].elem, at(i)>> \in Places(w) BY <1>1 DEF InPlace, Value
  <2> QED BY <2>1, PlacedItem
<1>3. Elements(t, a, n) \in [1..n -> Item(w)] BY <1>1, <1>2
<1> QED BY <1>3, MadeFacts

LEMMA FieldsPlaced ==
  ASSUME NEW w \in Worlds, NEW t \in DOMAIN Types, NEW a, Types[t].kind = "struct",
         InPlace(w, Fields(t, a))
  PROVE  Fields(t, a) \in Seq(Item(w))
<1> DEFINE at(i) == At(a, Types[t].offsets[i])
           ty(i) == Types[t].fields[i]
<1>0. Types[t].fields \in Seq(DOMAIN Types) BY TypeFacts
<1>1. PICK n \in Nat : DOMAIN Types[t].fields = 1..n BY <1>0
<1>2. Fields(t, a) = [i \in 1..n |-> Value(ty(i), at(i), FALSE)]
  BY <1>1 DEF Fields
<1> HIDE DEF at, ty
<1>3. \A i \in 1..n : Value(ty(i), at(i), FALSE) \in Item(w)
  <2> TAKE i \in 1..n
  <2>1. <<ty(i), at(i)>> \in Places(w) BY <1>2 DEF InPlace, Value
  <2> QED BY <2>1, PlacedItem
<1>4. Fields(t, a) \in [1..n -> Item(w)] BY <1>2, <1>3
<1> QED BY <1>4, MadeFacts

-----------------------------------------------------------------------------
(* The types of the encoder.                                               *)

EncoderType(w) ==
  [stack : Seq(Item(w)), index : Nat, top : Address(w), known : Partial(Address(w), Nat),
   turn : Nat \ {0}, ok : BOOLEAN]

EncoderInv(w, e) ==
  /\ e \in EncoderType(w)
  /\ \A a \in DOMAIN e.known : e.known[a] < e.index

\* What is written is a wire within the buffer.
WireInv(u, n) == u \in Seq(Nat) /\ Len(u) <= n

LEMMA RememberedFacts ==
  ASSUME NEW w \in Worlds, EncoderInv(w, encoder), NEW v \in Item(w), NEW n \in Nat \ {0}
  PROVE  /\ Remembered(v) \in Partial(Address(w), Nat)
         /\ \A a \in DOMAIN Remembered(v) : /\ Remembered(v)[a] < encoder.index + n
                                            /\ Remembered(v)[a] \in Nat
<1> DEFINE grown == Over(encoder.known, Cell(v.addr, encoder.index))
<1>1. encoder.known \in Partial(Address(w), Nat) /\ encoder.index \in Nat
  BY DEF EncoderInv, EncoderType
<1>2. v.addr \in Address(w) BY ItemFacts
<1>3. Cell(v.addr, encoder.index) \in Partial(Address(w), Nat) BY <1>1, <1>2, PartialFacts
<1>4. grown \in Partial(Address(w), Nat) BY <1>1, <1>3, PartialFacts
<1>5. \A f \in Partial(Address(w), Nat) : \A a \in DOMAIN f : f[a] \in Nat
  BY DEF Partial
<1>6. \A a \in DOMAIN grown : grown[a] < encoder.index + n
  <2> TAKE a \in DOMAIN grown
  <2>1. CASE a \in DOMAIN encoder.known
    <3>1. grown[a] = encoder.known[a] BY <2>1 DEF Over
    <3>2. encoder.known[a] < encoder.index BY <2>1 DEF EncoderInv
    <3>3. encoder.known[a] \in Nat BY <1>1, <1>5, <2>1
    <3> QED BY <3>1, <3>2, <3>3, <1>1
  <2>2. CASE a \notin DOMAIN encoder.known
    <3>1. a = v.addr /\ grown[a] = encoder.index BY <2>2 DEF Over, Cell
    <3> QED BY <3>1, <1>1
  <2> QED BY <2>1, <2>2
<1>7. \A a \in DOMAIN encoder.known : encoder.known[a] < encoder.index + n
  <2> TAKE a \in DOMAIN encoder.known
  <2>1. encoder.known[a] < encoder.index BY DEF EncoderInv
  <2>2. encoder.known[a] \in Nat BY <1>1, <1>5
  <2> QED BY <2>1, <2>2, <1>1
<1>8. Remembered(v) = grown \/ Remembered(v) = encoder.known BY DEF Remembered
<1> HIDE DEF grown
<1> QED BY <1>1, <1>4, <1>5, <1>6, <1>7, <1>8

LEMMA EncodesTypes ==
  ASSUME world \in Worlds, EncoderInv(world, encoder), WireInv(wire, Room),
         encoder.stack # <<>>,
         NEW n \in Nat \ {0}, NEW units \in Seq(Nat), NEW values \in Seq(Item(world)),
         Encodes(n, units, values)
  PROVE  EncoderInv(world, encoder') /\ WireInv(wire', Room)
<1> DEFINE v == Head(encoder.stack)
<1>1. encoder \in EncoderType(world) BY DEF EncoderInv
<1>2. encoder.stack \in Seq(Item(world)) BY <1>1 DEF EncoderType
<1>3. v \in Item(world) /\ values \o Tail(encoder.stack) \in Seq(Item(world))
  BY <1>2, PushFacts
<1>4. /\ Remembered(v) \in Partial(Address(world), Nat)
      /\ \A a \in DOMAIN Remembered(v) : Remembered(v)[a] < encoder.index + n
  BY <1>3, RememberedFacts
<1> DEFINE e == [encoder EXCEPT !.stack = values \o Tail(encoder.stack),
                                !.index = encoder.index + n, !.known = Remembered(v)]
<1>5. encoder' = e BY DEF Encodes
<1> HIDE DEF v
<1>6. e \in EncoderType(world)
  <2>1. encoder.index + n \in Nat BY <1>1 DEF EncoderType
  <2> QED BY <1>1, <1>3, <1>4, <2>1 DEF EncoderType
<1>7. e.index = encoder.index + n /\ e.known = Remembered(v) BY <1>1 DEF EncoderType
<1>8. EncoderInv(world, e)
  <2> HIDE DEF e
  <2> QED BY <1>4, <1>6, <1>7 DEF EncoderInv
<1>9. WireInv(wire', Room)
  <2>1. wire' = wire \o units /\ Len(wire) + Len(units) <= Room BY DEF Encodes
  <2>2. wire \in Seq(Nat) BY DEF WireInv
  <2>3. wire \o units \in Seq(Nat) /\ Len(wire \o units) = Len(wire) + Len(units)
    BY <2>2, JoinFacts
  <2> QED BY <2>1, <2>3 DEF WireInv
<1> HIDE DEF e
<1> QED BY <1>5, <1>8, <1>9

\* The value on top of the encoder's stack.
LEMMA EncodingTop ==
  ASSUME world \in Worlds, EncoderInv(world, encoder), NEW kinds, Encoding(kinds)
  PROVE  LET v == Head(encoder.stack)
         IN  /\ encoder.stack \in Seq(Item(world)) /\ encoder.stack # <<>>
             /\ v \in Item(world) /\ v # AnyEnd
             /\ v.type \in DOMAIN Types /\ Types[v.type].kind \in kinds
             /\ v.addr \in Address(world) /\ v.keep \in BOOLEAN
             /\ Represents(world, v.type, v.addr)
<1>1. encoder.stack \in Seq(Item(world)) BY DEF EncoderInv, EncoderType
<1>2. encoder.stack # <<>> /\ Head(encoder.stack) # AnyEnd
      /\ Types[Head(encoder.stack).type].kind \in kinds
  BY DEF Encoding
<1>3. Head(encoder.stack) \in Item(world) BY <1>1, <1>2, PushFacts
<1> QED BY <1>1, <1>2, <1>3, ItemFacts

LEMMA ScalarsType ==
  ASSUME NEW w, NEW a, NEW n \in Nat, Scalars(w, a, n)
  PROVE  /\ [i \in 1..n |-> w.memory[At(a, i - 1)]] \in Seq(Nat)
         /\ Len([i \in 1..n |-> w.memory[At(a, i - 1)]]) = n
<1>1. \A i \in 1..n : w.memory[At(a, i - 1)] \in Nat BY DEF Scalars
<1> DEFINE x(i) == w.memory[At(a, i - 1)]
<1> HIDE DEF x
<1>2. [i \in 1..n |-> x(i)] \in [1..n -> Nat] BY <1>1 DEF x
<1>3. [i \in 1..n |-> x(i)] \in Seq(Nat) /\ Len([i \in 1..n |-> x(i)]) = n BY <1>2, MadeFacts
<1> QED BY <1>3 DEF x

LEMMA NoValues == \A S : <<>> \in Seq(S)
OBVIOUS

\* What the encoder writes and leaves to encode, for each kind of value.
Wellformed(n, units, values) ==
  n \in Nat \ {0} /\ units \in Seq(Nat) /\ values \in Seq(Item(world))

Good(n, units, values) == Wellformed(n, units, values) /\ Encodes(n, units, values)

LEMMA EncodeScalarForm ==
  ASSUME world \in Worlds, EncoderInv(world, encoder), EncodeScalar
  PROVE  \E n, units, values : Good(n, units, values)
<1> DEFINE v == Head(encoder.stack)
<1>1. Encoding({"scalar"}) BY DEF EncodeScalar
<1>2. v.type \in DOMAIN Types /\ Types[v.type].kind = "scalar" /\ Represents(world, v.type, v.addr)
  BY <1>1, EncodingTop
<1>3. world.memory[v.addr] \in Nat BY <1>2 DEF Represents
<1>4. Wellformed(1, <<world.memory[v.addr]>>, <<>>) BY <1>3, NoValues DEF Wellformed
<1> QED BY <1>4 DEF Good, EncodeScalar

LEMMA EncodeTupleForm ==
  ASSUME world \in Worlds, EncoderInv(world, encoder), EncodeTuple
  PROVE  \E n, units, values : Good(n, units, values)
<1> DEFINE v == Head(encoder.stack)
           ref == world.memory[v.addr]
           copy == [i \in 1..ref.len |-> world.memory[At(ref.data, i - 1)]]
<1>1. Encoding({"string", "tuple"}) BY DEF EncodeTuple
<1>2. v.type \in DOMAIN Types /\ Types[v.type].kind \in {"string", "tuple"}
      /\ Represents(world, v.type, v.addr)
  BY <1>1, EncodingTop
<1>3. ref.len \in Nat BY <1>2 DEF Represents
<1>4. CASE IsScalar(Types[v.type].elem)
  <2>1. Scalars(world, ref.data, ref.len) BY <1>2, <1>4 DEF Represents
  <2>2. copy \in Seq(Nat) BY <2>1, <1>3, ScalarsType
  <2>3. <<ref.len>> \in Seq(Nat) BY <1>3
  <2>4. <<ref.len>> \o copy \in Seq(Nat) BY <2>2, <2>3, JoinFacts
  <2>5. Wellformed(1, <<ref.len>> \o copy, <<>>) BY <2>4, NoValues DEF Wellformed
  <2>6. Encodes(1, <<ref.len>> \o copy, <<>>) BY <1>4 DEF EncodeTuple
  <2> QED BY <2>5, <2>6 DEF Good
<1>5. CASE ~IsScalar(Types[v.type].elem)
  <2>1. InPlace(world, Elements(v.type, ref.data, ref.len)) BY <1>2, <1>5 DEF Represents
  <2>2. Elements(v.type, ref.data, ref.len) \in Seq(Item(world)) BY <2>1, <1>2, <1>3, ElementsPlaced
  <2>3. Wellformed(1, <<ref.len>>, Elements(v.type, ref.data, ref.len)) BY <2>2, <1>3 DEF Wellformed
  <2>4. Encodes(1, <<ref.len>>, Elements(v.type, ref.data, ref.len)) BY <1>5 DEF EncodeTuple
  <2> QED BY <2>3, <2>4 DEF Good
<1> QED BY <1>4, <1>5

LEMMA EncodeArrayForm ==
  ASSUME world \in Worlds, EncoderInv(world, encoder), EncodeArray
  PROVE  \E n, units, values : Good(n, units, values)
<1> DEFINE v == Head(encoder.stack)
           size == Types[v.type].size
           copy == [i \in 1..size |-> world.memory[At(v.addr, i - 1)]]
<1>1. Encoding({"array"}) BY DEF EncodeArray
<1>2. v.type \in DOMAIN Types /\ Types[v.type].kind = "array" /\ Represents(world, v.type, v.addr)
  BY <1>1, EncodingTop
<1>3. size \in Nat BY <1>2, TypeFacts
<1>4. CASE IsScalar(Types[v.type].elem)
  <2>1. Scalars(world, v.addr, size) BY <1>2, <1>4 DEF Represents
  <2>2. copy \in Seq(Nat) BY <2>1, <1>3, ScalarsType
  <2>3. Wellformed(1, copy, <<>>) BY <2>2, NoValues DEF Wellformed
  <2>4. Encodes(1, copy, <<>>) BY <1>4 DEF EncodeArray
  <2> QED BY <2>3, <2>4 DEF Good
<1>5. CASE ~IsScalar(Types[v.type].elem)
  <2>1. InPlace(world, Elements(v.type, v.addr, size)) BY <1>2, <1>5 DEF Represents
  <2>2. Elements(v.type, v.addr, size) \in Seq(Item(world)) BY <2>1, <1>2, <1>3, ElementsPlaced
  <2>3. Wellformed(1, <<>>, Elements(v.type, v.addr, size)) BY <2>2, NoValues DEF Wellformed
  <2>4. Encodes(1, <<>>, Elements(v.type, v.addr, size)) BY <1>5 DEF EncodeArray
  <2> QED BY <2>3, <2>4 DEF Good
<1> QED BY <1>4, <1>5

LEMMA EncodeStructForm ==
  ASSUME world \in Worlds, EncoderInv(world, encoder), EncodeStruct
  PROVE  \E n, units, values : Good(n, units, values)
<1> DEFINE v == Head(encoder.stack)
<1>1. Encoding({"struct"}) BY DEF EncodeStruct
<1>2. v.type \in DOMAIN Types /\ Types[v.type].kind = "struct" /\ Represents(world, v.type, v.addr)
  BY <1>1, EncodingTop
<1>3. InPlace(world, Fields(v.type, v.addr)) BY <1>2 DEF Represents
<1>4. Fields(v.type, v.addr) \in Seq(Item(world)) BY <1>2, <1>3, FieldsPlaced
<1>5. Wellformed(1, <<>>, Fields(v.type, v.addr)) BY <1>4, NoValues DEF Wellformed
<1>6. Encodes(1, <<>>, Fields(v.type, v.addr)) BY DEF EncodeStruct
<1> QED BY <1>5, <1>6 DEF Good

LEMMA EncodePtrForm ==
  ASSUME world \in Worlds, EncoderInv(world, encoder), EncodePtr
  PROVE  \E n, units, values : Good(n, units, values)
<1> DEFINE v == Head(encoder.stack)
           target == world.memory[v.addr]
           elem == Types[v.type].elem
<1>1. Encoding({"ptr"}) BY DEF EncodePtr
<1>2. v \in Item(world) /\ v.type \in DOMAIN Types /\ Types[v.type].kind = "ptr"
      /\ Represents(world, v.type, v.addr)
  BY <1>1, EncodingTop
<1>3. target = Nil \/ <<elem, target>> \in Places(world) BY <1>2 DEF Represents
<1>4. CASE target = Nil /\ Encodes(2, <<PtrNil>>, <<>>)
  <2>1. Wellformed(2, <<PtrNil>>, <<>>) BY NoValues DEF Wellformed, PtrNil
  <2> QED BY <1>4, <2>1 DEF Good
<1>5. CASE Seen(v, target) /\ Encodes(2, <<PtrIndex, CountOf(v, target)>>, <<>>)
  <2>1. CountOf(v, target) \in Nat BY <1>2, <1>5, RememberedFacts DEF Seen, CountOf
  <2>2. Wellformed(2, <<PtrIndex, CountOf(v, target)>>, <<>>)
    BY <2>1, NoValues DEF Wellformed, PtrIndex
  <2> QED BY <1>5, <2>2 DEF Good
<1>6. CASE target # Nil /\ Encodes(2, <<PtrInline>>, <<Value(elem, target, TRUE)>>)
  <2> DEFINE inner == Value(elem, target, TRUE)
  <2>1. inner \in Item(world) BY <1>3, <1>6, PlacedItem
  <2>2. Wellformed(2, <<PtrInline>>, <<inner>>)
    <3> HIDE DEF inner
    <3>1. <<inner>> \in Seq(Item(world)) BY <2>1, OneFacts
    <3>2. <<PtrInline>> \in Seq(Nat) BY DEF PtrInline
    <3> QED BY <3>1, <3>2 DEF Wellformed
  <2> QED BY <1>6, <2>2 DEF Good
<1> QED BY <1>4, <1>5, <1>6 DEF EncodePtr

LEMMA EncodeAnyForm ==
  ASSUME world \in Worlds, EncoderInv(world, encoder), EncodeAny
  PROVE  \E n, units, values : Good(n, units, values)
<1> DEFINE v == Head(encoder.stack)
           held == world.memory[v.addr]
           inner == Value(held.type, held.data, TRUE)
<1>1. Encoding({"any"}) BY DEF EncodeAny
<1>2. v.type \in DOMAIN Types /\ Types[v.type].kind = "any" /\ Represents(world, v.type, v.addr)
  BY <1>1, EncodingTop
<1>3. CASE held.type \in DOMAIN Hashes
  <2>1. <<held.type, held.data>> \in Places(world) BY <1>2, <1>3 DEF Represents
  <2>2. inner \in Item(world) BY <2>1, PlacedItem
  <2>3. <<inner, AnyEnd>> \in Seq(Item(world))
    <3> HIDE DEF inner
    <3>1. AnyEnd \in Item(world) BY DEF Item
    <3> QED BY <2>2, <3>1
  <2>4. <<HashSize>> \o Hashes[held.type] \in Seq(Nat)
    <3>1. <<HashSize>> \in Seq(Nat) /\ Hashes[held.type] \in Seq(Nat) BY <1>3, HashFacts
    <3> QED BY <3>1, JoinFacts
  <2>5. Wellformed(2, <<HashSize>> \o Hashes[held.type], <<inner, AnyEnd>>)
    <3> HIDE DEF inner
    <3> QED BY <2>3, <2>4 DEF Wellformed
  <2>6. Encodes(2, <<HashSize>> \o Hashes[held.type], <<inner, AnyEnd>>) BY <1>3 DEF EncodeAny
  <2> QED BY <2>5, <2>6 DEF Good
<1>4. CASE held.type \notin DOMAIN Hashes
  <2>1. Encodes(1, <<>>, <<>>) BY <1>4 DEF EncodeAny
  <2>2. Wellformed(1, <<>>, <<>>) BY NoValues DEF Wellformed
  <2> QED BY <2>1, <2>2 DEF Good
<1> QED BY <1>3, <1>4

LEMMA EncodeUnionForm ==
  ASSUME world \in Worlds, EncoderInv(world, encoder), EncodeUnion
  PROVE  \E n, units, values : Good(n, units, values)
<1> DEFINE v == Head(encoder.stack)
           held == world.memory[v.addr]
           inner == Value(held.type, held.data, v.keep)
<1>1. Encoding({"union"}) BY DEF EncodeUnion
<1>2. v.type \in DOMAIN Types /\ Types[v.type].kind = "union" /\ Represents(world, v.type, v.addr)
      /\ v.keep \in BOOLEAN
  BY <1>1, EncodingTop
<1>3. PICK i \in Choices(v.type, held.type) : Encodes(2, <<i - 1>>, <<inner>>)
  BY DEF EncodeUnion
<1>4. <<held.type, held.data>> \in Places(world) BY <1>2, <1>3 DEF Represents
<1>5. inner \in Item(world)
  <2> HIDE DEF v, held
  <2> QED BY <1>2, <1>4, PlacedItem
<1>6. <<inner>> \in Seq(Item(world))
  <2> HIDE DEF inner
  <2> QED BY <1>5, OneFacts
<1>7. i - 1 \in Nat
  <2>1. Types[v.type].fields \in Seq(DOMAIN Types) BY <1>2, TypeFacts
  <2>2. i \in DOMAIN Types[v.type].fields BY DEF Choices
  <2> QED BY <2>1, <2>2
<1>8. Wellformed(2, <<i - 1>>, <<inner>>)
  <2> HIDE DEF inner
  <2> QED BY <1>6, <1>7 DEF Wellformed
<1> QED BY <1>3, <1>8 DEF Good

LEMMA EncodeStartTypes ==
  ASSUME world \in Worlds, EncoderInv(world, encoder), EncodeStart
  PROVE  EncoderInv(world, encoder')
<1> DEFINE v == world.values[encoder.turn]
           item == Value(v.type, v.addr, FALSE)
           e == [encoder EXCEPT !.stack = <<item>>, !.index = 0, !.top = v.addr, !.known = <<>>,
                                !.turn = encoder.turn + 1]
<1>1. encoder \in EncoderType(world) BY DEF EncoderInv
<1>2. encoder' = e BY DEF EncodeStart
<1>3. encoder.turn \in Nat \ {0} /\ encoder.turn <= Len(world.values) BY <1>1 DEF EncoderType, EncodeStart
<1>4. PICK p \in Places(world) : v = [type |-> p[1], addr |-> p[2]]
  <2> DEFINE S == {[type |-> p[1], addr |-> p[2]] : p \in Places(world)}
  <2>1. world.values \in Seq(S) BY WorldFacts
  <2>2. v \in S
    <3> HIDE DEF S
    <3> QED BY <1>3, <2>1
  <2> QED BY <2>2
<1>5. v.type = p[1] /\ v.addr = p[2] BY <1>4
<1>6. item \in Item(world) /\ v.addr \in Address(world)
  <2>1. item = Value(p[1], p[2], FALSE) BY <1>5
  <2>2. \A k \in BOOLEAN : Value(p[1], p[2], k) \in Item(world) BY DEF Item
  <2>3. item \in Item(world) BY <2>1, <2>2
  <2>4. p[2] \in Address(world) BY DEF Address
  <2> QED BY <1>5, <2>3, <2>4
<1>7. <<>> \in Partial(Address(world), Nat) BY PartialFacts
<1>8. e \in EncoderType(world)
  <2> HIDE DEF item, v
  <2>1. <<item>> \in Seq(Item(world)) BY <1>6, OneFacts
  <2>2. encoder.turn + 1 \in Nat \ {0} BY <1>3
  <2> QED BY <1>1, <1>6, <1>7, <2>1, <2>2 DEF EncoderType
<1>9. e.known = <<>> BY <1>1 DEF EncoderType
<1>10. EncoderInv(world, e)
  <2> HIDE DEF e
  <2> QED BY <1>8, <1>9 DEF EncoderInv
<1> HIDE DEF e
<1> QED BY <1>2, <1>10

LEMMA EncodeAnyEndTypes ==
  ASSUME world \in Worlds, EncoderInv(world, encoder), EncodeAnyEnd
  PROVE  EncoderInv(world, encoder')
<1> DEFINE e == [encoder EXCEPT !.stack = Tail(encoder.stack)]
<1>1. encoder \in EncoderType(world) BY DEF EncoderInv
<1>2. encoder' = e BY DEF EncodeAnyEnd
<1>3. Tail(encoder.stack) \in Seq(Item(world))
  <2>1. encoder.stack \in Seq(Item(world)) /\ encoder.stack # <<>> BY <1>1 DEF EncoderType, EncodeAnyEnd
  <2> QED BY <2>1
<1>4. e \in EncoderType(world) /\ e.known = encoder.known /\ e.index = encoder.index
  BY <1>1, <1>3 DEF EncoderType
<1> HIDE DEF e
<1> QED BY <1>2, <1>4 DEF EncoderInv

LEMMA EncodeFailTypes ==
  ASSUME world \in Worlds, EncoderInv(world, encoder), EncodeFail
  PROVE  EncoderInv(world, encoder')
<1> DEFINE v == Head(encoder.stack)
           e(stack) == [encoder EXCEPT !.stack = stack, !.index = encoder.index + 1,
                                       !.ok = (stack # <<>>), !.known = Remembered(v)]
<1>1. encoder \in EncoderType(world) BY DEF EncoderInv
<1>2. encoder.stack \in Seq(Item(world)) /\ encoder.index \in Nat BY <1>1 DEF EncoderType
<1>3. encoder.stack # <<>> BY DEF EncodeFail, Encoding
<1>4. v \in Item(world) BY <1>2, <1>3, PushFacts
<1>5. /\ Remembered(v) \in Partial(Address(world), Nat)
      /\ \A a \in DOMAIN Remembered(v) : Remembered(v)[a] < encoder.index + 1
  BY <1>4, RememberedFacts
<1>6. PICK stack \in Seq(Item(world)) : encoder' = e(stack)
  <2>1. <<>> \in Seq(Item(world)) OBVIOUS
  <2>2. \A i \in DOMAIN encoder.stack : SubSeq(encoder.stack, i, Len(encoder.stack)) \in Seq(Item(world))
    BY <1>2
  <2> QED BY <2>1, <2>2 DEF EncodeFail
<1>7. e(stack) \in EncoderType(world)
  <2> HIDE DEF v
  <2>1. encoder.index + 1 \in Nat BY <1>2
  <2>2. (stack # <<>>) \in BOOLEAN OBVIOUS
  <2> QED BY <1>1, <1>5, <2>1, <2>2 DEF EncoderType
<1>8. e(stack).index = encoder.index + 1 /\ e(stack).known = Remembered(v) BY <1>1 DEF EncoderType
<1>9. EncoderInv(world, e(stack))
  <2> HIDE DEF e, v
  <2> QED BY <1>5, <1>7, <1>8 DEF EncoderInv
<1> QED BY <1>6, <1>9

\* Every step of the encoder.
LEMMA EncodeTypes ==
  ASSUME world \in Worlds, EncoderInv(world, encoder), WireInv(wire, Room), Encode
  PROVE  EncoderInv(world, encoder') /\ WireInv(wire', Room) /\ phase = "encode"
<1>1. CASE EncodeStart
  BY <1>1, EncodeStartTypes DEF EncodeStart
<1>2. CASE EncodeAnyEnd
  BY <1>2, EncodeAnyEndTypes DEF EncodeAnyEnd
<1>3. CASE EncodeFail
  BY <1>3, EncodeFailTypes DEF EncodeFail, Encoding
<1>4. CASE EncodeEnd
  BY <1>4 DEF EncodeEnd
<1>5. ASSUME \E n, units, values : Good(n, units, values), encoder.stack # <<>>, phase = "encode"
      PROVE  EncoderInv(world, encoder') /\ WireInv(wire', Room) /\ phase = "encode"
  <2>1. PICK n, units, values : Good(n, units, values) BY <1>5
  <2>2. n \in Nat \ {0} /\ units \in Seq(Nat) /\ values \in Seq(Item(world)) /\ Encodes(n, units, values)
    BY <2>1 DEF Good, Wellformed
  <2> QED BY <1>5, <2>2, EncodesTypes
<1>6. CASE EncodeScalar
  <2>1. encoder.stack # <<>> /\ phase = "encode" BY <1>6 DEF EncodeScalar, Encoding
  <2> QED BY <1>5, <1>6, <2>1, EncodeScalarForm
<1>7. CASE EncodeTuple
  <2>1. encoder.stack # <<>> /\ phase = "encode" BY <1>7 DEF EncodeTuple, Encoding
  <2> QED BY <1>5, <1>7, <2>1, EncodeTupleForm
<1>8. CASE EncodeArray
  <2>1. encoder.stack # <<>> /\ phase = "encode" BY <1>8 DEF EncodeArray, Encoding
  <2> QED BY <1>5, <1>8, <2>1, EncodeArrayForm
<1>9. CASE EncodeStruct
  <2>1. encoder.stack # <<>> /\ phase = "encode" BY <1>9 DEF EncodeStruct, Encoding
  <2> QED BY <1>5, <1>9, <2>1, EncodeStructForm
<1>10. CASE EncodePtr
  <2>1. encoder.stack # <<>> /\ phase = "encode" BY <1>10 DEF EncodePtr, Encoding
  <2> QED BY <1>5, <1>10, <2>1, EncodePtrForm
<1>11. CASE EncodeAny
  <2>1. encoder.stack # <<>> /\ phase = "encode" BY <1>11 DEF EncodeAny, Encoding
  <2> QED BY <1>5, <1>11, <2>1, EncodeAnyForm
<1>12. CASE EncodeUnion
  <2>1. encoder.stack # <<>> /\ phase = "encode" BY <1>12 DEF EncodeUnion, Encoding
  <2> QED BY <1>5, <1>12, <2>1, EncodeUnionForm
<1> QED BY <1>1, <1>2, <1>3, <1>4, <1>6, <1>7, <1>8, <1>9, <1>10, <1>11, <1>12 DEF Encode

-----------------------------------------------------------------------------
(* What the verifier takes for a value of type t at position p of a wire u *)
(* when it has counted c values: n units, and then values of types ts.     *)

TakesTuple(u, p, t, n, ts) ==
  /\ p + 1 <= Len(u)
  /\ IsScalar(Types[t].elem) => n = 1 + u[p + 1] /\ ts = <<>>
  /\ ~IsScalar(Types[t].elem) => n = 1 /\ ts = [i \in 1..u[p + 1] |-> Types[t].elem]

TakesArray(t, n, ts) ==
  /\ IsScalar(Types[t].elem) => n = Types[t].size /\ ts = <<>>
  /\ ~IsScalar(Types[t].elem) => n = 0 /\ ts = [i \in 1..Types[t].size |-> Types[t].elem]

TakesPtr(u, p, c, t, n, ts) ==
  /\ p + 1 <= Len(u)
  /\ \/ u[p + 1] = PtrNil /\ n = 1 /\ ts = <<>>
     \/ u[p + 1] = PtrIndex /\ n = 2 /\ u[p + 2] < c + 1 /\ ts = <<>>
     \/ u[p + 1] = PtrInline /\ n = 1 /\ ts = <<Types[t].elem>>

HashAt(u, p, t) == \A i \in 1..HashSize : u[p + 1 + i] = Hashes[t][i]

TakesAny(u, p, n, ts) ==
  /\ n = 1 + HashSize /\ u[p + 1] = HashSize
  /\ \E t \in DOMAIN Hashes : HashAt(u, p, t) /\ ts = <<t>>

TakesOne(u, p, choices, n, ts) ==
  n = 1 /\ u[p + 1] < Len(choices) /\ ts = <<choices[u[p + 1] + 1]>>

Takes(u, p, c, t, n, ts) ==
  /\ n \in Nat /\ p + n <= Len(u) /\ ts \in Seq(DOMAIN Types)
  /\ Types[t].kind # "dict"
  /\ Types[t].kind = "scalar" => n = 1 /\ ts = <<>>
  /\ Types[t].kind \in {"string", "tuple"} => TakesTuple(u, p, t, n, ts)
  /\ Types[t].kind = "array" => TakesArray(t, n, ts)
  /\ Types[t].kind = "struct" => n = 0 /\ ts = Types[t].fields
  /\ Types[t].kind = "ptr" => TakesPtr(u, p, c, t, n, ts)
  /\ Types[t].kind = "any" => TakesAny(u, p, n, ts)
  /\ Types[t].kind = "union" => TakesOne(u, p, Types[t].fields, n, ts)
  /\ Types[t].kind = "iface" => TakesOne(u, p, Types[t].methods, n, ts)

\* A hash is that of one type.
LEMMA OneHash ==
  ASSUME NEW u, NEW p, NEW s \in DOMAIN Hashes, NEW t \in DOMAIN Hashes, HashAt(u, p, s), HashAt(u, p, t)
  PROVE  s = t
<1>1. /\ Hashes[s] \in Seq(Nat) /\ Len(Hashes[s]) = HashSize
      /\ Hashes[t] \in Seq(Nat) /\ Len(Hashes[t]) = HashSize
  BY HashFacts
<1>2. \A i \in 1..HashSize : Hashes[s][i] = Hashes[t][i] BY DEF HashAt
<1> DEFINE a == Hashes[s]
           b == Hashes[t]
<1>3. a = b
  <2> HIDE DEF a, b
  <2>1. a \in Seq(Nat) /\ b \in Seq(Nat) /\ Len(a) = HashSize /\ Len(b) = HashSize BY <1>1 DEF a, b
  <2>2. \A i \in 1..HashSize : a[i] = b[i] BY <1>2 DEF a, b
  <2> QED BY <2>1, <2>2
<1> QED BY <1>3, HashFacts

LEMMA TakesOnce ==
  ASSUME NEW u, NEW p, NEW c, NEW t \in DOMAIN Types, NEW n, NEW ts, NEW m, NEW us,
         Takes(u, p, c, t, n, ts), Takes(u, p, c, t, m, us)
  PROVE  m = n /\ us = ts
<1>1. Types[t].kind \in Kinds BY TypeFacts
<1>2. CASE Types[t].kind = "scalar" BY <1>2 DEF Takes
<1>3. CASE Types[t].kind \in {"string", "tuple"} BY <1>3 DEF Takes, TakesTuple
<1>4. CASE Types[t].kind = "array" BY <1>4 DEF Takes, TakesArray
<1>5. CASE Types[t].kind = "struct" BY <1>5 DEF Takes
<1>6. CASE Types[t].kind = "ptr"
  BY <1>6 DEF Takes, TakesPtr, PtrNil, PtrIndex, PtrInline
<1>7. CASE Types[t].kind = "any"
  <2>1. TakesAny(u, p, n, ts) /\ TakesAny(u, p, m, us) BY <1>7 DEF Takes
  <2> QED BY <2>1, OneHash DEF TakesAny
<1>8. CASE Types[t].kind \in {"union", "iface"} BY <1>8 DEF Takes, TakesOne
<1>9. Types[t].kind # "dict" BY DEF Takes
<1> QED BY <1>1, <1>2, <1>3, <1>4, <1>5, <1>6, <1>7, <1>8, <1>9 DEF Kinds

-----------------------------------------------------------------------------
(* The verifier: its ways are what it takes.                               *)

Result == {"none", "ok", "fail", "lost"}

VerifierInv(v, u) ==
  /\ v \in [stack : Seq(DOMAIN Types), pos : Nat, count : Nat, result : Result]
  /\ v.pos <= Len(u)

Way(n, ts) == [units |-> n, types |-> ts]

\* The ways of the verifier are what it takes.
Exact(ways) ==
  \A way : way \in ways <=>
    \E n, ts : way = Way(n, ts) /\ Takes(wire, verifier.pos, verifier.count, Head(verifier.stack), n, ts)

LEMMA VerifyingTop ==
  ASSUME VerifierInv(verifier, wire), NEW kinds, Verifying(kinds)
  PROVE  LET t == Head(verifier.stack)
         IN  /\ verifier.stack \in Seq(DOMAIN Types) /\ verifier.stack # <<>> /\ t \in DOMAIN Types
             /\ Types[t].kind \in kinds /\ VType = Types[t]
             /\ verifier.pos \in Nat /\ verifier.count \in Nat
<1>1. verifier.stack \in Seq(DOMAIN Types) /\ verifier.pos \in Nat /\ verifier.count \in Nat
  BY DEF VerifierInv
<1>2. verifier.stack # <<>> /\ Types[Head(verifier.stack)].kind \in kinds BY DEF Verifying
<1>3. Head(verifier.stack) \in DOMAIN Types BY <1>1, <1>2, PushFacts
<1> QED BY <1>1, <1>2, <1>3 DEF VType

LEMMA VNextIs ==
  ASSUME VerifierInv(verifier, wire), NEW m, WireInv(wire, m)
  PROVE  /\ \A k \in Nat \ {0} : \A x : x \in VNext(k) <=> verifier.pos + k <= Len(wire) /\ x = wire[verifier.pos + k]
         /\ \A k \in Nat \ {0} : \A x : VNext(k) = {x} <=> verifier.pos + k <= Len(wire) /\ x = wire[verifier.pos + k]
         /\ \A k \in Nat \ {0} : verifier.pos + k <= Len(wire) => wire[verifier.pos + k] \in Nat
         /\ Len(wire) \in Nat
<1>1. verifier.pos \in Nat /\ wire \in Seq(Nat) /\ Len(wire) \in Nat /\ DOMAIN wire = 1..Len(wire)
  BY DEF VerifierInv, WireInv
<1>2. ASSUME NEW k \in Nat \ {0}
      PROVE  /\ \A x : x \in VNext(k) <=> verifier.pos + k <= Len(wire) /\ x = wire[verifier.pos + k]
             /\ \A x : VNext(k) = {x} <=> verifier.pos + k <= Len(wire) /\ x = wire[verifier.pos + k]
             /\ verifier.pos + k <= Len(wire) => wire[verifier.pos + k] \in Nat
  <2>1. verifier.pos + k \in DOMAIN wire <=> verifier.pos + k <= Len(wire) BY <1>1
  <2>2. VNext(k) = IF verifier.pos + k <= Len(wire) THEN {wire[verifier.pos + k]} ELSE {}
    BY <2>1 DEF VNext
  <2>3. verifier.pos + k <= Len(wire) => wire[verifier.pos + k] \in Nat BY <1>1, <2>1
  <2> QED BY <2>2, <2>3
<1> QED BY <1>1, <1>2

LEMMA UsesIs ==
  \A n, ts : \A way : way \in Uses(n, ts) <=> verifier.pos + n <= Len(wire) /\ way = Way(n, ts)
BY DEF Uses, Way

\* The ways of each kind.
ScalarWays == Uses(1, <<>>)

TupleWaysOf(len) ==
  IF IsScalar(VType.elem) THEN Uses(1 + len, <<>>) ELSE Uses(1, [i \in 1..len |-> VType.elem])

TupleWays == UNION {TupleWaysOf(len) : len \in VNext(1)}

ArrayWays ==
  IF IsScalar(VType.elem) THEN Uses(VType.size, <<>>)
  ELSE Uses(0, [i \in 1..VType.size |-> VType.elem])

StructWays == Uses(0, VType.fields)

PtrWaysOf(e) ==
  CASE e = PtrNil    -> Uses(1, <<>>)
    [] e = PtrIndex  -> UNION {Uses(2, <<>>) : idx \in {x \in VNext(2) : IndexBelow(x)}}
    [] e = PtrInline -> Uses(1, <<VType.elem>>)
    [] OTHER         -> {}

PtrWays == UNION {PtrWaysOf(e) : e \in VNext(1)}

AnyWays ==
  UNION {Uses(1 + HashSize, <<t>>) :
           t \in {t \in DOMAIN Hashes : VNext(1) = {HashSize} /\
                    \A i \in 1..HashSize : VNext(1 + i) = {Hashes[t][i]}}}

OneWays(choices) ==
  UNION {Uses(1, <<choices[id + 1]>>) : id \in {x \in VNext(1) : x < Len(choices)}}

LEMMA ScalarExact ==
  ASSUME VerifierInv(verifier, wire), NEW m, WireInv(wire, m), Verifying({"scalar"})
  PROVE  Exact(ScalarWays)
<1> DEFINE t == Head(verifier.stack)
           p == verifier.pos
<1>1. t \in DOMAIN Types /\ Types[t].kind = "scalar" /\ p \in Nat BY VerifyingTop
<1>2. \A n, ts : Takes(wire, p, verifier.count, t, n, ts) <=> p + n <= Len(wire) /\ n = 1 /\ ts = <<>>
  <2> DEFINE none == <<>>
  <2>1. none \in Seq(DOMAIN Types) BY NoValues
  <2>2. Types[t].kind = "scalar" BY <1>1
  <2>3. \A n, ts : Takes(wire, p, verifier.count, t, n, ts)
                    <=> n \in Nat /\ p + n <= Len(wire) /\ ts \in Seq(DOMAIN Types) /\ n = 1 /\ ts = none
    BY <2>2 DEF Takes
  <2> HIDE DEF none
  <2>4. \A n, ts : Takes(wire, p, verifier.count, t, n, ts) <=> p + n <= Len(wire) /\ n = 1 /\ ts = none
    BY <2>1, <2>3
  <2> QED BY <2>4 DEF none
<1> QED BY <1>2, UsesIs DEF Exact, ScalarWays

LEMMA TupleExact ==
  ASSUME VerifierInv(verifier, wire), NEW m, WireInv(wire, m), Verifying({"string", "tuple"})
  PROVE  Exact(TupleWays)
<1> DEFINE t == Head(verifier.stack)
           p == verifier.pos
           len == wire[p + 1]
           elem == Types[t].elem
           Is(n, ts) == Takes(wire, p, verifier.count, t, n, ts)
<1>1. t \in DOMAIN Types /\ Types[t].kind \in {"string", "tuple"} /\ VType = Types[t] /\ p \in Nat
  BY VerifyingTop
<1>2. elem \in DOMAIN Types BY <1>1, TypeFacts
<1>3. CASE p + 1 > Len(wire)
  <2>1. \A x : x \notin VNext(1) BY <1>3, <1>1, VNextIs
  <2>2. \A n, ts : ~Is(n, ts) BY <1>1, <1>3, VNextIs DEF Takes, TakesTuple
  <2> HIDE DEF Is
  <2> QED BY <2>1, <2>2 DEF Exact, TupleWays, Is
<1>4. CASE p + 1 <= Len(wire)
  <2>1. len \in Nat /\ \A x : x \in VNext(1) <=> x = len BY <1>4, VNextIs
  <2>2. CASE IsScalar(elem)
    <3>1. TupleWaysOf(len) = Uses(1 + len, <<>>) BY <1>1, <2>2 DEF TupleWaysOf
    <3>2. \A n, ts : Is(n, ts) <=> p + n <= Len(wire) /\ n = 1 + len /\ ts = <<>>
      <4>1. <<>> \in Seq(DOMAIN Types) /\ 1 + len \in Nat BY NoValues, <2>1
      <4> HIDE DEF len
      <4> QED BY <1>1, <1>4, <2>2, <4>1 DEF Takes, TakesTuple, len
    <3>3. \A way : way \in TupleWays <=> way \in TupleWaysOf(len) BY <2>1 DEF TupleWays
    <3> HIDE DEF Is, len
    <3> QED BY <3>1, <3>2, <3>3, UsesIs DEF Exact, Is
  <2>3. CASE ~IsScalar(elem)
    <3> DEFINE es == [i \in 1..len |-> elem]
    <3>0. TupleWaysOf(len) = Uses(1, es) BY <1>1, <2>3 DEF TupleWaysOf
    <3>1. \A way : way \in TupleWays <=> way \in TupleWaysOf(len) BY <2>1 DEF TupleWays
    <3>2. es \in Seq(DOMAIN Types) BY <1>2, <2>1
    <3>3. \A n, ts : Is(n, ts) <=> p + n <= Len(wire) /\ n = 1 /\ ts = es
      BY <1>1, <1>4, <2>1, <2>3, <3>2 DEF Takes, TakesTuple
    <3> HIDE DEF Is, es
    <3> QED BY <3>0, <3>1, <3>3, UsesIs DEF Exact, Is
  <2> QED BY <2>2, <2>3
<1>5. Len(wire) \in Nat BY VNextIs
<1> QED BY <1>1, <1>3, <1>4, <1>5

LEMMA ArrayExact ==
  ASSUME VerifierInv(verifier, wire), NEW m, WireInv(wire, m), Verifying({"array"})
  PROVE  Exact(ArrayWays)
<1> DEFINE t == Head(verifier.stack)
           p == verifier.pos
           elem == Types[t].elem
           es == [i \in 1..Types[t].size |-> elem]
           Is(n, ts) == Takes(wire, p, verifier.count, t, n, ts)
<1>1. t \in DOMAIN Types /\ Types[t].kind = "array" /\ VType = Types[t] /\ p \in Nat
  BY VerifyingTop
<1>2. elem \in DOMAIN Types /\ Types[t].size \in Nat BY <1>1, TypeFacts
<1>3. es \in Seq(DOMAIN Types) BY <1>2
<1>4. CASE IsScalar(elem)
  <2>1. ArrayWays = Uses(Types[t].size, <<>>) BY <1>1, <1>4 DEF ArrayWays
  <2>2. \A n, ts : Is(n, ts) <=> p + n <= Len(wire) /\ n = Types[t].size /\ ts = <<>>
    <3>1. <<>> \in Seq(DOMAIN Types) BY NoValues
    <3> QED BY <1>1, <1>2, <1>4, <3>1 DEF Takes, TakesArray
  <2> HIDE DEF Is
  <2> QED BY <2>1, <2>2, UsesIs DEF Exact, Is
<1>5. CASE ~IsScalar(elem)
  <2>1. ArrayWays = Uses(0, es) BY <1>1, <1>5 DEF ArrayWays
  <2>2. \A n, ts : Is(n, ts) <=> p + n <= Len(wire) /\ n = 0 /\ ts = es
    <3>1. Types[t].kind = "array" BY <1>1
    <3>2. TakesArray(t, 0, es) /\ \A n, ts : TakesArray(t, n, ts) => n = 0 /\ ts = es
      BY <1>5 DEF TakesArray
    <3> HIDE DEF es
    <3>3. es \in Seq(DOMAIN Types) BY <1>3
    <3> QED BY <3>1, <3>2, <3>3 DEF Takes
  <2> HIDE DEF Is, es
  <2> QED BY <2>1, <2>2, UsesIs DEF Exact, Is
<1> QED BY <1>4, <1>5

LEMMA StructExact ==
  ASSUME VerifierInv(verifier, wire), NEW m, WireInv(wire, m), Verifying({"struct"})
  PROVE  Exact(StructWays)
<1> DEFINE t == Head(verifier.stack)
           p == verifier.pos
           Is(n, ts) == Takes(wire, p, verifier.count, t, n, ts)
<1>1. t \in DOMAIN Types /\ Types[t].kind = "struct" /\ VType = Types[t] /\ p \in Nat
  BY VerifyingTop
<1>2. Types[t].fields \in Seq(DOMAIN Types) BY <1>1, TypeFacts
<1>3. StructWays = Uses(0, Types[t].fields) BY <1>1 DEF StructWays
<1>4. \A n, ts : Is(n, ts) <=> p + n <= Len(wire) /\ n = 0 /\ ts = Types[t].fields
  BY <1>1, <1>2 DEF Takes
<1> HIDE DEF Is
<1> QED BY <1>3, <1>4, UsesIs DEF Exact, Is

LEMMA PtrExact ==
  ASSUME VerifierInv(verifier, wire), NEW m, WireInv(wire, m), Verifying({"ptr"})
  PROVE  Exact(PtrWays)
<1> DEFINE t == Head(verifier.stack)
           p == verifier.pos
           c == verifier.count
           e == wire[p + 1]
           elem == Types[t].elem
           none == <<>>
           Is(n, ts) == Takes(wire, p, c, t, n, ts)
<1>1. t \in DOMAIN Types /\ Types[t].kind = "ptr" /\ VType = Types[t] /\ p \in Nat /\ c \in Nat
  BY VerifyingTop
<1>2. elem \in DOMAIN Types BY <1>1, TypeFacts
<1>3. Len(wire) \in Nat BY VNextIs
<1>4. \A n, ts : Is(n, ts) <=> n \in Nat /\ p + n <= Len(wire) /\ ts \in Seq(DOMAIN Types)
                               /\ TakesPtr(wire, p, c, t, n, ts)
  BY <1>1 DEF Takes
<1>5. CASE p + 1 > Len(wire)
  <2>1. \A x : x \notin VNext(1) BY <1>5, <1>1, <1>3, VNextIs
  <2>2. \A n, ts : ~Is(n, ts) BY <1>4, <1>1, <1>3, <1>5 DEF TakesPtr
  <2> HIDE DEF Is
  <2> QED BY <2>1, <2>2 DEF Exact, PtrWays, Is
<1>6. CASE p + 1 <= Len(wire)
  <2>1. e \in Nat /\ \A x : x \in VNext(1) <=> x = e BY <1>6, VNextIs
  <2>2. \A x : x \in VNext(2) <=> p + 2 <= Len(wire) /\ x = wire[p + 2] BY VNextIs
  <2>7. \A way : way \in PtrWays <=> way \in PtrWaysOf(e) BY <2>1 DEF PtrWays
  <2>3. CASE e = PtrNil
    <3>1. PtrWaysOf(e) = Uses(1, <<>>) BY <2>3 DEF PtrWaysOf, PtrNil, PtrIndex, PtrInline
    <3>2. \A n, ts : TakesPtr(wire, p, c, t, n, ts) <=> n = 1 /\ ts = <<>>
      BY <1>6, <2>3 DEF TakesPtr, PtrNil, PtrIndex, PtrInline
    <3>3. \A n, ts : Is(n, ts) <=> p + n <= Len(wire) /\ n = 1 /\ ts = <<>>
      <4>1. none \in Seq(DOMAIN Types) BY NoValues
      <4>2. \A n, ts : TakesPtr(wire, p, c, t, n, ts) <=> n = 1 /\ ts = none BY <3>2
      <4> HIDE DEF none, Is
      <4>3. \A n, ts : Is(n, ts) <=> p + n <= Len(wire) /\ n = 1 /\ ts = none
        BY <1>4, <4>1, <4>2
      <4> QED BY <4>3 DEF none
    <3> HIDE DEF Is, e
    <3> QED BY <2>7, <3>1, <3>3, UsesIs DEF Exact, Is
  <2>4. CASE e = PtrIndex
    <3>1. \A way : way \in PtrWaysOf(e) <=> \E idx \in VNext(2) : IndexBelow(idx) /\ way \in Uses(2, <<>>)
      BY <2>4 DEF PtrWaysOf, PtrNil, PtrIndex, PtrInline
    <3>2. \A n, ts : TakesPtr(wire, p, c, t, n, ts) <=> n = 2 /\ ts = <<>> /\ wire[p + 2] < c + 1
      BY <1>6, <2>4 DEF TakesPtr, PtrNil, PtrIndex, PtrInline
    <3>3. \A n, ts : Is(n, ts) <=> p + n <= Len(wire) /\ n = 2 /\ ts = <<>> /\ wire[p + 2] < c + 1
      <4>1. none \in Seq(DOMAIN Types) BY NoValues
      <4>2. \A n, ts : TakesPtr(wire, p, c, t, n, ts) <=> n = 2 /\ ts = none /\ wire[p + 2] < c + 1
        BY <3>2
      <4> HIDE DEF none, Is
      <4>3. \A n, ts : Is(n, ts) <=> p + n <= Len(wire) /\ n = 2 /\ ts = none /\ wire[p + 2] < c + 1
        BY <1>4, <4>1, <4>2
      <4> QED BY <4>3 DEF none
    <3>4. \A way : way \in PtrWaysOf(e) <=> /\ p + 2 <= Len(wire) /\ wire[p + 2] < c + 1
                                            /\ way \in Uses(2, <<>>)
      BY <3>1, <2>2 DEF IndexBelow
    <3> HIDE DEF Is, e
    <3> QED BY <2>7, <3>3, <3>4, UsesIs DEF Exact, Is
  <2>5. CASE e = PtrInline
    <3>1. PtrWaysOf(e) = Uses(1, <<elem>>)
      BY <1>1, <2>5 DEF PtrWaysOf, PtrNil, PtrIndex, PtrInline
    <3>2. <<elem>> \in Seq(DOMAIN Types) BY <1>2
    <3>3. \A n, ts : TakesPtr(wire, p, c, t, n, ts) <=> n = 1 /\ ts = <<elem>>
      BY <1>6, <2>5 DEF TakesPtr, PtrNil, PtrIndex, PtrInline
    <3>4. \A n, ts : Is(n, ts) <=> p + n <= Len(wire) /\ n = 1 /\ ts = <<elem>>
      BY <1>4, <3>2, <3>3
    <3> HIDE DEF Is, e
    <3> QED BY <2>7, <3>1, <3>4, UsesIs DEF Exact, Is
  <2>6. CASE e \notin {PtrNil, PtrIndex, PtrInline}
    <3>1. \A way : way \notin PtrWays BY <2>6, <2>7 DEF PtrWaysOf
    <3>2. \A n, ts : ~Is(n, ts) BY <1>4, <2>6 DEF TakesPtr
    <3> HIDE DEF Is, e
    <3> QED BY <3>1, <3>2 DEF Exact, Is
  <2> QED BY <2>3, <2>4, <2>5, <2>6
<1> QED BY <1>1, <1>3, <1>5, <1>6

LEMMA AnyExact ==
  ASSUME VerifierInv(verifier, wire), NEW m, WireInv(wire, m), Verifying({"any"})
  PROVE  Exact(AnyWays)
<1> DEFINE t == Head(verifier.stack)
           p == verifier.pos
           Is(n, ts) == Takes(wire, p, verifier.count, t, n, ts)
           Hash(u) == VNext(1) = {HashSize} /\ \A i \in 1..HashSize : VNext(1 + i) = {Hashes[u][i]}
<1>1. t \in DOMAIN Types /\ Types[t].kind = "any" /\ p \in Nat BY VerifyingTop
<1>2. HashSize \in Nat /\ Len(wire) \in Nat BY HashFacts, VNextIs
<1>3. \A way : way \in AnyWays <=> \E u \in DOMAIN Hashes : Hash(u) /\ way \in Uses(1 + HashSize, <<u>>)
  BY DEF AnyWays
<1>4. \A u \in DOMAIN Hashes :
        Hash(u) /\ p + 1 + HashSize <= Len(wire) <=> wire[p + 1] = HashSize /\ HashAt(wire, p, u)
                                                    /\ p + 1 + HashSize <= Len(wire)
  <2> TAKE u \in DOMAIN Hashes
  <2> SUFFICES ASSUME p + 1 + HashSize <= Len(wire)
               PROVE  Hash(u) <=> wire[p + 1] = HashSize /\ HashAt(wire, p, u)
    OBVIOUS
  <2>1. VNext(1) = {HashSize} <=> wire[p + 1] = HashSize
    <3>1. \A x : VNext(1) = {x} <=> p + 1 <= Len(wire) /\ x = wire[p + 1] BY VNextIs
    <3> QED BY <1>1, <1>2, <3>1
  <2>2. ASSUME NEW i \in 1..HashSize PROVE VNext(1 + i) = {Hashes[u][i]} <=> wire[p + 1 + i] = Hashes[u][i]
    <3>1. 1 + i \in Nat \ {0} /\ p + (1 + i) <= Len(wire) /\ p + (1 + i) = p + 1 + i BY <1>1, <1>2
    <3>2. \A x : VNext(1 + i) = {x} <=> p + (1 + i) <= Len(wire) /\ x = wire[p + (1 + i)]
      BY <3>1, VNextIs
    <3> QED BY <3>1, <3>2
  <2> QED BY <2>1, <2>2 DEF HashAt
<1>5. \A n, ts : Is(n, ts) <=>
        \E u \in DOMAIN Hashes : /\ wire[p + 1] = HashSize /\ HashAt(wire, p, u)
                                 /\ p + 1 + HashSize <= Len(wire) /\ n = 1 + HashSize /\ ts = <<u>>
  <2>1. \A u \in DOMAIN Hashes : <<u>> \in Seq(DOMAIN Types) BY HashFacts
  <2>2. \A n, ts : Is(n, ts) <=> n \in Nat /\ p + n <= Len(wire) /\ ts \in Seq(DOMAIN Types)
                                 /\ TakesAny(wire, p, n, ts)
    BY <1>1 DEF Takes
  <2>3. 1 + HashSize \in Nat /\ p + (1 + HashSize) = p + 1 + HashSize BY <1>1, <1>2
  <2> QED BY <2>1, <2>2, <2>3 DEF TakesAny
<1> HIDE DEF Is, Hash
<1>6. \A way : way \in AnyWays <=>
        \E u \in DOMAIN Hashes : /\ wire[p + 1] = HashSize /\ HashAt(wire, p, u)
                                 /\ p + 1 + HashSize <= Len(wire) /\ way = Way(1 + HashSize, <<u>>)
  <2>1. \A u \in DOMAIN Hashes : \A way :
          way \in Uses(1 + HashSize, <<u>>) <=> p + 1 + HashSize <= Len(wire) /\ way = Way(1 + HashSize, <<u>>)
    <3>1. p + (1 + HashSize) = p + 1 + HashSize BY <1>1, <1>2
    <3> QED BY <3>1, UsesIs
  <2> QED BY <1>3, <1>4, <2>1
<1> QED BY <1>5, <1>6 DEF Exact, Is

\* A union that is not past its array, and an interface.
LEMMA OneExact ==
  ASSUME VerifierInv(verifier, wire), NEW m, WireInv(wire, m), Verifying({"union", "iface"}),
         NEW choices \in Seq(DOMAIN Types),
         LET t == Head(verifier.stack)
         IN  \/ Types[t].kind = "union" /\ choices = Types[t].fields
             \/ Types[t].kind = "iface" /\ choices = Types[t].methods
  PROVE  Exact(OneWays(choices))
<1> DEFINE t == Head(verifier.stack)
           p == verifier.pos
           x == wire[p + 1]
           Is(n, ts) == Takes(wire, p, verifier.count, t, n, ts)
<1>1. t \in DOMAIN Types /\ p \in Nat /\ Len(wire) \in Nat /\ Len(choices) \in Nat
  BY VerifyingTop, VNextIs
<1>2. \A n, ts : Is(n, ts) <=> n \in Nat /\ p + n <= Len(wire) /\ ts \in Seq(DOMAIN Types)
                               /\ TakesOne(wire, p, choices, n, ts)
  BY DEF Takes
<1>3. \A y : y \in VNext(1) <=> p + 1 <= Len(wire) /\ y = x BY VNextIs
<1>4. \A way : way \in OneWays(choices) <=>
        p + 1 <= Len(wire) /\ x < Len(choices) /\ way = Way(1, <<choices[x + 1]>>)
  <2> DEFINE of(y) == Uses(1, <<choices[y + 1]>>)
  <2>1. \A way : way \in OneWays(choices) <=> \E y \in VNext(1) : y < Len(choices) /\ way \in of(y)
    BY DEF OneWays
  <2>2. \A way : way \in of(x) <=> p + 1 <= Len(wire) /\ way = Way(1, <<choices[x + 1]>>)
    BY UsesIs
  <2> HIDE DEF of, x
  <2> QED BY <2>1, <2>2, <1>3
<1>5. \A n, ts : Is(n, ts) <=>
        p + 1 <= Len(wire) /\ x < Len(choices) /\ n = 1 /\ ts = <<choices[x + 1]>>
  <2>1. p + 1 <= Len(wire) /\ x < Len(choices) => <<choices[x + 1]>> \in Seq(DOMAIN Types)
    <3> SUFFICES ASSUME p + 1 <= Len(wire), x < Len(choices) PROVE choices[x + 1] \in DOMAIN Types
      OBVIOUS
    <3>1. x \in Nat BY VNextIs
    <3> QED BY <3>1, <1>1
  <2>2. \A n, ts : TakesOne(wire, p, choices, n, ts) <=> n = 1 /\ x < Len(choices) /\ ts = <<choices[x + 1]>>
    BY DEF TakesOne
  <2> DEFINE one == <<choices[x + 1]>>
  <2>3. p + 1 <= Len(wire) /\ x < Len(choices) => one \in Seq(DOMAIN Types) BY <2>1
  <2>4. \A n, ts : TakesOne(wire, p, choices, n, ts) <=> n = 1 /\ x < Len(choices) /\ ts = one BY <2>2
  <2> HIDE DEF x, Is, one
  <2>5. \A n, ts : Is(n, ts) <=> p + 1 <= Len(wire) /\ x < Len(choices) /\ n = 1 /\ ts = one
    BY <1>2, <2>3, <2>4
  <2> QED BY <2>5 DEF one
<1> HIDE DEF Is, x
<1> QED BY <1>4, <1>5 DEF Exact, Is

\* The verifier takes n units, and has values of types ts to verify next.
Advances(n, ts) ==
  /\ verifier' = [verifier EXCEPT
                    !.stack = ts \o Tail(@), !.pos = @ + n,
                    !.count = IF VType.kind = "iface" THEN @ ELSE @ + 1]
  /\ UNCHANGED <<world, phase, wire, foreign, encoder, decoder, memory, encoded, decoded>>

TakesNow(n, ts) == Takes(wire, verifier.pos, verifier.count, Head(verifier.stack), n, ts)

\* A step of the verifier inside the value: it takes what there is to take, and
\* gives up only if there is nothing.
VerifyStep ==
  /\ verifier.stack # <<>> /\ phase = "verify"
  /\ \/ \E n, ts : TakesNow(n, ts) /\ Advances(n, ts)
     \/ (Verified("fail") \/ Verified("lost")) /\ \A n, ts : ~TakesNow(n, ts)

LEMMA ExactStep ==
  ASSUME verifier.stack # <<>>, phase = "verify", NEW ways, Exact(ways), Verifies(ways)
  PROVE  VerifyStep
<1>1. CASE ways = {} /\ Verified("fail")
  <2>1. \A n, ts : ~TakesNow(n, ts)
    <3>1. \A way : way \notin ways BY <1>1
    <3> TAKE n, ts
    <3>2. Way(n, ts) \in ways <=> \E m, us : Way(n, ts) = Way(m, us) /\ TakesNow(m, us)
      BY DEF Exact, TakesNow
    <3> HIDE DEF TakesNow
    <3> QED BY <3>1, <3>2
  <2> QED BY <1>1, <2>1 DEF VerifyStep
<1>2. CASE ~(ways = {} /\ Verified("fail"))
  <2>1. PICK way \in ways :
          /\ verifier' = [verifier EXCEPT !.stack = way.types \o Tail(@), !.pos = @ + way.units,
                                          !.count = IF VType.kind = "iface" THEN @ ELSE @ + 1]
          /\ UNCHANGED <<world, phase, wire, foreign, encoder, decoder, memory, encoded, decoded>>
    BY <1>2 DEF Verifies
  <2>2. PICK n, ts : way = Way(n, ts) /\ TakesNow(n, ts) BY DEF Exact, TakesNow
  <2>3. way.units = n /\ way.types = ts BY <2>2 DEF Way
  <2>4. Advances(n, ts) BY <2>1, <2>3 DEF Advances
  <2> QED BY <2>2, <2>4 DEF VerifyStep
<1> QED BY <1>1, <1>2

LEMMA VerifyForm ==
  ASSUME VerifierInv(verifier, wire), NEW m, WireInv(wire, m), Verify
  PROVE  VerifyStep \/ VerifyEnd
<1> DEFINE t == Head(verifier.stack)
<1>0. \A kinds : Verifying(kinds) => verifier.stack # <<>> /\ phase = "verify" BY DEF Verifying
<1>1. CASE VerifyScalar
  <2>1. Verifying({"scalar"}) /\ Verifies(ScalarWays) BY <1>1 DEF VerifyScalar, ScalarWays
  <2> QED BY <1>0, <2>1, ScalarExact, ExactStep
<1>2. CASE VerifyTuple
  <2>1. Verifying({"string", "tuple"}) /\ Verifies(TupleWays)
    BY <1>2 DEF VerifyTuple, TupleWays, TupleWaysOf
  <2> QED BY <1>0, <2>1, TupleExact, ExactStep
<1>3. CASE VerifyArray
  <2>1. Verifying({"array"}) /\ Verifies(ArrayWays) BY <1>3 DEF VerifyArray, ArrayWays
  <2> QED BY <1>0, <2>1, ArrayExact, ExactStep
<1>4. CASE VerifyStruct
  <2>1. Verifying({"struct"}) /\ Verifies(StructWays) BY <1>4 DEF VerifyStruct, StructWays
  <2> QED BY <1>0, <2>1, StructExact, ExactStep
<1>5. CASE VerifyPtr
  <2>1. Verifying({"ptr"}) /\ Verifies(PtrWays) BY <1>5 DEF VerifyPtr, PtrWays, PtrWaysOf
  <2> QED BY <1>0, <2>1, PtrExact, ExactStep
<1>6. CASE VerifyAny
  <2>1. Verifying({"any"}) /\ Verifies(AnyWays) BY <1>6 DEF VerifyAny, AnyWays
  <2> QED BY <1>0, <2>1, AnyExact, ExactStep
<1>7. CASE VerifyUnion
  <2>1. Verifying({"union"}) /\ Verifying({"union", "iface"}) BY <1>7 DEF VerifyUnion, Verifying
  <2>2. t \in DOMAIN Types /\ Types[t].kind = "union" /\ VType = Types[t] BY <2>1, VerifyingTop
  <2>3. Types[t].fields \in Seq(DOMAIN Types) /\ Len(Types[t].fields) \in Nat BY <2>2, TypeFacts
  <2>4. CASE \E id \in VNext(1) : PastUnion(id) /\ Verified("lost")
    <3>1. wire[verifier.pos + 1] >= Len(Types[t].fields)
      <4>1. PICK id \in VNext(1) : PastUnion(id) BY <2>4
      <4>2. id = wire[verifier.pos + 1] BY VNextIs
      <4>3. id >= Len(Types[t].fields)
        <5> DEFINE b == PtrBytes * Len(Types[t].fields) - 1
        <5>1. id \in Len(Types[t].fields)..b BY <2>2, <4>1 DEF PastUnion
        <5> HIDE DEF b
        <5> QED BY <5>1
      <4> QED BY <4>2, <4>3
    <3>2. wire[verifier.pos + 1] \in Nat
      <4>1. PICK id \in VNext(1) : TRUE BY <2>4
      <4> QED BY VNextIs
    <3>3. \A n, ts : ~TakesNow(n, ts) BY <2>2, <2>3, <3>1, <3>2 DEF TakesNow, Takes, TakesOne
    <3> QED BY <1>0, <2>1, <2>4, <3>3 DEF VerifyStep
  <2>5. CASE Verifies(OneWays(Types[t].fields))
    <3>1. Exact(OneWays(Types[t].fields)) BY <2>1, <2>2, <2>3, OneExact
    <3> QED BY <1>0, <2>1, <2>5, <3>1, ExactStep
  <2> QED BY <1>7, <2>2, <2>4, <2>5 DEF VerifyUnion, OneWays
<1>8. CASE VerifyInterface
  <2>1. Verifying({"iface"}) /\ Verifying({"union", "iface"}) BY <1>8 DEF VerifyInterface, Verifying
  <2>2. t \in DOMAIN Types /\ Types[t].kind = "iface" /\ VType = Types[t] BY <2>1, VerifyingTop
  <2>3. Types[t].methods \in Seq(DOMAIN Types) BY <2>2, TypeFacts
  <2>4. Verifies(OneWays(Types[t].methods)) BY <1>8, <2>2 DEF VerifyInterface, OneWays
  <2>5. Exact(OneWays(Types[t].methods)) BY <2>1, <2>2, <2>3, OneExact
  <2> QED BY <1>0, <2>1, <2>4, <2>5, ExactStep
<1>9. CASE VerifyNotImplemented
  <2>1. Verifying({"dict"}) /\ Verified("fail") BY <1>9 DEF VerifyNotImplemented
  <2>2. Types[t].kind = "dict" BY <2>1, VerifyingTop
  <2>3. \A n, ts : ~TakesNow(n, ts) BY <2>2 DEF TakesNow, Takes
  <2> QED BY <1>0, <2>1, <2>3 DEF VerifyStep
<1> QED BY <1>1, <1>2, <1>3, <1>4, <1>5, <1>6, <1>7, <1>8, <1>9 DEF Verify

LEMMA AdvancesTypes ==
  ASSUME VerifierInv(verifier, wire), verifier.stack # <<>>, NEW n, NEW ts,
         TakesNow(n, ts), Advances(n, ts)
  PROVE  VerifierInv(verifier', wire) /\ verifier'.result = verifier.result
         /\ verifier'.stack = ts \o Tail(verifier.stack) /\ verifier'.pos = verifier.pos + n
         /\ verifier'.count = IF Types[Head(verifier.stack)].kind = "iface" THEN verifier.count
                              ELSE verifier.count + 1
<1> DEFINE c == IF Types[Head(verifier.stack)].kind = "iface" THEN verifier.count ELSE verifier.count + 1
           v == [verifier EXCEPT !.stack = ts \o Tail(verifier.stack), !.pos = verifier.pos + n,
                                 !.count = c]
<1>1. verifier \in [stack : Seq(DOMAIN Types), pos : Nat, count : Nat, result : Result]
  BY DEF VerifierInv
<1>2. n \in Nat /\ verifier.pos + n <= Len(wire) /\ ts \in Seq(DOMAIN Types)
  BY DEF TakesNow, Takes
<1>3. verifier' = v
  BY DEF Advances, VType
<1>4. ts \o Tail(verifier.stack) \in Seq(DOMAIN Types)
  <2>1. verifier.stack \in Seq(DOMAIN Types) BY <1>1
  <2> QED BY <1>2, <2>1, PushFacts
<1>5. verifier.pos + n \in Nat /\ c \in Nat BY <1>1, <1>2
<1> HIDE DEF c
<1>6. v \in [stack : Seq(DOMAIN Types), pos : Nat, count : Nat, result : Result]
      /\ v.pos = verifier.pos + n /\ v.stack = ts \o Tail(verifier.stack) /\ v.count = c
      /\ v.result = verifier.result
  BY <1>1, <1>4, <1>5
<1> HIDE DEF v
<1> QED BY <1>2, <1>3, <1>6 DEF VerifierInv, c

LEMMA VerifiedTypes ==
  ASSUME VerifierInv(verifier, wire), NEW r \in Result, Verified(r)
  PROVE  VerifierInv(verifier', wire) /\ verifier'.result = r
         /\ verifier'.stack = verifier.stack /\ verifier'.pos = verifier.pos
BY DEF VerifierInv, Verified

-----------------------------------------------------------------------------
(* The decoder: its types, and that it takes what the verifier takes.      *)

DAddress == Nat \X Nat
DItem == [type : DOMAIN Types, addr : DAddress, keep : BOOLEAN]

DecoderType ==
  [stack : Seq(DItem), pos : Nat, next : Nat, table : Partial(Nat, DAddress \cup {Junk}),
   blocks : Nat, turn : 0..2, result : {"none", "ok", "fail"}]

DecoderInv(d, u) == d \in DecoderType /\ d.pos <= Len(u)

TypesOf(values) == [i \in DOMAIN values |-> values[i].type]

LEMMA AddressFacts ==
  /\ \A a \in DAddress, n \in Nat : At(a, n) \in DAddress
  /\ \A t \in DOMAIN Types, a \in DAddress, k \in BOOLEAN :
       Value(t, a, k) \in DItem /\ Value(t, a, k).type = t
BY DEF DAddress, DItem, At, Value

LEMMA NoTypes == TypesOf(<<>>) = <<>>
BY DEF TypesOf

LEMMA OneType ==
  ASSUME NEW t \in DOMAIN Types, NEW a \in DAddress
  PROVE  <<Value(t, a, FALSE)>> \in Seq(DItem) /\ TypesOf(<<Value(t, a, FALSE)>>) = <<t>>
<1> DEFINE v == Value(t, a, FALSE)
<1>1. v \in DItem /\ v.type = t BY AddressFacts
<1> HIDE DEF v
<1>2. <<v>> \in Seq(DItem) /\ TypesOf(<<v>>) = <<t>> BY <1>1 DEF TypesOf
<1> QED BY <1>2 DEF v

LEMMA ElementsTypes ==
  ASSUME NEW t \in DOMAIN Types, Types[t].kind \in {"string", "tuple", "array"},
         NEW a \in DAddress, NEW n \in Nat
  PROVE  /\ Elements(t, a, n) \in Seq(DItem)
         /\ TypesOf(Elements(t, a, n)) = [i \in 1..n |-> Types[t].elem]
<1> DEFINE e == Types[t].elem
           v(i) == Value(e, At(a, (i - 1) * Types[e].size), FALSE)
           s == [i \in 1..n |-> v(i)]
<1>1. e \in DOMAIN Types BY TypeFacts
<1>2. Types[e].size \in Nat BY <1>1, TypeFacts
<1>3. \A i \in 1..n : v(i) \in DItem /\ v(i).type = e
  <2> TAKE i \in 1..n
  <2>1. (i - 1) * Types[e].size \in Nat
    <3>1. i - 1 \in Nat OBVIOUS
    <3> QED BY <1>2, <3>1
  <2> QED BY <1>1, <2>1, AddressFacts
<1>4. Elements(t, a, n) = s BY DEF Elements
<1> HIDE DEF v, e
<1>5. s \in [1..n -> DItem] BY <1>3
<1>6. s \in Seq(DItem) /\ DOMAIN s = 1..n BY <1>5, MadeFacts
<1>7. TypesOf(s) = [i \in 1..n |-> e] BY <1>3, <1>6 DEF TypesOf
<1> QED BY <1>4, <1>6, <1>7 DEF e

LEMMA FieldsTypes ==
  ASSUME NEW t \in DOMAIN Types, Types[t].kind = "struct", NEW a \in DAddress
  PROVE  Fields(t, a) \in Seq(DItem) /\ TypesOf(Fields(t, a)) = Types[t].fields
<1> DEFINE f == Types[t].fields
           o == Types[t].offsets
           n == Len(f)
           v(i) == Value(f[i], At(a, o[i]), FALSE)
           s == [i \in 1..n |-> v(i)]
<1>1. f \in Seq(DOMAIN Types) /\ o \in [DOMAIN f -> Nat] BY TypeFacts
<1> HIDE DEF f, o
<1>2. DOMAIN f = 1..n /\ n \in Nat BY <1>1
<1>3. \A i \in 1..n : v(i) \in DItem /\ v(i).type = f[i]
  <2> TAKE i \in 1..n
  <2>1. f[i] \in DOMAIN Types /\ o[i] \in Nat BY <1>1, <1>2
  <2> QED BY <2>1, AddressFacts
<1>4. Fields(t, a) = s BY <1>2 DEF Fields, f, o
<1> HIDE DEF v
<1>5. s \in [1..n -> DItem] BY <1>3
<1>6. s \in Seq(DItem) /\ DOMAIN s = 1..n BY <1>2, <1>5, MadeFacts
<1>7. TypesOf(s) = f BY <1>1, <1>2, <1>3, <1>6 DEF TypesOf
<1> QED BY <1>4, <1>6, <1>7 DEF f

TakesHere(c, n, ts) == Takes(wire, decoder.pos, c, DTop.type, n, ts)

\* The verifier would take n units and values of the types of values, too, as
\* long as it has not counted more than the decoder.
Fits(n, values) ==
  \A c \in 0..decoder.next : \A m, ts : TakesHere(c, m, ts) => m = n /\ ts = TypesOf(values)

NothingToTake == \A c \in 0..decoder.next : \A m, ts : ~TakesHere(c, m, ts)

DWay(n, skip, cells, values) == [units |-> n, skip |-> skip, cells |-> cells, values |-> values]

GoodWay(way) ==
  \E n, skip, cells, values :
    /\ way = DWay(n, skip, cells, values)
    /\ n \in Nat /\ skip \in Nat /\ values \in Seq(DItem) /\ decoder.pos + n <= Len(wire)
    /\ Fits(n, values)

Sound(ways) == (\A way \in ways : GoodWay(way)) /\ (ways = {} => NothingToTake)

Stores(n, skip, cells, values) ==
  /\ decoder' = [decoder EXCEPT !.stack = values \o Tail(@), !.pos = @ + n,
                                !.next = @ + 1 + skip, !.table = Indexed, !.blocks = @ + 1]
  /\ memory' = Over(cells, memory)
  /\ decoded' = Append(decoded, [type |-> DTop.type, addr |-> DTop.addr, count |-> decoder.next])
  /\ UNCHANGED <<world, phase, wire, foreign, encoder, verifier, encoded>>

StoresSome ==
  \E n, skip, cells, values :
    /\ n \in Nat /\ skip \in Nat /\ values \in Seq(DItem) /\ decoder.pos + n <= Len(wire)
    /\ Fits(n, values) /\ Stores(n, skip, cells, values)

\* A step of the decoder inside a value: it takes what the verifier would take,
\* and gives up only if there is nothing, or at an interface.
DecodeStep ==
  /\ decoder.stack # <<>> /\ phase = "decode"
  /\ StoresSome \/ (DecodeFails /\ (Types[DTop.type].kind # "iface" => NothingToTake))

LEMMA SoundStep ==
  ASSUME decoder.stack # <<>>, phase = "decode", NEW ways, Sound(ways), Decodes(ways)
  PROVE  DecodeStep
<1>1. CASE ways = {} /\ DecodeFails
  BY <1>1 DEF Sound, DecodeStep
<1>2. CASE ~(ways = {} /\ DecodeFails)
  <2>1. PICK way \in ways :
          /\ decoder' = [decoder EXCEPT !.stack = way.values \o Tail(@), !.pos = @ + way.units,
                                        !.next = @ + 1 + way.skip, !.table = Indexed,
                                        !.blocks = @ + 1]
          /\ memory' = Over(way.cells, memory)
    BY <1>2 DEF Decodes
  <2>2. /\ decoded' = Append(decoded, [type |-> DTop.type, addr |-> DTop.addr,
                                       count |-> decoder.next])
        /\ UNCHANGED <<world, phase, wire, foreign, encoder, verifier, encoded>>
    BY <1>2 DEF Decodes
  <2>3. PICK n, skip, cells, values :
          /\ way = DWay(n, skip, cells, values)
          /\ n \in Nat /\ skip \in Nat /\ values \in Seq(DItem) /\ decoder.pos + n <= Len(wire)
          /\ Fits(n, values)
    BY DEF Sound, GoodWay
  <2>4. way.units = n /\ way.skip = skip /\ way.cells = cells /\ way.values = values
    BY <2>3 DEF DWay
  <2>5. Stores(n, skip, cells, values) BY <2>1, <2>2, <2>4 DEF Stores
  <2>6. StoresSome BY <2>3, <2>5 DEF StoresSome
  <2> QED BY <2>6 DEF DecodeStep
<1> QED BY <1>1, <1>2

LEMMA DecodingTop ==
  ASSUME DecoderInv(decoder, wire), NEW kinds, Decoding(kinds)
  PROVE  /\ decoder.stack \in Seq(DItem) /\ decoder.stack # <<>> /\ DTop \in DItem
         /\ DTop.type \in DOMAIN Types /\ DTop.addr \in DAddress
         /\ Types[DTop.type].kind \in kinds /\ DType = Types[DTop.type]
         /\ decoder.pos \in Nat /\ decoder.next \in Nat /\ Block \in DAddress
         /\ phase = "decode"
<1>1. decoder.stack \in Seq(DItem) /\ decoder.pos \in Nat /\ decoder.next \in Nat /\ decoder.blocks \in Nat
  BY DEF DecoderInv, DecoderType
<1>2. decoder.stack # <<>> /\ Types[Head(decoder.stack).type].kind \in kinds /\ phase = "decode"
  BY DEF Decoding
<1>3. Head(decoder.stack) \in DItem BY <1>1, <1>2, PushFacts
<1>4. DTop \in DItem BY <1>3 DEF DTop
<1>5. DTop.type \in DOMAIN Types /\ DTop.addr \in DAddress BY <1>4 DEF DItem
<1> QED BY <1>1, <1>2, <1>4, <1>5 DEF DTop, DType, Block, DAddress

LEMMA DNextIs ==
  ASSUME DecoderInv(decoder, wire), NEW m, WireInv(wire, m)
  PROVE  /\ \A k \in Nat \ {0} : \A x : x \in DNext(k) <=> decoder.pos + k <= Len(wire) /\ x = wire[decoder.pos + k]
         /\ \A k \in Nat \ {0} : \A x : DNext(k) = {x} <=> decoder.pos + k <= Len(wire) /\ x = wire[decoder.pos + k]
         /\ \A k \in Nat \ {0} : decoder.pos + k <= Len(wire) => wire[decoder.pos + k] \in Nat
         /\ Len(wire) \in Nat
<1>1. decoder.pos \in Nat /\ wire \in Seq(Nat) /\ Len(wire) \in Nat /\ DOMAIN wire = 1..Len(wire)
  BY DEF DecoderInv, DecoderType, WireInv
<1>2. ASSUME NEW k \in Nat \ {0}
      PROVE  /\ \A x : x \in DNext(k) <=> decoder.pos + k <= Len(wire) /\ x = wire[decoder.pos + k]
             /\ \A x : DNext(k) = {x} <=> decoder.pos + k <= Len(wire) /\ x = wire[decoder.pos + k]
             /\ decoder.pos + k <= Len(wire) => wire[decoder.pos + k] \in Nat
  <2>1. decoder.pos + k \in DOMAIN wire <=> decoder.pos + k <= Len(wire) BY <1>1
  <2>2. DNext(k) = IF decoder.pos + k <= Len(wire) THEN {wire[decoder.pos + k]} ELSE {}
    BY <2>1 DEF DNext
  <2>3. decoder.pos + k <= Len(wire) => wire[decoder.pos + k] \in Nat BY <1>1, <2>1
  <2> QED BY <2>2, <2>3
<1> QED BY <1>1, <1>2

LEMMA GetsIs ==
  \A n, skip, cells, values : \A way :
    way \in Gets(n, skip, cells, values) <=>
      decoder.pos + n <= Len(wire) /\ way = DWay(n, skip, cells, values)
BY DEF Gets, DWay

LEMMA GetsGood ==
  \A n, skip \in Nat, values \in Seq(DItem) : \A cells : \A way \in Gets(n, skip, cells, values) :
    Fits(n, values) => GoodWay(way)
BY GetsIs DEF GoodWay

LEMMA NoItems == <<>> \in Seq(DItem) /\ <<>> \in Seq(DOMAIN Types)
OBVIOUS

LEMMA DecodeScalarStep ==
  ASSUME DecoderInv(decoder, wire), NEW m, WireInv(wire, m), DecodeScalar
  PROVE  DecodeStep
<1> DEFINE t == DTop.type
           x == wire[decoder.pos + 1]
           of(y) == Gets(1, 0, Cell(DTop.addr, y), <<>>)
           ways == UNION {of(y) : y \in DNext(1)}
<1>1. Decoding({"scalar"}) BY DEF DecodeScalar
<1>2. Types[t].kind = "scalar" /\ decoder.stack # <<>> /\ phase = "decode" BY <1>1, DecodingTop
<1>3. Decodes(ways) BY DEF DecodeScalar
<1>4. \A y : y \in DNext(1) <=> decoder.pos + 1 <= Len(wire) /\ y = x BY DNextIs
<1>5. \A c, n, ts : TakesHere(c, n, ts) => n = 1 /\ ts = <<>> /\ decoder.pos + 1 <= Len(wire)
  BY <1>2 DEF TakesHere, Takes
<1>6. Fits(1, <<>>) BY <1>5, NoTypes DEF Fits
<1>7. \A way \in ways : GoodWay(way) BY <1>6, GetsGood, NoItems
<1>8. ways = {} => NothingToTake
  <2>1. decoder.pos + 1 <= Len(wire) => of(x) # {} BY GetsIs
  <2> HIDE DEF of
  <2>2. decoder.pos + 1 <= Len(wire) => ways # {} BY <1>4, <2>1
  <2> QED BY <1>5, <2>2 DEF NothingToTake
<1>9. Sound(ways) BY <1>7, <1>8 DEF Sound
<1> QED BY <1>2, <1>3, <1>9, SoundStep

DTupleWaysOf(len) ==
  LET cell == Cell(DTop.addr, [data |-> Block, len |-> len])
  IN  IF ~IsScalar(DType.elem) THEN Gets(1, 0, cell, Elements(DTop.type, Block, len))
      ELSE IF decoder.pos + 1 + len > Len(wire) THEN {}
      ELSE Gets(1 + len, len, Over(cell, Copied(Block, 2, len)), <<>>)

LEMMA DecodeTupleStep ==
  ASSUME DecoderInv(decoder, wire), NEW m, WireInv(wire, m), DecodeTuple
  PROVE  DecodeStep
<1> DEFINE t == DTop.type
           p == decoder.pos
           x == wire[p + 1]
           ways == UNION {DTupleWaysOf(len) : len \in DNext(1)}
<1>1. Decoding({"string", "tuple"}) BY DEF DecodeTuple
<1>2. /\ t \in DOMAIN Types /\ Types[t].kind \in {"string", "tuple"} /\ decoder.stack # <<>>
      /\ phase = "decode" /\ DType = Types[t] /\ Block \in DAddress /\ p \in Nat
  BY <1>1, DecodingTop
<1>3. Decodes(ways) BY DEF DecodeTuple, DTupleWaysOf
<1>4. /\ \A y : y \in DNext(1) <=> p + 1 <= Len(wire) /\ y = x
      /\ p + 1 <= Len(wire) => x \in Nat
      /\ Len(wire) \in Nat
  BY DNextIs
<1>5. \A c, n, ts : TakesHere(c, n, ts) => TakesTuple(wire, p, t, n, ts) /\ p + n <= Len(wire)
  BY <1>2 DEF TakesHere, Takes
<1>6. CASE IsScalar(Types[t].elem)
  <2>1. \A c, n, ts : TakesHere(c, n, ts) => n = 1 + x /\ ts = <<>> /\ p + 1 <= Len(wire) /\ p + n <= Len(wire)
    BY <1>5, <1>6 DEF TakesTuple
  <2>2. Fits(1 + x, <<>>) BY <2>1, NoTypes DEF Fits
  <2>3. \A way \in ways : GoodWay(way)
    <3> SUFFICES ASSUME NEW len \in DNext(1), NEW way \in DTupleWaysOf(len) PROVE GoodWay(way)
      OBVIOUS
    <3>1. len = x /\ len \in Nat BY <1>4
    <3>2. \E cells : way \in Gets(1 + len, len, cells, <<>>) BY <1>2, <1>6 DEF DTupleWaysOf
    <3>3. 1 + len \in Nat BY <3>1
    <3> QED BY <2>2, <3>1, <3>2, <3>3, GetsGood, NoItems
  <2>4. ways = {} => NothingToTake
    <3>1. ASSUME p + 1 <= Len(wire), p + (1 + x) <= Len(wire) PROVE ways # {}
      <4>1. x \in DNext(1) /\ x \in Nat BY <1>4, <3>1
      <4>2. ~(p + 1 + x > Len(wire)) BY <1>2, <1>4, <3>1, <4>1
      <4>3. DTupleWaysOf(x) # {} BY <1>2, <1>6, <3>1, <4>2, GetsIs DEF DTupleWaysOf
      <4> QED BY <4>1, <4>3
    <3> HIDE DEF ways
    <3> QED BY <2>1, <3>1 DEF NothingToTake
  <2>5. Sound(ways) BY <2>3, <2>4 DEF Sound
  <2> QED BY <1>2, <1>3, <2>5, SoundStep
<1>7. CASE ~IsScalar(Types[t].elem)
  <2>1. \A c, n, ts : TakesHere(c, n, ts) =>
          n = 1 /\ ts = [i \in 1..x |-> Types[t].elem] /\ p + 1 <= Len(wire)
    BY <1>5, <1>7 DEF TakesTuple
  <2>2. p + 1 <= Len(wire) =>
          /\ Elements(t, Block, x) \in Seq(DItem)
          /\ TypesOf(Elements(t, Block, x)) = [i \in 1..x |-> Types[t].elem]
    BY <1>2, <1>4, ElementsTypes
  <2>3. p + 1 <= Len(wire) => Fits(1, Elements(t, Block, x))
    <3> DEFINE values == Elements(t, Block, x)
               types == [i \in 1..x |-> Types[t].elem]
    <3>1. p + 1 <= Len(wire) => TypesOf(values) = types BY <2>2
    <3>2. \A c, n, ts : TakesHere(c, n, ts) => n = 1 /\ ts = types BY <2>1
    <3> HIDE DEF values, types
    <3>3. p + 1 <= Len(wire) => Fits(1, values) BY <3>1, <3>2 DEF Fits
    <3> QED BY <3>3 DEF values
  <2>4. \A way \in ways : GoodWay(way)
    <3> SUFFICES ASSUME NEW len \in DNext(1), NEW way \in DTupleWaysOf(len) PROVE GoodWay(way)
      OBVIOUS
    <3>1. len = x /\ p + 1 <= Len(wire) BY <1>4
    <3>2. \E cells : way \in Gets(1, 0, cells, Elements(t, Block, x)) BY <1>2, <1>7, <3>1 DEF DTupleWaysOf
    <3> QED BY <2>2, <2>3, <3>1, <3>2, GetsGood
  <2>5. ways = {} => NothingToTake
    <3>1. ASSUME p + 1 <= Len(wire) PROVE ways # {}
      <4>1. x \in DNext(1) BY <1>4, <3>1
      <4>2. DTupleWaysOf(x) # {} BY <1>2, <1>7, <3>1, GetsIs DEF DTupleWaysOf
      <4> QED BY <4>1, <4>2
    <3> HIDE DEF ways
    <3> QED BY <2>1, <3>1 DEF NothingToTake
  <2>6. Sound(ways) BY <2>4, <2>5 DEF Sound
  <2> QED BY <1>2, <1>3, <2>6, SoundStep
<1> QED BY <1>6, <1>7

LEMMA DecodeArrayStep ==
  ASSUME DecoderInv(decoder, wire), NEW m, WireInv(wire, m), DecodeArray
  PROVE  DecodeStep
<1> DEFINE t == DTop.type
           p == decoder.pos
           s == Types[t].size
<1>1. Decoding({"array"}) BY DEF DecodeArray
<1>2. /\ t \in DOMAIN Types /\ Types[t].kind = "array" /\ decoder.stack # <<>>
      /\ phase = "decode" /\ DType = Types[t] /\ DTop.addr \in DAddress /\ p \in Nat /\ Len(wire) \in Nat
  BY <1>1, DecodingTop, DNextIs
<1>3. s \in Nat BY <1>2, TypeFacts
<1>4. \A c, n, ts : TakesHere(c, n, ts) => TakesArray(t, n, ts) /\ p + n <= Len(wire)
  BY <1>2 DEF TakesHere, Takes
<1>5. CASE IsScalar(Types[t].elem)
  <2> DEFINE cells == Copied(DTop.addr, 1, s)
             ways == IF p + s > Len(wire) THEN {} ELSE Gets(s, s, cells, <<>>)
  <2>1. Decodes(ways) BY <1>2, <1>5 DEF DecodeArray
  <2>2. \A c, n, ts : TakesHere(c, n, ts) => n = s /\ ts = <<>> /\ p + s <= Len(wire)
    BY <1>4, <1>5 DEF TakesArray
  <2>3. Fits(s, <<>>) BY <2>2, NoTypes DEF Fits
  <2> HIDE DEF cells
  <2>4. \A way \in ways : GoodWay(way) BY <1>3, <2>3, GetsGood, NoItems
  <2>5. ways = {} => NothingToTake
    <3>1. p + s <= Len(wire) => ways # {}
      <4> SUFFICES ASSUME p + s <= Len(wire) PROVE ways # {} OBVIOUS
      <4>1. ~(p + s > Len(wire)) BY <1>2, <1>3
      <4> QED BY <4>1, GetsIs
    <3> HIDE DEF ways, s
    <3> QED BY <2>2, <3>1 DEF NothingToTake
  <2>6. Sound(ways) BY <2>4, <2>5 DEF Sound
  <2> QED BY <1>2, <2>1, <2>6, SoundStep
<1>6. CASE ~IsScalar(Types[t].elem)
  <2> DEFINE values == Elements(t, DTop.addr, s)
             ways == Gets(0, 0, <<>>, values)
  <2>1. Decodes(ways) BY <1>2, <1>6 DEF DecodeArray
  <2>2. \A c, n, ts : TakesHere(c, n, ts) => n = 0 /\ ts = [i \in 1..s |-> Types[t].elem]
    BY <1>4, <1>6 DEF TakesArray
  <2>3. values \in Seq(DItem) /\ TypesOf(values) = [i \in 1..s |-> Types[t].elem]
    BY <1>2, <1>3, ElementsTypes
  <2>4. Fits(0, values) BY <2>2, <2>3 DEF Fits
  <2> HIDE DEF values
  <2>5. \A way \in ways : GoodWay(way) BY <2>3, <2>4, GetsGood
  <2>6. p + 0 <= Len(wire) BY <1>2 DEF DecoderInv
  <2>7. ways # {} BY <2>6, GetsIs
  <2>8. Sound(ways) BY <2>5, <2>7 DEF Sound
  <2> QED BY <1>2, <2>1, <2>8, SoundStep
<1> QED BY <1>5, <1>6

LEMMA DecodeStructStep ==
  ASSUME DecoderInv(decoder, wire), NEW m, WireInv(wire, m), DecodeStruct
  PROVE  DecodeStep
<1> DEFINE t == DTop.type
           values == Fields(t, DTop.addr)
           ways == Gets(0, 0, <<>>, values)
<1>1. Decoding({"struct"}) BY DEF DecodeStruct
<1>2. /\ t \in DOMAIN Types /\ Types[t].kind = "struct" /\ decoder.stack # <<>>
      /\ phase = "decode" /\ DType = Types[t] /\ DTop.addr \in DAddress /\ decoder.pos \in Nat
      /\ Len(wire) \in Nat
  BY <1>1, DecodingTop, DNextIs
<1>3. Decodes(ways) BY DEF DecodeStruct
<1>4. \A c, n, ts : TakesHere(c, n, ts) => n = 0 /\ ts = Types[t].fields
  BY <1>2 DEF TakesHere, Takes
<1>5. values \in Seq(DItem) /\ TypesOf(values) = Types[t].fields BY <1>2, FieldsTypes
<1>6. Fits(0, values) BY <1>4, <1>5 DEF Fits
<1> HIDE DEF values
<1>7. \A way \in ways : GoodWay(way) BY <1>5, <1>6, GetsGood
<1>8. decoder.pos + 0 <= Len(wire) BY <1>2 DEF DecoderInv
<1>9. ways # {} BY <1>8, GetsIs
<1>10. Sound(ways) BY <1>7, <1>9 DEF Sound
<1> QED BY <1>2, <1>3, <1>10, SoundStep

DIndexWaysOf(idx) ==
  Gets(2, 0, Cell(DTop.addr, IF idx \in DOMAIN Indexed THEN Indexed[idx] ELSE Junk), <<>>)

DPtrWaysOf(e) ==
  CASE e = PtrNil    -> Gets(1, 0, Cell(DTop.addr, Nil), <<>>)
    [] e = PtrIndex  -> UNION {DIndexWaysOf(idx) : idx \in {x \in DNext(2) : x < decoder.next + 1}}
    [] e = PtrInline -> Gets(1, 0, Cell(DTop.addr, Block), <<Value(DType.elem, Block, FALSE)>>)
    [] OTHER         -> {}

LEMMA DecodePtrStep ==
  ASSUME DecoderInv(decoder, wire), NEW m, WireInv(wire, m), DecodePtr
  PROVE  DecodeStep
<1> DEFINE t == DTop.type
           p == decoder.pos
           x == wire[p + 1]
           y == wire[p + 2]
           inline == <<Value(Types[t].elem, Block, FALSE)>>
           ways == UNION {DPtrWaysOf(e) : e \in DNext(1)}
<1>1. Decoding({"ptr"}) BY DEF DecodePtr
<1>2. /\ t \in DOMAIN Types /\ Types[t].kind = "ptr" /\ decoder.stack # <<>>
      /\ phase = "decode" /\ DType = Types[t] /\ Block \in DAddress /\ p \in Nat /\ Len(wire) \in Nat
      /\ decoder.next \in Nat
  BY <1>1, DecodingTop, DNextIs
<1>3. Decodes(ways) BY DEF DecodePtr, DPtrWaysOf, DIndexWaysOf
<1>4. /\ \A z : z \in DNext(1) <=> p + 1 <= Len(wire) /\ z = x
      /\ \A z : z \in DNext(2) <=> p + 2 <= Len(wire) /\ z = y
      /\ p + 1 <= Len(wire) => x \in Nat
      /\ p + 2 <= Len(wire) => y \in Nat
  BY DNextIs
<1>5. \A c, n, ts : TakesHere(c, n, ts) => TakesPtr(wire, p, c, t, n, ts) /\ p + n <= Len(wire)
  BY <1>2 DEF TakesHere, Takes
<1>6. Types[t].elem \in DOMAIN Types BY <1>2, TypeFacts
<1>7. inline \in Seq(DItem) /\ TypesOf(inline) = <<Types[t].elem>> BY <1>2, <1>6, OneType
<1> HIDE DEF inline
<1>8. ASSUME NEW c \in 0..decoder.next, NEW n, NEW ts, TakesHere(c, n, ts)
      PROVE  /\ p + 1 <= Len(wire)
             /\ \/ x = PtrNil /\ n = 1 /\ ts = <<>>
                \/ x = PtrIndex /\ n = 2 /\ ts = <<>> /\ p + 2 <= Len(wire) /\ y < decoder.next + 1
                \/ x = PtrInline /\ n = 1 /\ ts = <<Types[t].elem>>
  <2>1. TakesPtr(wire, p, c, t, n, ts) /\ p + n <= Len(wire) BY <1>5, <1>8
  <2>2. CASE x = PtrIndex
    <3>1. n = 2 /\ y < c + 1 /\ ts = <<>> /\ p + 1 <= Len(wire)
      BY <2>1, <2>2 DEF TakesPtr, PtrNil, PtrIndex, PtrInline
    <3>2. p + 2 <= Len(wire) BY <2>1, <3>1
    <3>3. y \in Nat BY <3>2, <1>4
    <3>4. y < decoder.next + 1 BY <3>1, <3>3, <1>2
    <3> QED BY <2>2, <3>1, <3>2, <3>4
  <2>3. CASE x # PtrIndex BY <2>1, <2>3 DEF TakesPtr
  <2> QED BY <2>2, <2>3
<1>9. /\ x = PtrNil => Fits(1, <<>>)
      /\ x = PtrIndex => Fits(2, <<>>)
      /\ x = PtrInline => Fits(1, inline)
  BY <1>7, <1>8, NoTypes DEF Fits, PtrNil, PtrIndex, PtrInline
<1>10. \A way \in ways : GoodWay(way)
  <2> SUFFICES ASSUME NEW e \in DNext(1), NEW way \in DPtrWaysOf(e) PROVE GoodWay(way)
    OBVIOUS
  <2>1. e = x BY <1>4
  <2>2. CASE x = PtrNil
    <3>1. way \in Gets(1, 0, Cell(DTop.addr, Nil), <<>>) BY <2>1, <2>2 DEF DPtrWaysOf, PtrNil, PtrIndex, PtrInline
    <3> QED BY <1>9, <2>2, <3>1, GetsGood, NoItems
  <2>3. CASE x = PtrIndex
    <3>1. way \in UNION {DIndexWaysOf(idx) : idx \in {z \in DNext(2) : z < decoder.next + 1}}
      BY <2>1, <2>3 DEF DPtrWaysOf, PtrNil, PtrIndex, PtrInline
    <3>2. PICK idx : way \in DIndexWaysOf(idx) BY <3>1
    <3> QED BY <1>9, <2>3, <3>2, GetsGood, NoItems DEF DIndexWaysOf
  <2>4. CASE x = PtrInline
    <3>1. way \in Gets(1, 0, Cell(DTop.addr, Block), inline)
      BY <1>2, <2>1, <2>4 DEF DPtrWaysOf, PtrNil, PtrIndex, PtrInline, inline
    <3> QED BY <1>7, <1>9, <2>4, <3>1, GetsGood
  <2>5. CASE x \notin {PtrNil, PtrIndex, PtrInline} BY <2>1, <2>5 DEF DPtrWaysOf
  <2> QED BY <2>2, <2>3, <2>4, <2>5
<1>11. ways = {} => NothingToTake
  <2> SUFFICES ASSUME NEW c \in 0..decoder.next, NEW n, NEW ts, TakesHere(c, n, ts) PROVE ways # {}
    BY DEF NothingToTake
  <2>1. x \in DNext(1) BY <1>4, <1>8
  <2>2. DPtrWaysOf(x) # {}
    <3>1. CASE x = PtrNil
      <4>1. DPtrWaysOf(x) = Gets(1, 0, Cell(DTop.addr, Nil), <<>>) BY <3>1 DEF DPtrWaysOf, PtrNil, PtrIndex, PtrInline
      <4> QED BY <1>8, <4>1, GetsIs
    <3>2. CASE x = PtrIndex
      <4>1. y \in DNext(2) /\ y < decoder.next + 1 /\ p + 2 <= Len(wire)
        BY <1>4, <1>8, <3>2 DEF PtrNil, PtrIndex, PtrInline
      <4>2. DIndexWaysOf(y) # {} BY <4>1, GetsIs DEF DIndexWaysOf
      <4>3. DPtrWaysOf(x) = UNION {DIndexWaysOf(idx) : idx \in {z \in DNext(2) : z < decoder.next + 1}}
        BY <3>2 DEF DPtrWaysOf, PtrNil, PtrIndex, PtrInline
      <4> QED BY <4>1, <4>2, <4>3
    <3>3. CASE x = PtrInline
      <4>1. DPtrWaysOf(x) = Gets(1, 0, Cell(DTop.addr, Block), inline)
        BY <1>2, <3>3 DEF DPtrWaysOf, PtrNil, PtrIndex, PtrInline, inline
      <4>2. p + 1 <= Len(wire) BY <1>8
      <4>3. DWay(1, 0, Cell(DTop.addr, Block), inline) \in Gets(1, 0, Cell(DTop.addr, Block), inline)
        BY <4>2, GetsIs
      <4> QED BY <4>1, <4>3
    <3> QED BY <1>8, <3>1, <3>2, <3>3
  <2> QED BY <2>1, <2>2
<1>12. Sound(ways) BY <1>10, <1>11 DEF Sound
<1> QED BY <1>2, <1>3, <1>12, SoundStep

\* The types that the decoder may find for a hash of which len units arrived.
Found(len) ==
  {t \in DOMAIN Hashes : \A i \in 1..HashSize : i <= len => DNext(1 + i) = {Hashes[t][i]}}

DAnyWaysOf(len, t) ==
  Gets(1 + len, 1 + len, Cell(DTop.addr, [type |-> t, data |-> Block]), <<Value(t, Block, FALSE)>>)

DAnyWays == UNION {UNION {DAnyWaysOf(len, t) : t \in Found(len)} : len \in DNext(1)}

LEMMA DecodeAnyStep ==
  ASSUME DecoderInv(decoder, wire), NEW m, WireInv(wire, m), DecodeAny
  PROVE  DecodeStep
<1> DEFINE t == DTop.type
           p == decoder.pos
           x == wire[p + 1]
           one(s) == <<Value(s, Block, FALSE)>>
<1>1. Decoding({"any"}) BY DEF DecodeAny
<1>2. /\ t \in DOMAIN Types /\ Types[t].kind = "any" /\ decoder.stack # <<>>
      /\ phase = "decode" /\ Block \in DAddress /\ p \in Nat /\ Len(wire) \in Nat
  BY <1>1, DecodingTop, DNextIs
<1>3. Decodes(DAnyWays) \/ ((\E len \in DNext(1) : len < HashSize) /\ DecodeFails)
  BY DEF DecodeAny, DAnyWays, DAnyWaysOf, Found
<1>4. /\ \A z : z \in DNext(1) <=> p + 1 <= Len(wire) /\ z = x
      /\ p + 1 <= Len(wire) => x \in Nat
  BY DNextIs
<1>5. \A c, n, ts : TakesHere(c, n, ts) => TakesAny(wire, p, n, ts) /\ p + n <= Len(wire)
  BY <1>2 DEF TakesHere, Takes
<1>6. HashSize \in Nat /\ \A s \in DOMAIN Hashes : s \in DOMAIN Types BY HashFacts
<1>7. ASSUME p + 1 + HashSize <= Len(wire), x = HashSize, NEW s \in DOMAIN Hashes
      PROVE  s \in Found(x) <=> HashAt(wire, p, s)
  <2>1. \A i \in 1..HashSize : DNext(1 + i) = {Hashes[s][i]} <=> wire[p + 1 + i] = Hashes[s][i]
    <3> TAKE i \in 1..HashSize
    <3>1. i \in Nat /\ i <= HashSize BY <1>6
    <3>2. 1 + i \in Nat \ {0} /\ p + (1 + i) = p + 1 + i BY <1>2, <3>1
    <3>3. p + (1 + i) <= Len(wire) BY <1>2, <1>6, <1>7, <3>1
    <3> QED BY <3>2, <3>3, DNextIs
  <2>2. \A i \in 1..HashSize : i <= x BY <1>6, <1>7
  <2> HIDE DEF x
  <2> QED BY <2>1, <2>2 DEF Found, HashAt
<1>8. ASSUME NEW c, NEW n, NEW ts, TakesHere(c, n, ts)
      PROVE  /\ p + 1 <= Len(wire) /\ p + 1 + HashSize <= Len(wire) /\ x = HashSize /\ n = 1 + HashSize
             /\ \E s \in DOMAIN Hashes : HashAt(wire, p, s) /\ ts = <<s>> /\ s \in Found(x)
  <2>1. /\ n = 1 + HashSize /\ x = HashSize /\ p + n <= Len(wire)
        /\ \E s \in DOMAIN Hashes : HashAt(wire, p, s) /\ ts = <<s>>
    BY <1>5, <1>8 DEF TakesAny
  <2>2. p + 1 <= Len(wire) /\ p + 1 + HashSize <= Len(wire) BY <1>2, <1>6, <2>1
  <2> QED BY <1>7, <2>1, <2>2
<1>9. \A s \in DOMAIN Hashes : one(s) \in Seq(DItem) /\ TypesOf(one(s)) = <<s>>
  BY <1>2, <1>6, OneType
<1> HIDE DEF one
<1>10. ASSUME NEW s \in Found(x) PROVE Fits(1 + x, one(s))
  <2>1. s \in DOMAIN Hashes BY DEF Found
  <2>2. ASSUME NEW c \in 0..decoder.next, NEW n, NEW ts, TakesHere(c, n, ts)
        PROVE  n = 1 + x /\ ts = TypesOf(one(s))
    <3>1. p + 1 + HashSize <= Len(wire) /\ x = HashSize /\ n = 1 + HashSize BY <1>8, <2>2
    <3>2. PICK r \in DOMAIN Hashes : HashAt(wire, p, r) /\ ts = <<r>> BY <1>8, <2>2
    <3>3. HashAt(wire, p, s) BY <1>7, <2>1, <3>1
    <3>4. r = s BY <2>1, <3>2, <3>3, OneHash
    <3> QED BY <1>9, <2>1, <3>1, <3>2, <3>4
  <2> QED BY <2>2 DEF Fits
<1>11. \A way \in DAnyWays : GoodWay(way)
  <2> TAKE way \in DAnyWays
  <2>1. PICK len \in DNext(1) : \E s \in Found(len) : way \in DAnyWaysOf(len, s) BY DEF DAnyWays
  <2>2. PICK s \in Found(len) : way \in DAnyWaysOf(len, s) BY <2>1
  <2>3. len = x /\ len \in Nat BY <1>4
  <2>4. s \in DOMAIN Hashes BY DEF Found
  <2>5. Fits(1 + len, one(s)) /\ one(s) \in Seq(DItem) BY <1>9, <1>10, <2>3, <2>4
  <2>6. way \in Gets(1 + len, 1 + len, Cell(DTop.addr, [type |-> s, data |-> Block]), one(s))
    BY <2>2 DEF DAnyWaysOf, one
  <2>7. 1 + len \in Nat BY <2>3
  <2> QED BY <2>5, <2>6, <2>7, GetsGood
<1>12. DAnyWays = {} => NothingToTake
  <2> SUFFICES ASSUME NEW c \in 0..decoder.next, NEW n, NEW ts, TakesHere(c, n, ts) PROVE DAnyWays # {}
    BY DEF NothingToTake
  <2>1. x \in DNext(1) BY <1>4, <1>8
  <2>2. PICK s : s \in Found(x) BY <1>8
  <2>3. p + (1 + x) <= Len(wire)
    <3>1. p + 1 + HashSize <= Len(wire) /\ x = HashSize BY <1>8
    <3> QED BY <3>1, <1>2, <1>6
  <2>4. DAnyWaysOf(x, s) # {} BY <2>3, GetsIs DEF DAnyWaysOf
  <2> QED BY <2>1, <2>2, <2>4 DEF DAnyWays
<1>13. CASE Decodes(DAnyWays)
  <2>1. Sound(DAnyWays) BY <1>11, <1>12 DEF Sound
  <2> QED BY <1>2, <1>13, <2>1, SoundStep
<1>14. CASE (\E len \in DNext(1) : len < HashSize) /\ DecodeFails
  <2>1. x < HashSize BY <1>4, <1>14
  <2>2. NothingToTake
    <3> SUFFICES ASSUME NEW c \in 0..decoder.next, NEW n, NEW ts, TakesHere(c, n, ts) PROVE FALSE
      BY DEF NothingToTake
    <3>1. x = HashSize BY <1>8
    <3> QED BY <2>1, <3>1, <1>6
  <2> QED BY <1>2, <1>14, <2>2 DEF DecodeStep
<1> QED BY <1>3, <1>13, <1>14

DUnionWaysOf(id) ==
  Gets(1, 1, Cell(DTop.addr, [type |-> DType.fields[id + 1], data |-> Block]),
       <<Value(DType.fields[id + 1], Block, FALSE)>>)

LEMMA DecodeUnionStep ==
  ASSUME DecoderInv(decoder, wire), NEW m, WireInv(wire, m), DecodeUnion
  PROVE  DecodeStep
<1> DEFINE t == DTop.type
           p == decoder.pos
           x == wire[p + 1]
           f == Types[t].fields
           values == <<Value(f[x + 1], Block, FALSE)>>
           ways == UNION {DUnionWaysOf(id) : id \in {z \in DNext(1) : z < Len(DType.fields)}}
<1>1. Decoding({"union"}) BY DEF DecodeUnion
<1>2. /\ t \in DOMAIN Types /\ Types[t].kind = "union" /\ decoder.stack # <<>>
      /\ phase = "decode" /\ DType = Types[t] /\ Block \in DAddress /\ p \in Nat /\ Len(wire) \in Nat
  BY <1>1, DecodingTop, DNextIs
<1>3. Decodes(ways) BY DEF DecodeUnion, DUnionWaysOf
<1>4. /\ \A z : z \in DNext(1) <=> p + 1 <= Len(wire) /\ z = x
      /\ p + 1 <= Len(wire) => x \in Nat
  BY DNextIs
<1>5. f \in Seq(DOMAIN Types) /\ Len(f) \in Nat BY <1>2, TypeFacts
<1>6. \A c, n, ts : TakesHere(c, n, ts) =>
        p + 1 <= Len(wire) /\ x < Len(f) /\ n = 1 /\ ts = <<f[x + 1]>>
  BY <1>2 DEF TakesHere, Takes, TakesOne
<1>7. p + 1 <= Len(wire) /\ x < Len(f) => values \in Seq(DItem) /\ TypesOf(values) = <<f[x + 1]>>
  <2> SUFFICES ASSUME p + 1 <= Len(wire), x < Len(f)
               PROVE  values \in Seq(DItem) /\ TypesOf(values) = <<f[x + 1]>>
    OBVIOUS
  <2>1. x \in Nat BY <1>4
  <2>2. f[x + 1] \in DOMAIN Types BY <1>5, <2>1
  <2> QED BY <1>2, <2>2, OneType
<1>8. \A way : way \in ways <=> x < Len(f) /\ x \in DNext(1) /\ way \in DUnionWaysOf(x)
  <2>1. \A way : way \in ways <=>
          \E id \in DNext(1) : id < Len(DType.fields) /\ way \in DUnionWaysOf(id)
    OBVIOUS
  <2> HIDE DEF ways
  <2> QED BY <1>2, <1>4, <2>1
<1> HIDE DEF ways
<1>9. DUnionWaysOf(x) = Gets(1, 1, Cell(DTop.addr, [type |-> f[x + 1], data |-> Block]), values)
  BY <1>2 DEF DUnionWaysOf
<1> HIDE DEF values
<1>10. \A way \in ways : GoodWay(way)
  <2> TAKE way \in ways
  <2>1. x < Len(f) /\ p + 1 <= Len(wire) /\ way \in DUnionWaysOf(x) BY <1>4, <1>8
  <2>2. Fits(1, values) /\ values \in Seq(DItem) BY <1>6, <1>7, <2>1 DEF Fits
  <2> QED BY <1>9, <2>1, <2>2, GetsGood
<1>11. ways = {} => NothingToTake
  <2> SUFFICES ASSUME NEW c \in 0..decoder.next, NEW n, NEW ts, TakesHere(c, n, ts) PROVE ways # {}
    BY DEF NothingToTake
  <2>1. x \in DNext(1) /\ x < Len(f) /\ p + 1 <= Len(wire) BY <1>4, <1>6
  <2>2. DUnionWaysOf(x) # {} BY <1>9, <2>1, GetsIs
  <2> QED BY <1>8, <2>1, <2>2
<1>12. Sound(ways) BY <1>10, <1>11 DEF Sound
<1> QED BY <1>2, <1>3, <1>12, SoundStep

LEMMA DecodeNotImplementedStep ==
  ASSUME DecoderInv(decoder, wire), DecodeNotImplemented
  PROVE  DecodeStep
<1>1. Decoding({"dict", "iface"}) /\ DecodeFails BY DEF DecodeNotImplemented
<1>2. Types[DTop.type].kind \in {"dict", "iface"} /\ decoder.stack # <<>> /\ phase = "decode"
  BY <1>1, DecodingTop
<1>3. Types[DTop.type].kind = "dict" => NothingToTake BY DEF NothingToTake, TakesHere, Takes
<1> QED BY <1>1, <1>2, <1>3 DEF DecodeStep

LEMMA DecodeForm ==
  ASSUME DecoderInv(decoder, wire), NEW m, WireInv(wire, m), Decode
  PROVE  DecodeStart \/ DecodeArguments \/ DecodeEnd \/ DecodeStep
BY DecodeScalarStep, DecodeTupleStep, DecodeArrayStep, DecodeStructStep, DecodePtrStep, DecodeAnyStep,
   DecodeUnionStep, DecodeNotImplementedStep DEF Decode

LEMMA IndexedType ==
  ASSUME DecoderInv(decoder, wire), decoder.stack # <<>>
  PROVE  Indexed \in Partial(Nat, DAddress \cup {Junk})
<1> DEFINE B == DAddress \cup {Junk}
<1>1. decoder.stack \in Seq(DItem) /\ decoder.next \in Nat /\ decoder.table \in Partial(Nat, B)
  BY DEF DecoderInv, DecoderType
<1>2. DTop \in DItem BY <1>1, PushFacts DEF DTop
<1>3. DTop.addr \in B /\ Junk \in B /\ decoder.next + 1 \in Nat BY <1>1, <1>2 DEF DItem
<1> HIDE DEF B
<1>4. Over(Cell(decoder.next + 1, Junk), decoder.table) \in Partial(Nat, B)
  BY <1>1, <1>3, PartialFacts
<1>5. \A f \in Partial(Nat, B) : Over(Cell(decoder.next, DTop.addr), f) \in Partial(Nat, B)
  BY <1>1, <1>3, PartialFacts
<1>6. Indexed \in Partial(Nat, B) BY <1>1, <1>4, <1>5 DEF Indexed
<1> QED BY <1>6 DEF B

LEMMA StoresTypes ==
  ASSUME DecoderInv(decoder, wire), decoder.stack # <<>>,
         NEW n \in Nat, NEW skip \in Nat, NEW cells, NEW values \in Seq(DItem),
         decoder.pos + n <= Len(wire), Stores(n, skip, cells, values)
  PROVE  /\ DecoderInv(decoder', wire)
         /\ decoder'.stack = values \o Tail(decoder.stack) /\ decoder'.pos = decoder.pos + n
         /\ decoder'.next = decoder.next + 1 + skip
         /\ decoder'.turn = decoder.turn /\ decoder'.result = decoder.result
<1> DEFINE s == values \o Tail(decoder.stack)
           x == Indexed
           d == [decoder EXCEPT !.stack = s, !.pos = decoder.pos + n, !.next = decoder.next + 1 + skip,
                                !.table = x, !.blocks = decoder.blocks + 1]
<1>1. decoder \in DecoderType BY DEF DecoderInv
<1>2. decoder' = d BY DEF Stores
<1>3. s \in Seq(DItem)
  <2>1. decoder.stack \in Seq(DItem) BY <1>1 DEF DecoderType
  <2> QED BY <2>1, PushFacts
<1>4. x \in Partial(Nat, DAddress \cup {Junk}) BY IndexedType
<1>5. decoder.pos + n \in Nat /\ decoder.next + 1 + skip \in Nat /\ decoder.blocks + 1 \in Nat
  BY <1>1 DEF DecoderType
<1> HIDE DEF s, x
<1>6. /\ d \in DecoderType /\ d.stack = s /\ d.pos = decoder.pos + n /\ d.next = decoder.next + 1 + skip
      /\ d.turn = decoder.turn /\ d.result = decoder.result
  BY <1>1, <1>3, <1>4, <1>5 DEF DecoderType
<1> HIDE DEF d
<1>7. DecoderInv(d, wire) BY <1>6 DEF DecoderInv
<1> QED BY <1>2, <1>6, <1>7 DEF s

\* What a failing value does to the decoder.
LEMMA FailsTypes ==
  ASSUME DecoderInv(decoder, wire), DecodeFails
  PROVE  /\ DecoderInv(decoder', wire)
         /\ decoder'.pos = decoder.pos /\ decoder'.turn = decoder.turn
         /\ IsCall /\ decoder.turn = 1 =>
              decoder'.stack = <<>> /\ phase' = phase /\ decoder'.result = decoder.result
         /\ ~(IsCall /\ decoder.turn = 1) => decoder'.stack = decoder.stack /\ phase' = "done"
<1>1. decoder \in DecoderType BY DEF DecoderInv
<1> DEFINE none == <<>>
           d == [decoder EXCEPT !.stack = none]
           e == [decoder EXCEPT !.result = "fail"]
<1>2. none \in Seq(DItem) BY NoItems
<1> HIDE DEF none
<1>3. d \in DecoderType /\ d.stack = none /\ d.pos = decoder.pos /\ d.turn = decoder.turn
      /\ d.result = decoder.result
  BY <1>1, <1>2 DEF DecoderType
<1>4. e \in DecoderType /\ e.stack = decoder.stack /\ e.pos = decoder.pos /\ e.turn = decoder.turn
  BY <1>1 DEF DecoderType
<1>5. CASE IsCall /\ decoder.turn = 1
  <2>1. decoder' = d /\ phase' = phase BY <1>5 DEF DecodeFails, none
  <2> HIDE DEF d
  <2> QED BY <1>3, <1>5, <2>1 DEF DecoderInv, none
<1>6. CASE ~(IsCall /\ decoder.turn = 1)
  <2>1. decoder' = e /\ phase' = "done" BY <1>6 DEF DecodeFails
  <2> HIDE DEF e
  <2> QED BY <1>4, <1>6, <2>1 DEF DecoderInv
<1> QED BY <1>5, <1>6

NewVerifier == [stack |-> <<>>, pos |-> 0, count |-> 0, result |-> "none"]
NewDecoder ==
  [stack |-> <<>>, pos |-> 0, next |-> 0, table |-> <<>>, blocks |-> 0, turn |-> 0, result |-> "none"]

\* The host has yet to decode which method is called, could not, or has done so.
CallAhead == decoder.stack = <<Value(CallId, <<0, 0>>, FALSE)>> /\ decoded = <<>> /\ decoder.pos = 0
CallLost == decoder.stack = <<>> /\ decoded = <<>>
CallKnown ==
  /\ decoder.stack = <<>> /\ decoded # <<>> /\ decoder.pos = 1
  /\ 1 <= Len(wire) /\ memory[<<0, 0>>] = wire[1]

CallInv ==
  /\ decoder.turn = 0 => decoder = NewDecoder /\ decoded = <<>>
  /\ IsCall /\ decoder.turn = 1 => CallAhead \/ CallLost \/ CallKnown

LEMMA NewTypes ==
  ASSUME NEW u \in Seq(Nat)
  PROVE  DecoderInv(NewDecoder, u) /\ VerifierInv(NewVerifier, u)
<1> DEFINE none == <<>>
           B == DAddress \cup {Junk}
<1>1. none \in Seq(DItem) /\ none \in Seq(DOMAIN Types) /\ none \in Partial(Nat, B)
  BY NoItems, PartialFacts
<1>2. 0 <= Len(u) OBVIOUS
<1>3. /\ NewDecoder = [stack |-> none, pos |-> 0, next |-> 0, table |-> none, blocks |-> 0, turn |-> 0,
                       result |-> "none"]
      /\ NewVerifier = [stack |-> none, pos |-> 0, count |-> 0, result |-> "none"]
  BY DEF NewDecoder, NewVerifier
<1> HIDE DEF none
<1>4. DecoderType = [stack : Seq(DItem), pos : Nat, next : Nat, table : Partial(Nat, B),
                     blocks : Nat, turn : 0..2, result : {"none", "ok", "fail"}]
  BY DEF DecoderType
<1> HIDE DEF B
<1>5. NewDecoder \in DecoderType /\ NewDecoder.pos = 0 BY <1>1, <1>3, <1>4
<1>6. VerifierInv(NewVerifier, u) BY <1>1, <1>2, <1>3 DEF VerifierInv, Result
<1> QED BY <1>2, <1>5, <1>6 DEF DecoderInv

\* Decoding which method is called: what is left of it is known, or nothing
\* had arrived.
LEMMA CallStep ==
  ASSUME DecoderInv(decoder, wire), NEW m, WireInv(wire, m), IsCall, decoder.turn = 1, CallAhead, Decode
  PROVE  /\ CallKnown' \/ (CallLost' /\ ~(1 <= Len(wire)))
         /\ DecoderInv(decoder', wire) /\ decoder'.turn = 1 /\ phase' = phase /\ phase = "decode"
         /\ decoder'.result = decoder.result
         /\ UNCHANGED <<wire, verifier, world, foreign, encoder, encoded>>
<1> DEFINE v == Value(CallId, <<0, 0>>, FALSE)
           of(y) == Gets(1, 0, Cell(DTop.addr, y), <<>>)
           ways == UNION {of(y) : y \in DNext(1)}
<1>1. decoder.stack = <<v>> /\ decoder.stack # <<>> /\ DTop = v /\ decoded = <<>> /\ decoder.pos = 0
  BY DEF CallAhead, DTop
<1>2. v.type = CallId /\ v.addr = <<0, 0>> /\ Types[CallId].kind = "scalar" BY HashFacts DEF Value
<1>3. \A kinds : Decoding(kinds) => "scalar" \in kinds BY <1>1, <1>2 DEF Decoding, DTop
<1>4. DecodeScalar
  <2>1. ~DecodeStart /\ ~DecodeArguments /\ ~DecodeEnd
    BY <1>1 DEF DecodeStart, DecodeArguments, DecodeEnd
  <2>2. ~DecodeTuple /\ ~DecodeArray /\ ~DecodeStruct /\ ~DecodePtr /\ ~DecodeAny /\ ~DecodeUnion
        /\ ~DecodeNotImplemented
    BY <1>3 DEF DecodeTuple, DecodeArray, DecodeStruct, DecodePtr, DecodeAny, DecodeUnion,
                DecodeNotImplemented
  <2> QED BY <2>1, <2>2 DEF Decode
<1>5. Decodes(ways) /\ phase = "decode" BY <1>4 DEF DecodeScalar, Decoding
<1>6. (\A y : y \in DNext(1) <=> 1 <= Len(wire) /\ y = wire[1]) /\ Len(wire) \in Nat
  <2>1. \A y : y \in DNext(1) <=> decoder.pos + 1 <= Len(wire) /\ y = wire[decoder.pos + 1]
    BY DNextIs
  <2> QED BY <1>1, <2>1, DNextIs
<1>7. CASE ways = {} /\ DecodeFails
  <2>1. ~(1 <= Len(wire))
    <3> SUFFICES ASSUME 1 <= Len(wire) PROVE ways # {} BY <1>7
    <3>1. wire[1] \in DNext(1) /\ decoder.pos + 1 <= Len(wire) BY <1>1, <1>6
    <3>2. of(wire[1]) # {} BY <3>1, GetsIs
    <3> QED BY <3>1, <3>2
  <2>2. decoder'.stack = <<>> /\ DecoderInv(decoder', wire) /\ decoder'.turn = 1 /\ phase' = phase
        /\ decoder'.result = decoder.result
    BY <1>7, FailsTypes
  <2>3. UNCHANGED <<wire, verifier, world, foreign, encoder, encoded, decoded>>
    BY <1>7 DEF DecodeFails
  <2>4. CallLost' BY <1>1, <2>2, <2>3 DEF CallLost
  <2> QED BY <1>5, <2>1, <2>2, <2>3, <2>4
<1>8. CASE ~(ways = {} /\ DecodeFails)
  <2> DEFINE cells == Cell(<<0, 0>>, wire[1])
             none == <<>>
  <2>1. PICK way \in ways :
          /\ decoder' = [decoder EXCEPT !.stack = way.values \o Tail(@), !.pos = @ + way.units,
                                        !.next = @ + 1 + way.skip, !.table = Indexed,
                                        !.blocks = @ + 1]
          /\ memory' = Over(way.cells, memory)
    BY <1>5, <1>8 DEF Decodes
  <2>2. /\ decoded' = Append(decoded, [type |-> DTop.type, addr |-> DTop.addr,
                                       count |-> decoder.next])
        /\ UNCHANGED <<world, phase, wire, foreign, encoder, verifier, encoded>>
    BY <1>5, <1>8 DEF Decodes
  <2>3. PICK y \in DNext(1) : way \in of(y) BY <2>1
  <2>4. y = wire[1] /\ 1 <= Len(wire) BY <1>6
  <2>5. way = DWay(1, 0, cells, <<>>)
    <3>1. DTop.addr = <<0, 0>> BY <1>1, <1>2
    <3>2. way \in Gets(1, 0, cells, <<>>) BY <2>3, <2>4, <3>1
    <3> HIDE DEF cells
    <3> QED BY <3>2, GetsIs
  <2>6. way.units = 1 /\ way.skip = 0 /\ way.cells = cells /\ way.values = <<>>
    BY <2>5 DEF DWay
  <2>7. Stores(1, 0, cells, none) BY <2>1, <2>2, <2>6 DEF Stores
  <2>8. none \in Seq(DItem) BY NoItems
  <2>9. decoder.pos + 1 <= Len(wire) BY <1>1, <2>4
  <2>10. memory'[<<0, 0>>] = wire[1]
    <3> DEFINE at == <<0, 0>>
               x == wire[1]
    <3>1. memory' = Over(Cell(at, x), memory) BY <2>1, <2>6
    <3> HIDE DEF at, x
    <3>2. memory'[at] = x BY <3>1 DEF Over, Cell
    <3> QED BY <3>2 DEF at, x
  <2> HIDE DEF none, cells
  <2>11. /\ DecoderInv(decoder', wire)
         /\ decoder'.stack = none \o Tail(decoder.stack) /\ decoder'.pos = decoder.pos + 1
         /\ decoder'.turn = decoder.turn /\ decoder'.result = decoder.result
    BY <1>1, <2>7, <2>8, <2>9, StoresTypes
  <2>12. decoder'.stack = <<>>
    <3> HIDE DEF v
    <3>1. Tail(decoder.stack) = <<>> BY <1>1
    <3> QED BY <2>11, <3>1 DEF none
  <2>13. decoded' # <<>> BY <1>1, <2>2
  <2>14. decoder'.pos = 1 BY <1>1, <2>11
  <2>15. CallKnown' BY <2>2, <2>4, <2>10, <2>12, <2>13, <2>14 DEF CallKnown
  <2> QED BY <1>5, <2>2, <2>11, <2>15
<1> QED BY <1>7, <1>8

-----------------------------------------------------------------------------
(* Every variable has its type.                                            *)

TypesInv ==
  /\ world \in Worlds /\ foreign \in BOOLEAN
  /\ phase \in {"encode", "deliver", "verify", "decode", "done"}
  /\ WireInv(wire, Room + 1)
  /\ EncoderInv(world, encoder) /\ VerifierInv(verifier, wire) /\ DecoderInv(decoder, wire)
  /\ phase \in {"encode", "deliver"} => WireInv(wire, Room) /\ verifier = NewVerifier
  /\ phase \in {"encode", "deliver", "verify"} => decoder = NewDecoder /\ decoded = <<>>
  /\ CallInv

LEMMA InitTypes == Init => TypesInv
<1> SUFFICES ASSUME Init PROVE TypesInv OBVIOUS
<1> DEFINE none == <<>>
<1>1. WireInv(none, Room) /\ WireInv(none, Room + 1) BY HashFacts DEF WireInv
<1>2. none \in Seq(Nat) OBVIOUS
<1>3. DecoderInv(NewDecoder, none) /\ VerifierInv(NewVerifier, none) BY <1>2, NewTypes
<1>4. EncoderInv(world, encoder)
  <2>1. none \in Seq(Item(world)) /\ none \in Partial(Address(world), Nat) /\ Nil \in Address(world)
    BY NoValues, PartialFacts DEF Address
  <2>2. encoder = [stack |-> none, index |-> 0, top |-> Nil, known |-> none, turn |-> 1, ok |-> TRUE]
    BY DEF Init
  <2>3. DOMAIN none = {} OBVIOUS
  <2> HIDE DEF none
  <2>4. encoder \in EncoderType(world) BY <2>1, <2>2 DEF EncoderType
  <2>5. encoder.known = none BY <2>2
  <2> QED BY <2>3, <2>4, <2>5 DEF EncoderInv
<1>5. wire = none /\ decoder = NewDecoder /\ verifier = NewVerifier /\ decoded = <<>>
  BY DEF Init, NewDecoder, NewVerifier
<1>6. NewDecoder.turn = 0 BY DEF NewDecoder
<1>7. world \in Worlds /\ foreign \in BOOLEAN /\ phase = "encode" BY DEF Init
<1> HIDE DEF none
<1> QED BY <1>1, <1>3, <1>4, <1>5, <1>6, <1>7 DEF TypesInv, CallInv

\* A longer buffer.
LEMMA WireMore ==
  ASSUME NEW u, WireInv(u, Room)
  PROVE  WireInv(u, Room + 1) /\ u \in Seq(Nat)
BY HashFacts DEF WireInv

LEMMA EncodeStepTypes ==
  ASSUME TypesInv, Encode
  PROVE  TypesInv'
<1>1. world \in Worlds /\ EncoderInv(world, encoder) BY DEF TypesInv
<1>2. phase = "encode"
  BY DEF Encode, EncodeStart, EncodeScalar, EncodeTuple, EncodeArray, EncodeStruct, EncodePtr, EncodeAny,
         EncodeAnyEnd, EncodeUnion, EncodeFail, EncodeEnd, Encoding
<1>3. WireInv(wire, Room) /\ verifier = NewVerifier /\ decoder = NewDecoder /\ decoded = <<>>
  BY <1>2 DEF TypesInv
<1>4. EncoderInv(world, encoder') /\ WireInv(wire', Room) BY <1>1, <1>3, EncodeTypes
<1>5. UNCHANGED <<world, foreign, verifier, decoder, decoded>> /\ phase' \in {"encode", "deliver"}
  BY <1>2 DEF Encode, EncodeStart, EncodeScalar, EncodeTuple, EncodeArray, EncodeStruct, EncodePtr,
              EncodeAny, EncodeAnyEnd, EncodeUnion, EncodeFail, EncodeEnd, Encodes
<1>6. WireInv(wire', Room + 1) /\ wire' \in Seq(Nat) BY <1>4, WireMore
<1>7. DecoderInv(NewDecoder, wire') /\ VerifierInv(NewVerifier, wire') BY <1>6, NewTypes
<1>8. NewDecoder.turn = 0 BY DEF NewDecoder
<1>9. world' \in Worlds /\ foreign' \in BOOLEAN BY <1>5 DEF TypesInv
<1>10. EncoderInv(world', encoder') BY <1>4, <1>5
<1>11. CallInv' BY <1>3, <1>5, <1>8 DEF CallInv
<1>12. verifier' = NewVerifier /\ decoder' = NewDecoder /\ decoded' = <<>> BY <1>3, <1>5
<1> QED BY <1>4, <1>5, <1>6, <1>7, <1>9, <1>10, <1>11, <1>12 DEF TypesInv

\* What arrives is a wire with at most one unit more.
LEMMA DeliverWire ==
  ASSUME WireInv(wire, Room), Deliver
  PROVE  WireInv(wire', Room + 1)
<1>1. wire \in Seq(Nat) /\ Len(wire) \in Nat /\ Len(wire) <= Room /\ Room \in Nat
  BY HashFacts DEF WireInv
<1>2. CASE UNCHANGED wire BY <1>1, <1>2 DEF WireInv
<1>3. CASE \E i, j \in DOMAIN wire, u, v \in Units : wire' = [wire EXCEPT ![i] = u, ![j] = v]
  <2>1. PICK i, j \in DOMAIN wire, u, v \in Units : wire' = [wire EXCEPT ![i] = u, ![j] = v] BY <1>3
  <2>2. u \in Nat /\ v \in Nat BY HashFacts
  <2>3. wire' \in Seq(Nat) /\ Len(wire') = Len(wire) BY <1>1, <2>1, <2>2
  <2> QED BY <1>1, <2>3 DEF WireInv
<1>4. CASE \E n \in 0..Len(wire) - 1 : wire' = SubSeq(wire, 1, n)
  <2>1. PICK n \in 0..Len(wire) - 1 : wire' = SubSeq(wire, 1, n) BY <1>4
  <2>2. wire' \in Seq(Nat) /\ Len(wire') = n BY <1>1, <2>1
  <2>3. n <= Room + 1 BY <1>1
  <2> QED BY <2>2, <2>3 DEF WireInv
<1>5. CASE \E u \in Units : wire' = Append(wire, u)
  <2>1. PICK u \in Units : wire' = Append(wire, u) BY <1>5
  <2>2. u \in Nat BY HashFacts
  <2>3. wire' \in Seq(Nat) /\ Len(wire') = Len(wire) + 1 BY <1>1, <2>1, <2>2
  <2> QED BY <1>1, <2>3 DEF WireInv
<1> QED BY <1>2, <1>3, <1>4, <1>5 DEF Deliver

LEMMA DeliverTypes ==
  ASSUME TypesInv, Deliver
  PROVE  TypesInv' /\ verifier'.stack = <<world.type>> /\ verifier'.pos = 0 /\ verifier'.count = 0
         /\ verifier'.result = "none"
<1>1. phase = "deliver" /\ phase' = "verify" /\ foreign' \in BOOLEAN
      /\ UNCHANGED <<world, encoder, decoder, memory, encoded, decoded>>
  BY DEF Deliver
<1>2. WireInv(wire, Room) /\ verifier = NewVerifier /\ decoder = NewDecoder /\ decoded = <<>>
  BY <1>1 DEF TypesInv
<1>3. WireInv(wire', Room + 1) BY <1>2, DeliverWire
<1>4. wire' \in Seq(Nat) BY <1>3 DEF WireInv
<1>5. DecoderInv(NewDecoder, wire') /\ VerifierInv(NewVerifier, wire') BY <1>4, NewTypes
<1> DEFINE s == <<world.type>>
           v == [verifier EXCEPT !.stack = s]
<1>6. s \in Seq(DOMAIN Types)
  <2>1. world.type \in DOMAIN Types BY WorldFacts DEF TypesInv
  <2> QED BY <2>1
<1>7. verifier' = v BY DEF Deliver
<1>8. verifier \in [stack : Seq(DOMAIN Types), pos : Nat, count : Nat, result : Result] BY DEF TypesInv, VerifierInv
<1>9. verifier.pos = 0 /\ verifier.count = 0 /\ verifier.result = "none" BY <1>2 DEF NewVerifier
<1> HIDE DEF s
<1>10. /\ v \in [stack : Seq(DOMAIN Types), pos : Nat, count : Nat, result : Result]
       /\ v.pos = 0 /\ v.count = 0 /\ v.stack = s /\ v.result = "none"
  BY <1>6, <1>8, <1>9
<1> HIDE DEF v
<1>11. VerifierInv(v, wire') BY <1>4, <1>10 DEF VerifierInv
<1>12. NewDecoder.turn = 0 BY DEF NewDecoder
<1>13. CallInv' BY <1>1, <1>2, <1>12 DEF CallInv
<1>14. EncoderInv(world', encoder') /\ world' \in Worlds BY <1>1 DEF TypesInv
<1>15. TypesInv' BY <1>1, <1>2, <1>3, <1>5, <1>7, <1>11, <1>13, <1>14 DEF TypesInv
<1> QED BY <1>7, <1>10, <1>15 DEF s

LEMMA VerifyStepTypes ==
  ASSUME TypesInv, Verify
  PROVE  TypesInv'
<1>0. VerifierInv(verifier, wire) /\ WireInv(wire, Room + 1) BY DEF TypesInv
<1>1. VerifyStep \/ VerifyEnd BY <1>0, VerifyForm
<1>2. /\ VerifierInv(verifier', wire) /\ phase = "verify" /\ phase' \in {"verify", "decode"}
      /\ UNCHANGED <<world, wire, foreign, encoder, decoder, memory, encoded, decoded>>
  <2>1. ASSUME NEW r \in Result, Verified(r), phase = "verify"
        PROVE  /\ VerifierInv(verifier', wire) /\ phase = "verify" /\ phase' \in {"verify", "decode"}
               /\ UNCHANGED <<world, wire, foreign, encoder, decoder, memory, encoded, decoded>>
    BY <1>0, <2>1, VerifiedTypes DEF Verified
  <2>2. CASE VerifyStep
    <3>1. CASE \E n, ts : TakesNow(n, ts) /\ Advances(n, ts)
      <4>1. PICK n, ts : TakesNow(n, ts) /\ Advances(n, ts) BY <3>1
      <4>2. VerifierInv(verifier', wire) BY <1>0, <2>2, <4>1, AdvancesTypes DEF VerifyStep
      <4>3. UNCHANGED <<world, phase, wire, foreign, encoder, decoder, memory, encoded, decoded>>
        BY <4>1 DEF Advances
      <4> QED BY <2>2, <4>2, <4>3 DEF VerifyStep
    <3>2. CASE Verified("fail") BY <2>1, <2>2, <3>2 DEF Result, VerifyStep
    <3>3. CASE Verified("lost") BY <2>1, <2>2, <3>3 DEF Result, VerifyStep
    <3> QED BY <2>2, <3>1, <3>2, <3>3 DEF VerifyStep
  <2>3. CASE VerifyEnd
    <3>1. phase = "verify" /\ (Verified("ok") \/ Verified("fail")) BY <2>3 DEF VerifyEnd
    <3> QED BY <2>1, <3>1 DEF Result
  <2> QED BY <1>1, <2>2, <2>3
<1>3. CallInv' BY <1>2 DEF CallInv, CallAhead, CallLost, CallKnown, IsCall, TypesInv
<1>4. world' \in Worlds /\ EncoderInv(world', encoder') /\ DecoderInv(decoder', wire') BY <1>2 DEF TypesInv
<1>5. decoder' = NewDecoder /\ decoded' = <<>> BY <1>2 DEF TypesInv
<1> QED BY <1>2, <1>3, <1>4, <1>5 DEF TypesInv

\* A value to decode, on an empty stack.
Starting(d, s, b, k) == [d EXCEPT !.stack = s, !.next = 0, !.blocks = b, !.turn = k]

Starts(e, d, s, k) ==
  /\ e \in DecoderType /\ e.stack = s /\ e.next = 0 /\ e.turn = k
  /\ e.pos = d.pos /\ e.result = d.result

LEMMA StartsTypes ==
  ASSUME NEW d \in DecoderType, NEW s \in Seq(DItem), NEW b \in Nat, NEW k \in {1, 2}
  PROVE  Starts(Starting(d, s, b, k), d, s, k)
<1> DEFINE S == Seq(DItem)
           T == Partial(Nat, DAddress \cup {Junk})
           K == 0..2
           e == Starting(d, s, b, k)
<1>1. s \in S /\ k \in K /\ d \in [stack : S, pos : Nat, next : Nat, table : T, blocks : Nat, turn : K,
                                  result : {"none", "ok", "fail"}]
  BY DEF DecoderType
<1> HIDE DEF S, T, K
<1>2. /\ e \in [stack : S, pos : Nat, next : Nat, table : T, blocks : Nat, turn : K,
                result : {"none", "ok", "fail"}]
      /\ e.stack = s /\ e.next = 0 /\ e.turn = k /\ e.pos = d.pos /\ e.result = d.result
  BY <1>1 DEF Starting
<1> HIDE DEF e
<1>3. e \in DecoderType BY <1>2 DEF S, T, K, DecoderType
<1>4. Starts(e, d, s, k) BY <1>2, <1>3 DEF Starts
<1> QED BY <1>4 DEF e

LEMMA DecodeStartTypes ==
  ASSUME TypesInv, DecodeStart
  PROVE  /\ DecoderInv(decoder', wire) /\ decoder'.turn = 1 /\ decoder'.pos = 0 /\ decoder'.next = 0
         /\ decoder'.stack = <<Value(IF IsCall THEN CallId ELSE world.type, <<0, 0>>, FALSE)>>
         /\ decoded = <<>> /\ decoder'.result = decoder.result
<1> DEFINE t == IF IsCall THEN CallId ELSE world.type
           s == <<Value(t, <<0, 0>>, FALSE)>>
           d == Starting(decoder, s, 1, 1)
<1>1. decoder \in DecoderType /\ decoder.pos <= Len(wire) BY DEF TypesInv, DecoderInv
<1>2. decoder = NewDecoder /\ decoded = <<>> BY DEF TypesInv, CallInv, DecodeStart
<1>3. t \in DOMAIN Types /\ <<0, 0>> \in DAddress BY HashFacts, WorldFacts DEF TypesInv, DAddress
<1> HIDE DEF t
<1>4. s \in Seq(DItem) BY <1>3, OneType
<1>5. decoder' = d BY DEF DecodeStart, Starting, t
<1>6. decoder.pos = 0 BY <1>2 DEF NewDecoder
<1> HIDE DEF s
<1>7. d \in DecoderType /\ d.pos = 0 /\ d.next = 0 /\ d.turn = 1 /\ d.stack = s
      /\ d.result = decoder.result

  <2>1. Starts(d, decoder, s, 1) BY <1>1, <1>4, StartsTypes
  <2> HIDE DEF d
  <2> QED BY <1>6, <2>1 DEF Starts
<1>8. 0 <= Len(wire) BY <1>1, <1>6
<1> HIDE DEF d
<1> QED BY <1>2, <1>5, <1>7, <1>8 DEF DecoderInv, s, t

\* The host decodes the arguments of the method, if there is one.
Called(call) ==
  /\ call < Len(Types[world.type].methods) /\ phase' = "decode"
  /\ decoder'.turn = 2 /\ decoder'.pos = decoder.pos /\ decoder'.next = 0
  /\ Types[world.type].methods[call + 1] \in DOMAIN Types
  /\ decoder'.stack = <<Value(Types[world.type].methods[call + 1], Block, FALSE)>>
  /\ decoder'.result = decoder.result

NotCalled(call) ==
  /\ ~(call < Len(Types[world.type].methods)) /\ phase' = "done"
  /\ decoder'.turn = 1 /\ decoder'.pos = decoder.pos /\ decoder'.stack = decoder.stack

LEMMA ArgumentsTypes ==
  ASSUME TypesInv, DecodeArguments
  PROVE  /\ DecoderInv(decoder', wire)
         /\ \E call \in Nat : (CallKnown => call = wire[1]) /\ (Called(call) \/ NotCalled(call))
<1> DEFINE methods == Types[world.type].methods
<1>1. decoder \in DecoderType /\ decoder.pos <= Len(wire) /\ wire \in Seq(Nat)
  BY DEF TypesInv, DecoderInv, WireInv
<1>2. decoder.turn = 1 /\ decoder.stack = <<>> /\ IsCall BY DEF DecodeArguments
<1>3. methods \in Seq(DOMAIN Types)
  <2>1. world.type \in DOMAIN Types BY WorldFacts DEF TypesInv
  <2> QED BY <1>2, <2>1, TypeFacts DEF IsCall
<1>4. CallLost \/ CallKnown
  <2>1. ~CallAhead BY <1>2 DEF CallAhead
  <2> QED BY <1>2, <2>1 DEF TypesInv, CallInv
<1>5. PICK call \in IF decoded # <<>> THEN {memory[<<0, 0>>]} ELSE 0..Len(methods) :
        IF call < Len(methods)
          THEN /\ decoder' = [decoder EXCEPT !.stack = <<Value(methods[call + 1], Block, FALSE)>>,
                                             !.next = 0, !.blocks = @ + 1, !.turn = 2]
               /\ UNCHANGED phase
          ELSE /\ decoder' = [decoder EXCEPT !.result = "fail"]
               /\ phase' = "done"
  BY DEF DecodeArguments
<1>6. CallKnown => call = wire[1] /\ 1 <= Len(wire) BY <1>5 DEF CallKnown
<1>7. call \in Nat
  <2>1. CASE CallLost
    <3>1. call \in 0..Len(methods) BY <1>5, <2>1 DEF CallLost
    <3> HIDE DEF methods
    <3> QED BY <1>3, <3>1
  <2>2. CASE CallKnown BY <1>1, <1>6, <2>2
  <2> QED BY <1>4, <2>1, <2>2
<1>8. CASE call < Len(methods)
  <2> DEFINE s == <<Value(methods[call + 1], Block, FALSE)>>
             d == Starting(decoder, s, decoder.blocks + 1, 2)
  <2>1. methods[call + 1] \in DOMAIN Types
    <3> HIDE DEF methods
    <3> QED BY <1>3, <1>7, <1>8
  <2>2. Block \in DAddress BY <1>1 DEF Block, DAddress, DecoderType
  <2>3. s \in Seq(DItem) BY <2>1, <2>2, OneType
  <2>4. decoder' = d /\ phase' = phase /\ phase = "decode" BY <1>5, <1>8 DEF DecodeArguments, Starting
  <2>5. decoder.blocks + 1 \in Nat BY <1>1 DEF DecoderType
  <2> HIDE DEF s
  <2>6. d \in DecoderType /\ d.pos = decoder.pos /\ d.next = 0 /\ d.turn = 2 /\ d.stack = s
        /\ d.result = decoder.result
    <3>1. Starts(d, decoder, s, 2) BY <1>1, <2>3, <2>5, StartsTypes
    <3> HIDE DEF d
    <3> QED BY <3>1 DEF Starts
  <2> HIDE DEF d
  <2>7. DecoderInv(decoder', wire) BY <1>1, <2>4, <2>6 DEF DecoderInv
  <2>8. Called(call) BY <1>8, <2>1, <2>4, <2>6 DEF Called, s
  <2> QED BY <1>6, <1>7, <2>7, <2>8
<1>9. CASE ~(call < Len(methods))
  <2> DEFINE d == [decoder EXCEPT !.result = "fail"]
  <2>1. decoder' = d /\ phase' = "done" BY <1>5, <1>9
  <2>2. d \in DecoderType /\ d.pos = decoder.pos /\ d.turn = decoder.turn /\ d.stack = decoder.stack
    BY <1>1 DEF DecoderType
  <2> HIDE DEF d
  <2>3. DecoderInv(decoder', wire) BY <1>1, <2>1, <2>2 DEF DecoderInv
  <2>4. NotCalled(call) BY <1>2, <1>9, <2>1, <2>2 DEF NotCalled
  <2> QED BY <1>6, <1>7, <2>3, <2>4
<1> QED BY <1>8, <1>9

LEMMA EndTypes ==
  ASSUME TypesInv, DecodeEnd
  PROVE  /\ DecoderInv(decoder', wire) /\ decoder'.turn = decoder.turn /\ decoder'.pos = decoder.pos
         /\ decoder'.stack = decoder.stack /\ decoder'.result = "ok" /\ phase' = "done"
<1> DEFINE d == [decoder EXCEPT !.result = "ok"]
<1>1. decoder \in DecoderType /\ decoder.pos <= Len(wire) BY DEF TypesInv, DecoderInv
<1>2. d \in DecoderType /\ d.pos = decoder.pos /\ d.turn = decoder.turn /\ d.stack = decoder.stack
      /\ d.result = "ok"
  BY <1>1 DEF DecoderType
<1>3. decoder' = d /\ phase' = "done" BY DEF DecodeEnd
<1> HIDE DEF d
<1> QED BY <1>1, <1>2, <1>3 DEF DecoderInv

\* What no step of the decoder changes.
LEMMA DecodeFrame ==
  ASSUME TypesInv, Decode
  PROVE  phase = "decode" /\ UNCHANGED <<world, wire, foreign, encoder, verifier, encoded>>
<1>0. DecoderInv(decoder, wire) /\ WireInv(wire, Room + 1) BY DEF TypesInv
<1>1. DecodeStart \/ DecodeArguments \/ DecodeEnd \/ DecodeStep BY <1>0, DecodeForm
<1>2. CASE DecodeStep BY <1>2 DEF DecodeStep, StoresSome, Stores, DecodeFails
<1> QED BY <1>1, <1>2 DEF DecodeStart, DecodeArguments, DecodeEnd

LEMMA DecodeStepTypes ==
  ASSUME TypesInv, Decode
  PROVE  TypesInv'
<1>0. DecoderInv(decoder, wire) /\ WireInv(wire, Room + 1) /\ CallInv BY DEF TypesInv
<1>1. phase = "decode" /\ UNCHANGED <<world, wire, foreign, encoder, verifier, encoded>> BY DecodeFrame
<1>2. SUFFICES DecoderInv(decoder', wire) /\ phase' \in {"decode", "done"} /\ CallInv'
  <2>1. /\ world' \in Worlds /\ foreign' \in BOOLEAN /\ WireInv(wire', Room + 1)
        /\ EncoderInv(world', encoder') /\ VerifierInv(verifier', wire')
    BY <1>1 DEF TypesInv
  <2> QED BY <1>1, <1>2, <2>1 DEF TypesInv
<1>3. DecodeStart \/ DecodeArguments \/ DecodeEnd \/ DecodeStep BY <1>0, DecodeForm
<1>4. IsCall' = IsCall BY <1>1 DEF IsCall
<1>5. CASE DecodeStart
  <2>1. UNCHANGED <<phase, decoded>> BY <1>5 DEF DecodeStart
  <2>2. DecoderInv(decoder', wire) /\ decoder'.turn = 1 /\ decoder'.pos = 0 /\ decoded = <<>>
        /\ decoder'.stack = <<Value(IF IsCall THEN CallId ELSE world.type, <<0, 0>>, FALSE)>>
    BY <1>5, DecodeStartTypes
  <2>3. IsCall => CallAhead' BY <2>1, <2>2 DEF CallAhead
  <2> QED BY <1>1, <1>4, <2>1, <2>2, <2>3 DEF CallInv
<1>6. CASE DecodeArguments
  <2>1. UNCHANGED <<memory, decoded>> BY <1>6 DEF DecodeArguments
  <2>2. DecoderInv(decoder', wire) BY <1>6, ArgumentsTypes
  <2>3. PICK call \in Nat : Called(call) \/ NotCalled(call) BY <1>6, ArgumentsTypes
  <2>4. CASE Called(call)
    <3>1. decoder'.turn = 2 /\ phase' = "decode" BY <2>4 DEF Called
    <3>2. CallInv' BY <3>1 DEF CallInv
    <3> QED BY <2>2, <3>1, <3>2
  <2>5. CASE NotCalled(call)
    <3>1. decoder'.turn = 1 /\ phase' = "done" /\ decoder'.pos = decoder.pos /\ decoder'.stack = decoder.stack
      BY <2>5 DEF NotCalled
    <3>2. CallLost \/ CallKnown BY <1>0, <1>6 DEF CallInv, CallAhead, DecodeArguments
    <3>3. CallLost' \/ CallKnown' BY <1>1, <2>1, <3>1, <3>2 DEF CallLost, CallKnown
    <3>4. CallInv' BY <3>1, <3>3 DEF CallInv
    <3> QED BY <2>2, <3>1, <3>4
  <2> QED BY <2>3, <2>4, <2>5
<1>7. CASE DecodeEnd
  <2>1. /\ DecoderInv(decoder', wire) /\ decoder'.turn = decoder.turn /\ phase' = "done"
        /\ decoder.turn = IF IsCall THEN 2 ELSE 1
    BY <1>7, EndTypes DEF DecodeEnd
  <2>2. CallInv' BY <1>4, <2>1 DEF CallInv
  <2> QED BY <2>1, <2>2
<1>8. CASE DecodeStep
  <2>1. decoder.turn # 0 /\ decoder.stack # <<>>
    <3>1. decoder.stack # <<>> BY <1>8 DEF DecodeStep
    <3> QED BY <1>0, <3>1 DEF CallInv, NewDecoder
  <2>2. CASE IsCall /\ decoder.turn = 1
    <3>1. CallAhead BY <1>0, <2>1, <2>2 DEF CallInv, CallLost, CallKnown
    <3>2. /\ CallKnown' \/ CallLost'
          /\ DecoderInv(decoder', wire) /\ decoder'.turn = 1 /\ phase' = phase
      BY <1>0, <2>2, <3>1, CallStep
    <3>3. CallInv' BY <3>2 DEF CallInv
    <3> QED BY <1>1, <3>2, <3>3
  <2>3. CASE ~(IsCall /\ decoder.turn = 1)
    <3>1. DecoderInv(decoder', wire) /\ phase' \in {"decode", "done"} /\ decoder'.turn = decoder.turn
      <4>1. CASE DecodeFails BY <1>0, <2>3, <4>1, FailsTypes
      <4>2. CASE StoresSome
        <5>1. PICK n, skip, cells, values :
                /\ n \in Nat /\ skip \in Nat /\ values \in Seq(DItem) /\ decoder.pos + n <= Len(wire)
                /\ Stores(n, skip, cells, values)
          BY <4>2 DEF StoresSome
        <5>2. phase' = phase BY <5>1 DEF Stores
        <5>3. DecoderInv(decoder', wire) /\ decoder'.turn = decoder.turn BY <1>0, <2>1, <5>1, StoresTypes
        <5> QED BY <1>1, <5>2, <5>3
      <4> QED BY <1>8, <4>1, <4>2 DEF DecodeStep
    <3>2. CallInv' BY <1>4, <2>1, <2>3, <3>1 DEF CallInv
    <3> QED BY <3>1, <3>2
  <2> QED BY <2>2, <2>3
<1> QED BY <1>3, <1>5, <1>6, <1>7, <1>8

LEMMA StutterTypes ==
  ASSUME TypesInv, UNCHANGED vars
  PROVE  TypesInv'
<1>1. UNCHANGED <<world, phase, wire, foreign, encoder, verifier, decoder, memory, encoded, decoded>>
  BY DEF vars
<1>2. CallInv' BY <1>1 DEF TypesInv, CallInv, CallAhead, CallLost, CallKnown, IsCall
<1> QED BY <1>1, <1>2 DEF TypesInv

LEMMA TypesStep == TypesInv /\ [Next]_vars => TypesInv'
BY EncodeStepTypes, DeliverTypes, VerifyStepTypes, DecodeStepTypes, StutterTypes DEF Next

LEMMA TypesAlways == Spec => []TypesInv
<1>1. Init => TypesInv BY InitTypes
<1>2. TypesInv /\ [Next]_vars => TypesInv' BY TypesStep
<1> QED BY <1>1, <1>2, PTL DEF Spec

LEMMA TypesEnough == TypesInv => TypeOK
<1> SUFFICES ASSUME TypesInv PROVE TypeOK OBVIOUS
<1>1. /\ encoder.index \in Nat /\ encoder.turn \in Nat /\ encoder.ok \in BOOLEAN
      /\ \A a \in DOMAIN encoder.known : encoder.known[a] < encoder.index
  BY DEF TypesInv, EncoderInv, EncoderType
<1>2. verifier.pos \in 0..Len(wire) /\ verifier.count \in Nat /\ verifier.result \in {"none", "ok", "fail", "lost"}
  BY DEF TypesInv, VerifierInv, Result, WireInv
<1>3. /\ decoder.pos \in 0..Len(wire) /\ decoder.next \in Nat /\ decoder.blocks \in Nat
      /\ decoder.result \in {"none", "ok", "fail"}
  BY DEF TypesInv, DecoderInv, DecoderType, WireInv
<1> QED BY <1>1, <1>2, <1>3 DEF TypesInv, WireInv, TypeOK

\* Whatever the types, the values and the wire are: the counters of encoder.c,
\* verify.c and decoder.c stay in their ranges, verifier and decoder never
\* read behind the end of the wire, no buffer of the encoder is overrun, and
\* what _maybeRememberPointer remembers was counted before.
THEOREM TypeCorrect == Spec => []TypeOK
<1>1. TypesInv => TypeOK BY TypesEnough
<1> QED BY <1>1, TypesAlways, PTL

-----------------------------------------------------------------------------
(* The way of the verifier through a wire: a set of configurations, each   *)
(* but the last followed by what it takes.                                 *)

Config == [stack : Seq(DOMAIN Types), pos : Nat, count : Nat]

ConfigOf(v) == [stack |-> v.stack, pos |-> v.pos, count |-> v.count]

Start == [stack |-> <<world.type>>, pos |-> 0, count |-> 0]

After(c, n, ts) ==
  [stack |-> ts \o Tail(c.stack), pos |-> c.pos + n,
   count |-> IF Types[Head(c.stack)].kind = "iface" THEN c.count ELSE c.count + 1]

Follows(V, u, c) ==
  c.stack # <<>> /\ \E n, ts : Takes(u, c.pos, c.count, Head(c.stack), n, ts) /\ After(c, n, ts) \in V

Trail(V, u, last) ==
  /\ V \subseteq Config /\ Start \in V /\ last \in V
  /\ \A c \in V : c # last => Follows(V, u, c)

LEMMA StartConfig ==
  ASSUME world \in Worlds
  PROVE  Start \in Config /\ Start.stack = <<world.type>> /\ Start.pos = 0 /\ Start.count = 0
         /\ Start.stack # <<>> /\ Head(Start.stack) = world.type
<1> DEFINE s == <<world.type>>
<1>1. world.type \in DOMAIN Types BY WorldFacts
<1>2. s \in Seq(DOMAIN Types) /\ s # <<>> /\ Head(s) = world.type BY <1>1
<1>3. Start = [stack |-> s, pos |-> 0, count |-> 0] BY DEF Start
<1> HIDE DEF s
<1>4. Start \in Config /\ Start.stack = s /\ Start.pos = 0 /\ Start.count = 0 BY <1>2, <1>3 DEF Config
<1> QED BY <1>2, <1>4 DEF s

LEMMA AfterConfig ==
  ASSUME NEW c \in Config, c.stack # <<>>, NEW n \in Nat, NEW ts \in Seq(DOMAIN Types)
  PROVE  /\ After(c, n, ts) \in Config /\ After(c, n, ts).stack = ts \o Tail(c.stack)
         /\ After(c, n, ts).pos = c.pos + n
         /\ After(c, n, ts).count = IF Types[Head(c.stack)].kind = "iface" THEN c.count ELSE c.count + 1
<1> DEFINE s == ts \o Tail(c.stack)
           k == IF Types[Head(c.stack)].kind = "iface" THEN c.count ELSE c.count + 1
<1>1. c.stack \in Seq(DOMAIN Types) /\ c.pos \in Nat /\ c.count \in Nat BY DEF Config
<1>2. s \in Seq(DOMAIN Types) BY <1>1, PushFacts
<1>3. k \in Nat /\ c.pos + n \in Nat BY <1>1
<1>4. After(c, n, ts) = [stack |-> s, pos |-> c.pos + n, count |-> k] BY DEF After
<1> HIDE DEF s, k
<1>5. After(c, n, ts) \in Config /\ After(c, n, ts).stack = s /\ After(c, n, ts).pos = c.pos + n
      /\ After(c, n, ts).count = k
  BY <1>2, <1>3, <1>4 DEF Config
<1> QED BY <1>5 DEF s, k

\* A trail grows by what its last configuration takes.
LEMMA TrailGrows ==
  ASSUME NEW V, NEW u, NEW last, Trail(V, u, last), last.stack # <<>>, NEW n, NEW ts,
         Takes(u, last.pos, last.count, Head(last.stack), n, ts)
  PROVE  Trail(V \cup {After(last, n, ts)}, u, After(last, n, ts))
<1> DEFINE a == After(last, n, ts)
           W == V \cup {a}
<1>1. V \subseteq Config /\ Start \in V /\ last \in V BY DEF Trail
<1>2. n \in Nat /\ ts \in Seq(DOMAIN Types) BY DEF Takes
<1>3. a \in Config BY <1>1, <1>2, AfterConfig
<1>4. \A c \in W : c # a => Follows(W, u, c)
  <2> TAKE c \in W
  <2> HAVE c # a
  <2>1. CASE c = last BY <2>1 DEF Follows
  <2>2. CASE c # last
    <3>1. Follows(V, u, c) BY <2>2 DEF Trail
    <3> HIDE DEF a
    <3> QED BY <3>1 DEF Follows
  <2> QED BY <2>1, <2>2
<1> HIDE DEF a
<1>5. Trail(W, u, a) BY <1>1, <1>3, <1>4 DEF Trail
<1> QED BY <1>5 DEF a

LEMMA ConfigOfFacts ==
  ASSUME NEW v, NEW u, VerifierInv(v, u)
  PROVE  /\ ConfigOf(v) \in Config /\ ConfigOf(v).stack = v.stack /\ ConfigOf(v).pos = v.pos
         /\ ConfigOf(v).count = v.count
BY DEF VerifierInv, ConfigOf, Config

VerifiedInv ==
  /\ phase \in {"verify", "decode", "done"} /\ verifier.result \in {"none", "ok"} =>
       \E V : Trail(V, wire, ConfigOf(verifier))
  /\ phase \in {"encode", "deliver", "verify"} => verifier.result = "none"
  /\ verifier.result = "ok" => verifier.stack = <<>> /\ verifier.pos = Len(wire)

LEMMA DeliverVerified ==
  ASSUME TypesInv, Deliver
  PROVE  VerifiedInv'
<1>1. /\ verifier'.stack = <<world.type>> /\ verifier'.pos = 0 /\ verifier'.count = 0
      /\ verifier'.result = "none" /\ TypesInv'
  BY DeliverTypes
<1>2. ConfigOf(verifier') = Start BY <1>1 DEF ConfigOf, Start
<1>3. world' = world BY DEF Deliver
<1>4. Start' = Start BY <1>3 DEF Start
<1>5. Start \in Config BY <1>1, <1>3, StartConfig DEF TypesInv
<1>6. \E V : Trail(V, wire, ConfigOf(verifier))'
  <2>1. \E V : /\ V \subseteq Config /\ Start' \in V /\ ConfigOf(verifier') \in V
               /\ \A c \in V : c # ConfigOf(verifier') => Follows(V, wire', c)
    <3> DEFINE V == {Start}
    <3>1. /\ V \subseteq Config /\ Start' \in V /\ ConfigOf(verifier') \in V
          /\ \A c \in V : c # ConfigOf(verifier') => Follows(V, wire', c)
      BY <1>2, <1>4, <1>5
    <3> HIDE DEF V
    <3> QED BY <3>1
  <2> QED BY <2>1 DEF Trail, ConfigOf
<1> QED BY <1>1, <1>6 DEF VerifiedInv

LEMMA VerifyVerified ==
  ASSUME TypesInv, VerifiedInv, Verify
  PROVE  VerifiedInv'
<1>0. VerifierInv(verifier, wire) /\ WireInv(wire, Room + 1) BY DEF TypesInv
<1>1. VerifyStep \/ VerifyEnd BY <1>0, VerifyForm
<1>2. phase = "verify" /\ verifier.result = "none" BY <1>1 DEF VerifyStep, VerifyEnd, VerifiedInv
<1>3. PICK V : Trail(V, wire, ConfigOf(verifier)) BY <1>2 DEF VerifiedInv
<1>4. CASE \E n, ts : verifier.stack # <<>> /\ TakesNow(n, ts) /\ Advances(n, ts)
  <2>1. PICK n, ts : verifier.stack # <<>> /\ TakesNow(n, ts) /\ Advances(n, ts) BY <1>4
  <2>2. /\ VerifierInv(verifier', wire) /\ verifier'.result = verifier.result
        /\ verifier'.stack = ts \o Tail(verifier.stack) /\ verifier'.pos = verifier.pos + n
        /\ verifier'.count = IF Types[Head(verifier.stack)].kind = "iface" THEN verifier.count
                             ELSE verifier.count + 1
    BY <1>0, <2>1, AdvancesTypes
  <2>3. UNCHANGED <<world, phase, wire>> BY <2>1 DEF Advances
  <2> DEFINE c == ConfigOf(verifier)
  <2>4. c \in Config /\ c.stack = verifier.stack /\ c.pos = verifier.pos /\ c.count = verifier.count
    BY <1>0, ConfigOfFacts
  <2>5. ConfigOf(verifier') = After(c, n, ts) BY <2>2, <2>4 DEF ConfigOf, After
  <2>6. Takes(wire, c.pos, c.count, Head(c.stack), n, ts) BY <2>1, <2>4 DEF TakesNow
  <2> HIDE DEF c
  <2>7. Trail(V \cup {After(c, n, ts)}, wire, After(c, n, ts)) BY <1>3, <2>1, <2>4, <2>6, TrailGrows DEF c
  <2>8. \E W : Trail(W, wire, ConfigOf(verifier')) BY <2>5, <2>7
  <2>9. \E W : Trail(W, wire, ConfigOf(verifier))' BY <2>3, <2>8 DEF Trail, Start, ConfigOf
  <2> QED BY <1>2, <2>2, <2>3, <2>9 DEF VerifiedInv
<1>5. CASE \E r \in {"fail", "lost"} : Verified(r)
  <2>1. verifier'.result \in {"fail", "lost"} /\ phase' = "decode"
    BY <1>0, <1>5, VerifiedTypes DEF Verified, Result
  <2> QED BY <2>1 DEF VerifiedInv
<1>6. CASE VerifyEnd /\ verifier.pos = Len(wire) /\ Verified("ok")
  <2>1. verifier'.stack = verifier.stack /\ verifier'.pos = verifier.pos /\ verifier'.result = "ok"
        /\ UNCHANGED <<world, wire>> /\ phase' = "decode" /\ verifier' = [verifier EXCEPT !.result = "ok"]
    BY <1>0, <1>6, VerifiedTypes DEF Verified, Result
  <2>2. ConfigOf(verifier') = ConfigOf(verifier)
    BY <1>0, <2>1 DEF ConfigOf, VerifierInv
  <2>3. \E W : Trail(W, wire, ConfigOf(verifier))' BY <1>3, <2>1, <2>2 DEF Trail, Start, ConfigOf
  <2>4. verifier.stack = <<>> BY <1>6 DEF VerifyEnd
  <2> QED BY <1>6, <2>1, <2>3, <2>4 DEF VerifiedInv
<1>7. VerifyEnd => Verified("fail") \/ (verifier.pos = Len(wire) /\ Verified("ok"))
  BY DEF VerifyEnd
<1> QED BY <1>1, <1>4, <1>5, <1>6, <1>7 DEF VerifyStep

-----------------------------------------------------------------------------
(* The decoder follows the way of the verifier.                            *)

Plain(ts) == \A i \in DOMAIN ts : Types[ts[i]].kind # "iface"

\* What is taken contains no interface.
LEMMA TakesPlain ==
  ASSUME InterfacesOnTop, NEW u \in Seq(Nat), NEW p \in Nat, NEW c, NEW t \in DOMAIN Types, NEW n, NEW ts,
         Takes(u, p, c, t, n, ts)
  PROVE  Plain(ts)
<1> DEFINE none == <<>>
<1>0. Plain(none) BY DEF Plain
<1>1. Types[t].kind \in Kinds /\ Types[t].kind # "dict" BY TypeFacts DEF Takes
<1>2. CASE Types[t].kind = "scalar" BY <1>0, <1>2 DEF Takes
<1>3. ASSUME Types[t].kind \in {"string", "tuple", "array", "ptr"}
      PROVE  /\ \A k : Plain([i \in 1..k |-> Types[t].elem])
             /\ Plain(<<Types[t].elem>>)
  <2>1. Types[Types[t].elem].kind # "iface" BY <1>3 DEF InterfacesOnTop
  <2> QED BY <2>1 DEF Plain
<1>4. CASE Types[t].kind \in {"string", "tuple"}
  BY <1>0, <1>3, <1>4 DEF Takes, TakesTuple
<1>5. CASE Types[t].kind = "array"
  BY <1>0, <1>3, <1>5 DEF Takes, TakesArray
<1>6. CASE Types[t].kind = "ptr"
  BY <1>0, <1>3, <1>6 DEF Takes, TakesPtr
<1>7. CASE Types[t].kind = "struct"
  BY <1>7 DEF Takes, InterfacesOnTop, Plain
<1>8. CASE Types[t].kind = "any"
  BY <1>8 DEF Takes, TakesAny, InterfacesOnTop, Plain
<1>9. ASSUME NEW choices \in Seq(DOMAIN Types), Plain(choices), TakesOne(u, p, choices, n, ts), p + n <= Len(u)
      PROVE  Plain(ts)
  <2>1. n = 1 /\ u[p + 1] < Len(choices) /\ ts = <<choices[u[p + 1] + 1]>> BY <1>9 DEF TakesOne
  <2>2. u[p + 1] \in Nat BY <1>9, <2>1
  <2>3. u[p + 1] + 1 \in DOMAIN choices BY <2>1, <2>2
  <2>4. Types[choices[u[p + 1] + 1]].kind # "iface" BY <1>9, <2>3 DEF Plain
  <2> DEFINE x == choices[u[p + 1] + 1]
  <2> HIDE DEF x
  <2>5. ts = <<x>> /\ Types[x].kind # "iface" BY <2>1, <2>4 DEF x
  <2> QED BY <2>5 DEF Plain
<1>10. CASE Types[t].kind = "union"
  <2>1. Types[t].fields \in Seq(DOMAIN Types) BY <1>10, TypeFacts
  <2>2. Plain(Types[t].fields) BY <1>10 DEF InterfacesOnTop, Plain
  <2>3. TakesOne(u, p, Types[t].fields, n, ts) /\ p + n <= Len(u) BY <1>10 DEF Takes
  <2> QED BY <1>9, <2>1, <2>2, <2>3
<1>11. CASE Types[t].kind = "iface"
  <2>1. Types[t].methods \in Seq(DOMAIN Types) BY <1>11, TypeFacts
  <2>2. Plain(Types[t].methods) BY <1>11 DEF InterfacesOnTop, Plain
  <2>3. TakesOne(u, p, Types[t].methods, n, ts) /\ p + n <= Len(u) BY <1>11 DEF Takes
  <2> QED BY <1>9, <2>1, <2>2, <2>3
<1> QED BY <1>1, <1>2, <1>4, <1>5, <1>6, <1>7, <1>8, <1>10, <1>11 DEF Kinds

LEMMA TypesOfSeq ==
  ASSUME NEW s \in Seq(DItem)
  PROVE  TypesOf(s) \in Seq(DOMAIN Types) /\ Len(TypesOf(s)) = Len(s)
         /\ \A i \in 1..Len(s) : TypesOf(s)[i] = s[i].type
<1>1. DOMAIN s = 1..Len(s) /\ Len(s) \in Nat OBVIOUS
<1>2. \A i \in 1..Len(s) : s[i].type \in DOMAIN Types
  <2>1. \A i \in 1..Len(s) : s[i] \in DItem OBVIOUS
  <2>2. \A x \in DItem : x.type \in DOMAIN Types BY DEF DItem
  <2> QED BY <2>1, <2>2
<1> DEFINE x(i) == s[i].type
<1>3. TypesOf(s) = [i \in 1..Len(s) |-> x(i)] BY <1>1 DEF TypesOf
<1>4. \A i \in 1..Len(s) : x(i) \in DOMAIN Types BY <1>2
<1> HIDE DEF x
<1>5. [i \in 1..Len(s) |-> x(i)] \in [1..Len(s) -> DOMAIN Types] BY <1>4
<1>6. TypesOf(s) \in Seq(DOMAIN Types) /\ Len(TypesOf(s)) = Len(s) BY <1>1, <1>3, <1>5, MadeFacts
<1>7. \A i \in 1..Len(s) : TypesOf(s)[i] = x(i) BY <1>3
<1> QED BY <1>6, <1>7 DEF x

LEMMA SameSeq ==
  ASSUME NEW S, NEW a \in Seq(S), NEW b \in Seq(S), Len(a) = Len(b),
         \A i \in 1..Len(a) : a[i] = b[i]
  PROVE  a = b
OBVIOUS

LEMMA TypesOfPush ==
  ASSUME NEW s \in Seq(DItem), s # <<>>, NEW v \in Seq(DItem)
  PROVE  /\ TypesOf(v \o Tail(s)) = TypesOf(v) \o Tail(TypesOf(s))
         /\ TypesOf(s) # <<>> /\ Head(TypesOf(s)) = Head(s).type
<1> DEFINE a == TypesOf(v \o Tail(s))
           b == TypesOf(v) \o Tail(TypesOf(s))
           n == Len(v)
           m == Len(s) - 1
<1>1. /\ v \o Tail(s) \in Seq(DItem) /\ Len(v \o Tail(s)) = Len(v) + Len(s) - 1
      /\ Len(s) \in Nat /\ Len(s) >= 1 /\ Len(v) \in Nat /\ Head(s) = s[1]
      /\ \A i \in 1..n : (v \o Tail(s))[i] = v[i]
      /\ \A i \in 1..m : (v \o Tail(s))[n + i] = s[i + 1]
  BY PushFacts
<1>2. /\ TypesOf(v) \in Seq(DOMAIN Types) /\ Len(TypesOf(v)) = n
      /\ \A i \in 1..n : TypesOf(v)[i] = v[i].type
  BY TypesOfSeq
<1>3. /\ TypesOf(s) \in Seq(DOMAIN Types) /\ Len(TypesOf(s)) = Len(s)
      /\ \A i \in 1..Len(s) : TypesOf(s)[i] = s[i].type
  BY TypesOfSeq
<1>4. TypesOf(s) # <<>> BY <1>1, <1>3
<1>5. /\ b \in Seq(DOMAIN Types) /\ Len(b) = n + Len(s) - 1 /\ Head(TypesOf(s)) = TypesOf(s)[1]
      /\ \A i \in 1..n : b[i] = TypesOf(v)[i]
      /\ \A i \in 1..m : b[n + i] = TypesOf(s)[i + 1]
  <2> DEFINE r == TypesOf(s)
             w == TypesOf(v)
  <2>1. r \in Seq(DOMAIN Types) /\ Len(r) = Len(s) /\ r # <<>> /\ w \in Seq(DOMAIN Types) /\ Len(w) = n
    BY <1>2, <1>3, <1>4
  <2> HIDE DEF r, w
  <2>2. /\ w \o Tail(r) \in Seq(DOMAIN Types) /\ Len(w \o Tail(r)) = Len(w) + Len(r) - 1 /\ Head(r) = r[1]
        /\ \A i \in 1..Len(w) : (w \o Tail(r))[i] = w[i]
        /\ \A i \in 1..(Len(r) - 1) : (w \o Tail(r))[Len(w) + i] = r[i + 1]
    BY <2>1, PushFacts
  <2> QED BY <2>1, <2>2 DEF r, w
<1>6. /\ a \in Seq(DOMAIN Types) /\ Len(a) = n + Len(s) - 1
      /\ \A i \in 1..(n + Len(s) - 1) : a[i] = (v \o Tail(s))[i].type
  BY <1>1, TypesOfSeq
<1>7. \A i \in 1..(n + Len(s) - 1) : a[i] = b[i]
  <2> TAKE i \in 1..(n + Len(s) - 1)
  <2>1. CASE i <= n
    <3>1. i \in 1..n BY <1>1, <2>1
    <3> QED BY <1>1, <1>2, <1>5, <1>6, <3>1
  <2>2. CASE ~(i <= n)
    <3> DEFINE k == i - n
    <3>1. k \in 1..m /\ i = n + k /\ k + 1 \in 1..Len(s) BY <1>1, <2>2
    <3> HIDE DEF k, a, b
    <3>2. b[n + k] = s[k + 1].type BY <1>3, <1>5, <3>1
    <3>3. a[i] = (v \o Tail(s))[n + k].type BY <1>6, <3>1
    <3> QED BY <1>1, <3>1, <3>2, <3>3
  <2> QED BY <2>1, <2>2
<1> HIDE DEF a, b
<1>8. a = b BY <1>5, <1>6, <1>7, SameSeq
<1>9. 1 \in 1..Len(s) BY <1>1
<1>10. Head(TypesOf(s)) = Head(s).type BY <1>1, <1>3, <1>5, <1>9
<1> QED BY <1>4, <1>8, <1>10 DEF a, b

LEMMA PlainPush ==
  ASSUME NEW s \in Seq(DOMAIN Types), s # <<>>, NEW v \in Seq(DOMAIN Types), Plain(s), Plain(v)
  PROVE  Plain(v \o Tail(s))
<1> DEFINE a == v \o Tail(s)
           n == Len(v)
<1>1. /\ a \in Seq(DOMAIN Types) /\ Len(a) = n + Len(s) - 1 /\ Len(s) \in Nat /\ Len(s) >= 1 /\ n \in Nat
      /\ \A i \in 1..n : a[i] = v[i]
      /\ \A i \in 1..(Len(s) - 1) : a[n + i] = s[i + 1]
  BY PushFacts
<1> HIDE DEF a
<1>2. DOMAIN a = 1..Len(a) /\ DOMAIN s = 1..Len(s) /\ DOMAIN v = 1..n BY <1>1
<1>3. \A i \in DOMAIN a : Types[a[i]].kind # "iface"
  <2> TAKE i \in DOMAIN a
  <2>1. CASE i <= n
    <3>1. i \in 1..n BY <1>1, <1>2, <2>1
    <3> QED BY <1>1, <1>2, <3>1 DEF Plain
  <2>2. CASE ~(i <= n)
    <3> DEFINE k == i - n
    <3>1. k \in 1..(Len(s) - 1) /\ i = n + k /\ k + 1 \in 1..Len(s) BY <1>1, <1>2, <2>2
    <3> HIDE DEF k
    <3>2. a[n + k] = s[k + 1] /\ Types[s[k + 1]].kind # "iface" BY <1>1, <1>2, <3>1 DEF Plain
    <3> QED BY <3>1, <3>2
  <2> QED BY <2>1, <2>2
<1> QED BY <1>3 DEF Plain, a

Matches(c, d) ==
  c.pos = d.pos /\ c.stack = TypesOf(d.stack) /\ c.count <= d.next /\ Plain(c.stack)

DecodedInv ==
  verifier.result = "ok" =>
    /\ phase = "decode" /\ IsCall /\ decoder.turn = 1 => CallAhead \/ CallKnown
    /\ phase = "decode" /\ decoder.turn # 0 /\ ~(IsCall /\ decoder.turn = 1) =>
         \E V : Trail(V, wire, ConfigOf(verifier)) /\ \E c \in V : Matches(c, decoder)
    /\ phase = "done" => decoder.result = "ok" /\ decoder.pos = Len(wire)

\* A configuration with something left to take is followed.
LEMMA TrailFollows ==
  ASSUME NEW V, NEW u, NEW last, Trail(V, u, last), last.stack = <<>>, NEW c \in V, c.stack # <<>>
  PROVE  /\ c \in Config /\ c.stack \in Seq(DOMAIN Types) /\ Head(c.stack) \in DOMAIN Types
         /\ c.pos \in Nat /\ c.count \in Nat
         /\ \E n, ts : /\ Takes(u, c.pos, c.count, Head(c.stack), n, ts) /\ After(c, n, ts) \in V
                       /\ n \in Nat /\ ts \in Seq(DOMAIN Types)
<1>1. c # last /\ c \in Config BY DEF Trail
<1>2. Follows(V, u, c) BY <1>1 DEF Trail
<1>3. c.stack \in Seq(DOMAIN Types) /\ c.pos \in Nat /\ c.count \in Nat BY <1>1 DEF Config
<1>4. Head(c.stack) \in DOMAIN Types BY <1>3, PushFacts
<1>5. PICK n, ts : Takes(u, c.pos, c.count, Head(c.stack), n, ts) /\ After(c, n, ts) \in V
  BY <1>2 DEF Follows
<1>6. n \in Nat /\ ts \in Seq(DOMAIN Types) BY <1>5 DEF Takes
<1> QED BY <1>1, <1>3, <1>4, <1>5, <1>6

LEMMA MatchStep ==
  ASSUME InterfacesOnTop, DecoderInv(decoder, wire), WireInv(wire, Room + 1),
         NEW V, NEW last, Trail(V, wire, last), last.stack = <<>>,
         NEW c \in V, Matches(c, decoder), DecodeStep
  PROVE  phase' = phase /\ decoder'.turn = decoder.turn /\ \E a \in V : Matches(a, decoder')
<1> DEFINE s == decoder.stack
           t == Head(c.stack)
<1>1. s \in Seq(DItem) /\ s # <<>> /\ decoder.next \in Nat /\ wire \in Seq(Nat)
  BY DEF DecoderInv, DecoderType, DecodeStep, WireInv
<1>2. c.stack = TypesOf(s) /\ c.pos = decoder.pos /\ c.count <= decoder.next /\ Plain(c.stack)
  BY DEF Matches
<1>3. TypesOf(s) # <<>> /\ Head(TypesOf(s)) = Head(s).type BY <1>1, NoItems, TypesOfPush
<1>4. c.stack # <<>> /\ t = DTop.type BY <1>2, <1>3 DEF DTop
<1>5. c \in Config /\ c.stack \in Seq(DOMAIN Types) /\ t \in DOMAIN Types /\ c.pos \in Nat /\ c.count \in Nat
  BY <1>4, TrailFollows
<1>6. PICK n, ts : /\ Takes(wire, c.pos, c.count, t, n, ts) /\ After(c, n, ts) \in V
                   /\ n \in Nat /\ ts \in Seq(DOMAIN Types)
  BY <1>4, TrailFollows
<1>7. Types[t].kind # "iface"
  <2>1. 1 \in DOMAIN c.stack /\ t = c.stack[1] BY <1>4, <1>5
  <2> QED BY <1>2, <2>1 DEF Plain
<1>8. TakesHere(c.count, n, ts) BY <1>2, <1>4, <1>6 DEF TakesHere
<1>9. c.count \in 0..decoder.next BY <1>1, <1>2, <1>5
<1>10. StoresSome
  <2>1. ~NothingToTake BY <1>8, <1>9 DEF NothingToTake
  <2>2. Types[DTop.type].kind # "iface" BY <1>4, <1>7
  <2> QED BY <2>1, <2>2 DEF DecodeStep
<1>11. PICK m, skip, cells, values :
         /\ m \in Nat /\ skip \in Nat /\ values \in Seq(DItem) /\ decoder.pos + m <= Len(wire)
         /\ Fits(m, values) /\ Stores(m, skip, cells, values)
  BY <1>10 DEF StoresSome
<1>12. n = m /\ ts = TypesOf(values) BY <1>8, <1>9, <1>11 DEF Fits
<1>13. /\ decoder'.stack = values \o Tail(s) /\ decoder'.pos = decoder.pos + m
       /\ decoder'.next = decoder.next + 1 + skip /\ decoder'.turn = decoder.turn
  BY <1>1, <1>11, StoresTypes
<1> DEFINE a == After(c, n, ts)
<1>14. a.stack = ts \o Tail(c.stack) /\ a.pos = c.pos + n /\ a.count = c.count + 1
  BY <1>4, <1>5, <1>6, <1>7, AfterConfig
<1>15. a.stack = TypesOf(decoder'.stack)
  <2>1. TypesOf(values \o Tail(s)) = TypesOf(values) \o Tail(TypesOf(s)) BY <1>1, <1>11, TypesOfPush
  <2> QED BY <1>2, <1>12, <1>13, <1>14, <2>1
<1>16. Plain(a.stack)
  <2>1. Plain(ts) BY <1>1, <1>5, <1>6, TakesPlain
  <2>2. Plain(ts \o Tail(c.stack)) BY <1>2, <1>4, <1>5, <1>6, <2>1, PlainPush
  <2> QED BY <1>14, <2>2
<1>17. a.count <= decoder'.next BY <1>1, <1>2, <1>5, <1>11, <1>13, <1>14, SMTT(30)
<1>18. a.pos = decoder'.pos BY <1>2, <1>12, <1>13, <1>14
<1> HIDE DEF a
<1>19. Matches(a, decoder') BY <1>15, <1>16, <1>17, <1>18 DEF Matches
<1>20. phase' = phase BY <1>11 DEF Stores
<1> QED BY <1>6, <1>13, <1>19, <1>20 DEF a

\* The verifier found a method that the call names.
LEMMA CallTaken ==
  ASSUME world \in Worlds, WireInv(wire, Room + 1), InterfacesOnTop, IsCall,
         NEW V, NEW last, Trail(V, wire, last), last.stack = <<>>
  PROVE  LET methods == Types[world.type].methods
         IN  /\ 1 <= Len(wire) /\ wire[1] < Len(methods)
             /\ \E a \in V : /\ a.pos = 1 /\ a.count = 0 /\ a.stack = <<methods[wire[1] + 1]>>
                             /\ Plain(a.stack)
<1> DEFINE methods == Types[world.type].methods
<1>1. /\ Start \in V /\ Start.stack = <<world.type>> /\ Start.pos = 0 /\ Start.count = 0
      /\ Start.stack # <<>> /\ Head(Start.stack) = world.type /\ world.type \in DOMAIN Types
  BY StartConfig, WorldFacts DEF Trail
<1>2. PICK n, ts : /\ Takes(wire, 0, 0, world.type, n, ts) /\ After(Start, n, ts) \in V
                   /\ n \in Nat /\ ts \in Seq(DOMAIN Types)
  BY <1>1, TrailFollows
<1>3. n = 1 /\ 1 <= Len(wire) /\ wire[1] < Len(methods) /\ ts = <<methods[wire[1] + 1]>>
  BY <1>2 DEF Takes, TakesOne, IsCall
<1> DEFINE a == After(Start, n, ts)
<1>4. a.stack = ts \o Tail(Start.stack) /\ a.pos = 1 /\ a.count = 0
  <2>1. Start \in Config BY StartConfig
  <2>2. /\ a.stack = ts \o Tail(Start.stack) /\ a.pos = Start.pos + n
        /\ a.count = IF Types[Head(Start.stack)].kind = "iface" THEN Start.count ELSE Start.count + 1
    BY <1>1, <1>2, <2>1, AfterConfig
  <2>3. Types[Head(Start.stack)].kind = "iface" BY <1>1 DEF IsCall
  <2> QED BY <1>1, <1>3, <2>2, <2>3
<1>5. a.stack = ts
  <2> DEFINE s == <<world.type>>
  <2>1. Tail(s) = <<>> OBVIOUS
  <2> HIDE DEF s
  <2>2. a.stack = ts \o Tail(s) BY <1>1, <1>4 DEF s
  <2>3. ts \o <<>> = ts BY <1>2
  <2> QED BY <2>1, <2>2, <2>3
<1>6. Plain(ts)
  <2>1. wire \in Seq(Nat) /\ 0 \in Nat BY DEF WireInv
  <2> QED BY <1>1, <1>2, <2>1, TakesPlain
<1> HIDE DEF a
<1> QED BY <1>2, <1>3, <1>4, <1>5, <1>6 DEF a

LEMMA DecodeDecoded ==
  ASSUME InterfacesOnTop, TypesInv, VerifiedInv, DecodedInv, Decode, verifier.result = "ok"
  PROVE  DecodedInv'
<1>0. DecoderInv(decoder, wire) /\ WireInv(wire, Room + 1) /\ CallInv /\ world \in Worlds
      /\ VerifierInv(verifier, wire)
  BY DEF TypesInv
<1>1. phase = "decode" /\ UNCHANGED <<world, wire, foreign, encoder, verifier, encoded>> BY DecodeFrame
<1>2. verifier.stack = <<>> /\ verifier.pos = Len(wire) BY DEF VerifiedInv
<1>3. ConfigOf(verifier).stack = <<>> /\ ConfigOf(verifier).pos = Len(wire) BY <1>0, <1>2, ConfigOfFacts
<1>4. \E V : Trail(V, wire, ConfigOf(verifier)) BY <1>1 DEF VerifiedInv
<1>5. IsCall' = IsCall BY <1>1 DEF IsCall
<1>6. \A V : Trail(V, wire, ConfigOf(verifier)) =>
        V \subseteq Config /\ Start \in V /\ ConfigOf(verifier') \in V /\ Start' = Start
        /\ \A c \in V : c # ConfigOf(verifier') => Follows(V, wire', c)
  BY <1>1 DEF Trail, ConfigOf, Start
<1>7. ASSUME NEW V, Trail(V, wire, ConfigOf(verifier)), NEW c \in V, Matches(c, decoder'),
             phase' = "decode", ~(IsCall /\ decoder'.turn = 1)
      PROVE  DecodedInv'
  <2>1. \E W : /\ W \subseteq Config /\ Start' \in W /\ ConfigOf(verifier') \in W
               /\ \A b \in W : b # ConfigOf(verifier') => Follows(W, wire', b)
               /\ \E b \in W : Matches(b, decoder')
    BY <1>6, <1>7
  <2>2. \E W : Trail(W, wire, ConfigOf(verifier))' /\ \E b \in W : Matches(b, decoder')
    BY <2>1 DEF Trail, ConfigOf
  <2> QED BY <1>5, <1>7, <2>2 DEF DecodedInv
<1>8. DecodeStart \/ DecodeArguments \/ DecodeEnd \/ DecodeStep BY <1>0, DecodeForm
<1>9. CASE DecodeStart
  <2>1. /\ decoder'.turn = 1 /\ decoder'.pos = 0 /\ decoder'.next = 0 /\ decoded = <<>>
        /\ decoder'.stack = <<Value(IF IsCall THEN CallId ELSE world.type, <<0, 0>>, FALSE)>>
    BY <1>9, DecodeStartTypes
  <2>2. UNCHANGED <<phase, decoded>> BY <1>9 DEF DecodeStart
  <2>3. CASE IsCall
    <3>1. CallAhead' BY <2>1, <2>2, <2>3 DEF CallAhead
    <3> QED BY <1>1, <1>5, <2>1, <2>2, <2>3, <3>1 DEF DecodedInv
  <2>4. CASE ~IsCall
    <3>1. PICK V : Trail(V, wire, ConfigOf(verifier)) BY <1>4
    <3>2. Start \in V BY <3>1 DEF Trail
    <3>3. /\ Start.stack = <<world.type>> /\ Start.pos = 0 /\ Start.count = 0 /\ world.type \in DOMAIN Types
      BY <1>0, StartConfig, WorldFacts
    <3> DEFINE values == <<Value(world.type, <<0, 0>>, FALSE)>>
    <3>4. TypesOf(values) = <<world.type>>
      <4>1. <<0, 0>> \in DAddress BY DEF DAddress
      <4> QED BY <3>3, <4>1, OneType
    <3>5. decoder'.stack = values BY <2>1, <2>4
    <3>6. Plain(<<world.type>>)
      <4> DEFINE t == world.type
      <4>1. Types[t].kind # "iface" BY <2>4 DEF IsCall
      <4> HIDE DEF t
      <4>2. Plain(<<t>>) BY <4>1 DEF Plain
      <4> QED BY <4>2 DEF t
    <3> HIDE DEF values
    <3>7. Matches(Start, decoder')
      <4>1. Start.pos = decoder'.pos /\ Start.count <= decoder'.next BY <2>1, <3>3
      <4>2. Start.stack = TypesOf(decoder'.stack) BY <3>3, <3>4, <3>5
      <4>3. Plain(Start.stack)
        <5> DEFINE s == <<world.type>>
        <5>1. Start.stack = s /\ Plain(s) BY <3>3, <3>6
        <5> HIDE DEF s
        <5> QED BY <5>1
      <4> QED BY <4>1, <4>2, <4>3 DEF Matches
    <3> QED BY <1>1, <1>7, <2>2, <2>4, <3>1, <3>2, <3>7
  <2> QED BY <2>3, <2>4
<1>10. CASE DecodeArguments
  <2>1. IsCall /\ decoder.turn = 1 /\ decoder.stack = <<>> BY <1>10 DEF DecodeArguments
  <2>2. CallKnown
    <3>1. CallAhead \/ CallKnown BY <1>1, <2>1 DEF DecodedInv
    <3>2. ~CallAhead BY <2>1 DEF CallAhead
    <3> QED BY <3>1, <3>2
  <2>3. PICK call \in Nat : call = wire[1] /\ (Called(call) \/ NotCalled(call))
    BY <1>10, <2>2, ArgumentsTypes
  <2>4. PICK V : Trail(V, wire, ConfigOf(verifier)) BY <1>4
  <2> DEFINE methods == Types[world.type].methods
  <2>5. /\ wire[1] < Len(methods)
        /\ \E a \in V : a.pos = 1 /\ a.count = 0 /\ a.stack = <<methods[wire[1] + 1]>> /\ Plain(a.stack)
    BY <1>0, <1>3, <2>1, <2>4, CallTaken
  <2>6. Called(call) BY <2>3, <2>5 DEF NotCalled
  <2>7. PICK a \in V : a.pos = 1 /\ a.count = 0 /\ a.stack = <<methods[call + 1]>> /\ Plain(a.stack)
    BY <2>3, <2>5
  <2>8. /\ phase' = "decode" /\ decoder'.turn = 2 /\ decoder'.pos = 1 /\ decoder'.next = 0
        /\ methods[call + 1] \in DOMAIN Types
        /\ decoder'.stack = <<Value(methods[call + 1], Block, FALSE)>>
    BY <2>2, <2>6 DEF Called, CallKnown
  <2> DEFINE t == methods[call + 1]
             values == <<Value(t, Block, FALSE)>>
  <2>9. TypesOf(values) = <<t>>
    <3>1. Block \in DAddress BY <1>0 DEF Block, DAddress, DecoderInv, DecoderType
    <3> QED BY <2>8, <3>1, OneType
  <2>10. decoder'.stack = values /\ a.stack = <<t>> BY <2>7, <2>8
  <2> HIDE DEF values, t
  <2>11. Matches(a, decoder')
    <3>1. a.pos = decoder'.pos /\ a.count <= decoder'.next BY <2>7, <2>8
    <3>2. a.stack = TypesOf(decoder'.stack) BY <2>9, <2>10
    <3>3. Plain(a.stack) BY <2>7
    <3> QED BY <3>1, <3>2, <3>3 DEF Matches
  <2> QED BY <1>7, <2>4, <2>8, <2>11
<1>11. CASE DecodeEnd
  <2>1. /\ decoder'.pos = decoder.pos /\ decoder'.result = "ok" /\ phase' = "done"
    BY <1>11, EndTypes
  <2>2. decoder.stack = <<>> /\ decoder.turn = IF IsCall THEN 2 ELSE 1 BY <1>11 DEF DecodeEnd
  <2>3. PICK V : Trail(V, wire, ConfigOf(verifier)) /\ \E c \in V : Matches(c, decoder)
    BY <1>1, <2>2 DEF DecodedInv
  <2>4. PICK c \in V : Matches(c, decoder) BY <2>3
  <2>5. c.stack = <<>> BY <2>2, <2>4, NoTypes DEF Matches
  <2>6. c = ConfigOf(verifier) BY <2>3, <2>4, <2>5 DEF Trail, Follows
  <2>7. decoder.pos = Len(wire) BY <1>3, <2>4, <2>6 DEF Matches
  <2> QED BY <1>1, <2>1, <2>7 DEF DecodedInv
<1>12. CASE DecodeStep
  <2>1. decoder.turn # 0 /\ decoder.stack # <<>>
    <3>1. decoder.stack # <<>> BY <1>12 DEF DecodeStep
    <3> QED BY <1>0, <3>1 DEF CallInv, NewDecoder
  <2>2. CASE IsCall /\ decoder.turn = 1
    <3>1. CallAhead BY <1>0, <2>1, <2>2 DEF CallInv, CallLost, CallKnown
    <3>2. /\ CallKnown' \/ ~(1 <= Len(wire))
          /\ decoder'.turn = 1 /\ phase' = phase
      BY <1>0, <2>2, <3>1, CallStep
    <3>3. PICK V : Trail(V, wire, ConfigOf(verifier)) BY <1>4
    <3>4. 1 <= Len(wire) BY <1>0, <1>3, <2>2, <3>3, CallTaken
    <3> QED BY <1>1, <1>5, <2>2, <3>2, <3>4 DEF DecodedInv
  <2>3. CASE ~(IsCall /\ decoder.turn = 1)
    <3>1. PICK V : Trail(V, wire, ConfigOf(verifier)) /\ \E c \in V : Matches(c, decoder)
      BY <1>1, <2>1, <2>3 DEF DecodedInv
    <3>2. PICK c \in V : Matches(c, decoder) BY <3>1
    <3>3. phase' = phase /\ decoder'.turn = decoder.turn /\ \E a \in V : Matches(a, decoder')
      BY <1>0, <1>3, <1>12, <3>1, <3>2, MatchStep
    <3> QED BY <1>1, <1>7, <2>3, <3>1, <3>3
  <2> QED BY <2>2, <2>3
<1> QED BY <1>8, <1>9, <1>10, <1>11, <1>12

LEMMA VerifiedInit == Init => VerifiedInv /\ DecodedInv
BY DEF Init, VerifiedInv, DecodedInv

LEMMA VerifiedKept ==
  ASSUME TypesInv, VerifiedInv, [Next]_vars
  PROVE  VerifiedInv'
<1>1. CASE Encode
  <2>1. phase = "encode" /\ phase' \in {"encode", "deliver"} /\ verifier' = verifier
    BY <1>1 DEF Encode, EncodeStart, EncodeScalar, EncodeTuple, EncodeArray, EncodeStruct, EncodePtr,
                EncodeAny, EncodeAnyEnd, EncodeUnion, EncodeFail, EncodeEnd, Encodes, Encoding
  <2>2. verifier'.result = "none" BY <2>1 DEF VerifiedInv
  <2> QED BY <2>1, <2>2 DEF VerifiedInv
<1>2. CASE Deliver BY <1>2, DeliverVerified
<1>3. CASE Verify BY <1>3, VerifyVerified
<1>4. CASE Decode
  <2>1. phase = "decode" /\ UNCHANGED <<world, wire, foreign, encoder, verifier, encoded>>
    BY <1>4, DecodeFrame
  <2>2. phase' \in {"decode", "done"}
    <3>1. DecoderInv(decoder, wire) /\ WireInv(wire, Room + 1) BY DEF TypesInv
    <3>2. DecodeStart \/ DecodeArguments \/ DecodeEnd \/ DecodeStep BY <1>4, <3>1, DecodeForm
    <3> QED BY <2>1, <3>2 DEF DecodeStart, DecodeArguments, DecodeEnd, DecodeStep, StoresSome, Stores,
                              DecodeFails
  <2>3. verifier.result \in {"none", "ok"} => \E V : Trail(V, wire, ConfigOf(verifier))'
    BY <2>1 DEF VerifiedInv, Trail, ConfigOf, Start
  <2> QED BY <2>1, <2>2, <2>3 DEF VerifiedInv
<1>5. CASE UNCHANGED vars
  <2>1. UNCHANGED <<world, phase, wire, foreign, encoder, verifier, decoder, memory, encoded, decoded>>
    BY <1>5 DEF vars
  <2> QED BY <2>1 DEF VerifiedInv, Trail, ConfigOf, Start
<1> QED BY <1>1, <1>2, <1>3, <1>4, <1>5 DEF Next

LEMMA DecodedKept ==
  ASSUME InterfacesOnTop, TypesInv, VerifiedInv, DecodedInv, [Next]_vars
  PROVE  DecodedInv'
<1>1. CASE Encode
  <2>1. phase = "encode" /\ verifier' = verifier
    BY <1>1 DEF Encode, EncodeStart, EncodeScalar, EncodeTuple, EncodeArray, EncodeStruct, EncodePtr,
                EncodeAny, EncodeAnyEnd, EncodeUnion, EncodeFail, EncodeEnd, Encodes, Encoding
  <2>2. verifier'.result = "none" BY <2>1 DEF VerifiedInv
  <2> QED BY <2>2 DEF DecodedInv
<1>2. CASE Deliver
  <2>1. verifier'.result = "none" BY <1>2, DeliverTypes
  <2> QED BY <2>1 DEF DecodedInv
<1>3. CASE Verify
  <2>1. decoder' = NewDecoder /\ phase' \in {"verify", "decode"}
    <3>1. VerifierInv(verifier, wire) /\ WireInv(wire, Room + 1) BY DEF TypesInv
    <3>2. VerifyStep \/ VerifyEnd BY <1>3, <3>1, VerifyForm
    <3>3. phase = "verify" /\ phase' \in {"verify", "decode"} /\ decoder' = decoder
      BY <3>2 DEF VerifyStep, VerifyEnd, Advances, Verified
    <3> QED BY <3>3 DEF TypesInv
  <2>2. decoder'.turn = 0 BY <2>1 DEF NewDecoder
  <2> QED BY <2>1, <2>2 DEF DecodedInv
<1>4. CASE Decode
  <2>1. CASE verifier.result = "ok" BY <1>4, <2>1, DecodeDecoded
  <2>2. CASE verifier.result # "ok"
    <3>1. verifier' = verifier BY <1>4, DecodeFrame
    <3> QED BY <2>2, <3>1 DEF DecodedInv
  <2> QED BY <2>1, <2>2
<1>5. CASE UNCHANGED vars
  <2>1. UNCHANGED <<world, phase, wire, foreign, encoder, verifier, decoder, memory, encoded, decoded>>
    BY <1>5 DEF vars
  <2> QED BY <2>1 DEF DecodedInv, Trail, ConfigOf, Start, CallAhead, CallKnown, IsCall
<1> QED BY <1>1, <1>2, <1>3, <1>4, <1>5 DEF Next

\* Whoever wrote the wire: what verify.c accepts, decoder.c and the host of
\* calls decode, to the last unit; and what a decoded call names is a method.
THEOREM VerifiedAlwaysDecoded ==
  ASSUME InterfacesOnTop
  PROVE  Spec => []VerifiedIsDecoded
<1> DEFINE I == TypesInv /\ VerifiedInv /\ DecodedInv
<1>1. Init => I BY InitTypes, VerifiedInit
<1>2. I /\ [Next]_vars => I' BY TypesStep, VerifiedKept, DecodedKept
<1>3. I => VerifiedIsDecoded BY DEF DecodedInv, VerifiedIsDecoded
<1> HIDE DEF I
<1> QED BY <1>1, <1>2, <1>3, PTL DEF Spec

-----------------------------------------------------------------------------
(* The way of the encoder: it leaves a trail that the verifier can take.   *)

\* What was taken of a wire is taken of a longer one.
LEMMA TakesMore ==
  ASSUME NEW u \in Seq(Nat), NEW w \in Seq(Nat), NEW p \in Nat, NEW c, NEW t \in DOMAIN Types, NEW n, NEW ts,
         Takes(u, p, c, t, n, ts)
  PROVE  Takes(u \o w, p, c, t, n, ts)
<1> DEFINE x == u \o w
<1> SUFFICES Takes(x, p, c, t, n, ts) OBVIOUS
<1>1. Len(u) \in Nat /\ Len(x) >= Len(u) /\ \A i \in 1..Len(u) : x[i] = u[i] BY JoinFacts
<1>2. n \in Nat /\ p + n <= Len(u) /\ ts \in Seq(DOMAIN Types) /\ Types[t].kind \in Kinds \ {"dict"}
  BY TypeFacts DEF Takes
<1> HIDE DEF x
<1>3. Len(x) \in Nat
  <2>1. x \in Seq(Nat) BY JoinFacts DEF x
  <2> QED BY <2>1
<1>4. p + n <= Len(x) BY <1>1, <1>2, <1>3
<1>5. \A i \in Nat \ {0} : p + i <= Len(u) => x[p + i] = u[p + i] /\ u[p + i] \in Nat /\ p + i <= Len(x)
  <2> TAKE i \in Nat \ {0}
  <2> HAVE p + i <= Len(u)
  <2>1. p + i \in 1..Len(u) BY <1>1
  <2> QED BY <1>1, <1>3, <2>1
<1>6. p + 1 <= Len(u) => x[p + 1] = u[p + 1] /\ u[p + 1] \in Nat /\ p + 1 <= Len(x) BY <1>5
<1>7. n = 2 => x[p + 2] = u[p + 2] BY <1>2, <1>5
<1>8. n = 1 => x[p + 1] = u[p + 1] BY <1>2, <1>5
<1>9. CASE Types[t].kind = "scalar" BY <1>2, <1>4, <1>9 DEF Takes
<1>10. CASE Types[t].kind \in {"string", "tuple"}
  <2>1. TakesTuple(u, p, t, n, ts) BY <1>10 DEF Takes
  <2>2. TakesTuple(x, p, t, n, ts) BY <1>6, <2>1 DEF TakesTuple
  <2> QED BY <1>2, <1>4, <1>10, <2>2 DEF Takes
<1>11. CASE Types[t].kind = "array" BY <1>2, <1>4, <1>11 DEF Takes
<1>12. CASE Types[t].kind = "struct" BY <1>2, <1>4, <1>12 DEF Takes
<1>13. CASE Types[t].kind = "ptr"
  <2>1. TakesPtr(u, p, c, t, n, ts) BY <1>13 DEF Takes
  <2>2. TakesPtr(x, p, c, t, n, ts) BY <1>6, <1>7, <2>1 DEF TakesPtr
  <2> QED BY <1>2, <1>4, <1>13, <2>2 DEF Takes
<1>14. CASE Types[t].kind = "any"
  <2>1. TakesAny(u, p, n, ts) BY <1>14 DEF Takes
  <2>2. HashSize \in Nat BY HashFacts
  <2>3. n = 1 + HashSize /\ u[p + 1] = HashSize /\ p + 1 <= Len(u) BY <1>1, <1>2, <2>1, <2>2 DEF TakesAny
  <2>4. \A i \in 1..HashSize : x[p + 1 + i] = u[p + 1 + i]
    <3> TAKE i \in 1..HashSize
    <3>1. i \in Nat /\ i <= HashSize /\ i >= 1 BY <2>2
    <3>2. p + 1 + i \in 1..Len(u) BY <1>1, <1>2, <2>2, <2>3, <3>1
    <3> QED BY <1>1, <3>2 DEF x
  <2>5. \A s : HashAt(u, p, s) => HashAt(x, p, s) BY <2>4 DEF HashAt
  <2>6. TakesAny(x, p, n, ts) BY <1>6, <2>1, <2>3, <2>5 DEF TakesAny
  <2> QED BY <1>2, <1>4, <1>14, <2>6 DEF Takes
<1>15. CASE Types[t].kind = "union"
  <2>1. TakesOne(u, p, Types[t].fields, n, ts) BY <1>15 DEF Takes
  <2>2. TakesOne(x, p, Types[t].fields, n, ts) BY <1>8, <2>1 DEF TakesOne
  <2> QED BY <1>2, <1>4, <1>15, <2>2 DEF Takes
<1>16. CASE Types[t].kind = "iface"
  <2>1. TakesOne(u, p, Types[t].methods, n, ts) BY <1>16 DEF Takes
  <2>2. TakesOne(x, p, Types[t].methods, n, ts) BY <1>8, <2>1 DEF TakesOne
  <2> QED BY <1>2, <1>4, <1>16, <2>2 DEF Takes
<1> QED BY <1>2, <1>9, <1>10, <1>11, <1>12, <1>13, <1>14, <1>15, <1>16 DEF Kinds

LEMMA TrailMore ==
  ASSUME NEW V, NEW u \in Seq(Nat), NEW w \in Seq(Nat), NEW last, Trail(V, u, last)
  PROVE  Trail(V, u \o w, last)
<1>1. ASSUME NEW c \in V, Follows(V, u, c) PROVE Follows(V, u \o w, c)
  <2>1. c.stack # <<>> /\ c \in Config BY <1>1 DEF Follows, Trail
  <2>2. c.pos \in Nat /\ c.stack \in Seq(DOMAIN Types) BY <2>1 DEF Config
  <2>3. Head(c.stack) \in DOMAIN Types BY <2>1, <2>2, PushFacts
  <2>4. PICK n, ts : Takes(u, c.pos, c.count, Head(c.stack), n, ts) /\ After(c, n, ts) \in V
    BY <1>1 DEF Follows
  <2>5. Takes(u \o w, c.pos, c.count, Head(c.stack), n, ts) BY <2>2, <2>3, <2>4, TakesMore
  <2> QED BY <2>1, <2>4, <2>5 DEF Follows
<1> QED BY <1>1 DEF Trail

\* The types of a stack of the encoder without the ends of its any values:
\* g counts those among the first values of s.
Counts(g, s, ts) ==
  /\ g \in [0..Len(s) -> 0..Len(ts)] /\ g[0] = 0 /\ g[Len(s)] = Len(ts)
  /\ \A i, j \in 0..Len(s) : i <= j => g[i] <= g[j]
  /\ \A i \in 1..Len(s) : s[i] = AnyEnd => g[i] = g[i - 1]
  /\ \A i \in 1..Len(s) : s[i] # AnyEnd => g[i] = g[i - 1] + 1 /\ ts[g[i]] = s[i].type

Strips(s, ts) == ts \in Seq(DOMAIN Types) /\ \E g : Counts(g, s, ts)

LEMMA StripsEmpty ==
  /\ Strips(<<>>, <<>>)
  /\ \A ts : Strips(<<>>, ts) => ts = <<>>
<1> DEFINE none == <<>>
           g == [i \in 0..0 |-> 0]
<1>1. Len(none) = 0 /\ none \in Seq(DOMAIN Types) OBVIOUS
<1>2. ASSUME NEW ts, Strips(none, ts) PROVE ts = <<>>
  <2>1. PICK h : Counts(h, none, ts) BY <1>2 DEF Strips
  <2>2. Len(ts) = 0 BY <1>1, <2>1 DEF Counts
  <2>3. ts \in Seq(DOMAIN Types) BY <1>2 DEF Strips
  <2> QED BY <2>2, <2>3
<1> HIDE DEF none
<1>3. g \in [0..0 -> 0..0] /\ \A i \in 0..0 : g[i] = 0 OBVIOUS
<1> HIDE DEF g
<1>4. Counts(g, none, none) BY <1>1, <1>3 DEF Counts
<1>5. Strips(none, none) BY <1>1, <1>4 DEF Strips
<1> QED BY <1>2, <1>5 DEF none

LEMMA StripsOne ==
  ASSUME NEW t \in DOMAIN Types, NEW v, v.type = t, v # AnyEnd
  PROVE  Strips(<<v>>, <<t>>) /\ Strips(<<v, AnyEnd>>, <<t>>)
<1> DEFINE g == [i \in 0..1 |-> i]
           h == [i \in 0..2 |-> IF i = 0 THEN 0 ELSE 1]
           ts == <<t>>
           s == <<v>>
           r == <<v, AnyEnd>>
<1>1. ts \in Seq(DOMAIN Types) /\ Len(ts) = 1 /\ ts[1] = t OBVIOUS
<1>2. Len(s) = 1 /\ s[1] = v /\ Len(r) = 2 /\ r[1] = v /\ r[2] = AnyEnd OBVIOUS
<1>3. g \in [0..1 -> 0..1] /\ g[0] = 0 /\ g[1] = 1 OBVIOUS
<1>4. h \in [0..2 -> 0..1] /\ h[0] = 0 /\ h[1] = 1 /\ h[2] = 1 OBVIOUS
<1> HIDE DEF g, h, ts, s, r
<1>5. Counts(g, s, ts)
  <2>1. \A i, j \in 0..1 : i <= j => g[i] <= g[j]
    <3>1. \A i \in 0..1 : i = 0 \/ i = 1 OBVIOUS
    <3> QED BY <1>3, <3>1
  <2>2. \A i \in 1..1 : i = 1 OBVIOUS
  <2> QED BY <1>1, <1>2, <1>3, <2>1, <2>2 DEF Counts
<1>6. Counts(h, r, ts)
  <2>1. \A i, j \in 0..2 : i <= j => h[i] <= h[j]
    <3>1. \A i \in 0..2 : i = 0 \/ i = 1 \/ i = 2 OBVIOUS
    <3> QED BY <1>4, <3>1
  <2>2. \A i \in 1..2 : i = 1 \/ i = 2 OBVIOUS
  <2>3. \A i \in 1..2 : r[i] = AnyEnd => h[i] = h[i - 1] BY <1>2, <1>4, <2>2
  <2>4. \A i \in 1..2 : r[i] # AnyEnd => h[i] = h[i - 1] + 1 /\ ts[h[i]] = r[i].type
    BY <1>1, <1>2, <1>4, <2>2
  <2> QED BY <1>1, <1>2, <1>4, <2>1, <2>3, <2>4 DEF Counts
<1>7. Strips(s, ts) /\ Strips(r, ts) BY <1>1, <1>5, <1>6 DEF Strips
<1> QED BY <1>7 DEF s, r, ts

LEMMA StripsMade ==
  ASSUME NEW n \in Nat, NEW s, NEW ts \in Seq(DOMAIN Types), Len(s) = n, Len(ts) = n,
         \A i \in 1..n : s[i] # AnyEnd /\ s[i].type = ts[i]
  PROVE  Strips(s, ts)
<1> DEFINE g == [i \in 0..n |-> i]
<1>1. g \in [0..n -> 0..n] /\ g[0] = 0 /\ g[n] = n /\ \A i \in 0..n : g[i] = i OBVIOUS
<1> HIDE DEF g
<1>2. \A i \in 1..n : g[i] = i /\ g[i - 1] = i - 1 /\ g[i] = g[i - 1] + 1
  <2> TAKE i \in 1..n
  <2>1. i \in 0..n /\ i - 1 \in 0..n OBVIOUS
  <2> QED BY <1>1, <2>1
<1>3. \A i, j \in 0..n : i <= j => g[i] <= g[j] BY <1>1
<1>4. Counts(g, s, ts) BY <1>1, <1>2, <1>3 DEF Counts
<1> QED BY <1>4 DEF Strips

LEMMA StripsPop ==
  ASSUME NEW S, NEW s \in Seq(S), s # <<>>, Head(s) = AnyEnd, NEW ts, Strips(s, ts)
  PROVE  Strips(Tail(s), ts)
<1> DEFINE r == Tail(s)
           m == Len(s) - 1
<1>1. PICK g : Counts(g, s, ts) BY DEF Strips
<1>2. ts \in Seq(DOMAIN Types) /\ Len(ts) \in Nat BY DEF Strips
<1>3. /\ Len(s) \in Nat /\ Len(s) >= 1 /\ Head(s) = s[1] /\ Len(r) = m /\ m \in Nat
      /\ \A i \in 1..m : r[i] = s[i + 1]
  BY HeadTailProperties
<1> HIDE DEF r
<1>4. /\ g \in [0..Len(s) -> 0..Len(ts)] /\ g[0] = 0 /\ g[Len(s)] = Len(ts)
      /\ \A i, j \in 0..Len(s) : i <= j => g[i] <= g[j]
      /\ \A i \in 1..Len(s) : s[i] = AnyEnd => g[i] = g[i - 1]
      /\ \A i \in 1..Len(s) : s[i] # AnyEnd => g[i] = g[i - 1] + 1 /\ ts[g[i]] = s[i].type
  BY <1>1 DEF Counts
<1> DEFINE h == [i \in 0..m |-> g[i + 1]]
<1>5. \A i \in 0..m : i + 1 \in 0..Len(s) /\ i + 1 \in 1..Len(s) BY <1>3
<1>6. h \in [0..m -> 0..Len(ts)] /\ \A i \in 0..m : h[i] = g[i + 1] BY <1>4, <1>5
<1> HIDE DEF h, m
<1>7. h[0] = 0
  <2>1. 0 \in 0..m /\ 1 \in 1..Len(s) BY <1>3
  <2>2. g[1] = g[0] BY <1>3, <1>4, <2>1
  <2> QED BY <1>4, <1>6, <2>1, <2>2
<1>8. h[m] = Len(ts)
  <2>1. m \in 0..m /\ m + 1 = Len(s) BY <1>3 DEF m
  <2> QED BY <1>4, <1>6, <2>1
<1>9. \A i, j \in 0..m : i <= j => h[i] <= h[j]
  <2> TAKE i, j \in 0..m
  <2> HAVE i <= j
  <2>1. i + 1 <= j + 1 BY <1>3
  <2> QED BY <1>4, <1>5, <1>6, <2>1
<1>10. \A i \in 1..m : /\ r[i] = AnyEnd => h[i] = h[i - 1]
                       /\ r[i] # AnyEnd => h[i] = h[i - 1] + 1 /\ ts[h[i]] = r[i].type
  <2> TAKE i \in 1..m
  <2>1. i \in 0..m /\ i - 1 \in 0..m /\ i + 1 \in 1..Len(s) /\ (i + 1) - 1 = i /\ (i - 1) + 1 = i
    BY <1>3, <1>5
  <2>2. h[i] = g[i + 1] /\ h[i - 1] = g[i] /\ r[i] = s[i + 1] BY <1>3, <1>6, <2>1
  <2>3. s[i + 1] = AnyEnd => g[i + 1] = g[i] BY <1>4, <2>1
  <2>4. s[i + 1] # AnyEnd => g[i + 1] = g[i] + 1 /\ ts[g[i + 1]] = s[i + 1].type BY <1>4, <2>1
  <2> QED BY <2>2, <2>3, <2>4
<1>11. Counts(h, r, ts) BY <1>3, <1>6, <1>7, <1>8, <1>9, <1>10 DEF Counts
<1> QED BY <1>2, <1>11 DEF Strips, r

LEMMA StripsPush ==
  ASSUME NEW S, NEW s \in Seq(S), s # <<>>, Head(s) # AnyEnd, NEW ts, Strips(s, ts),
         NEW v \in Seq(S), NEW us, Strips(v, us)
  PROVE  /\ Strips(v \o Tail(s), us \o Tail(ts))
         /\ ts # <<>> /\ Head(ts) = Head(s).type
<1> DEFINE r == v \o Tail(s)
           xs == us \o Tail(ts)
           k == Len(v)
           m == Len(s) - 1
           q == Len(us)
<1>1. PICK g : Counts(g, s, ts) BY DEF Strips
<1>2. PICK h : Counts(h, v, us) BY DEF Strips
<1>3. ts \in Seq(DOMAIN Types) /\ Len(ts) \in Nat /\ us \in Seq(DOMAIN Types) /\ q \in Nat
  BY DEF Strips
<1>4. /\ Len(s) \in Nat /\ Len(s) >= 1 /\ Head(s) = s[1] /\ Len(r) = k + m /\ m \in Nat /\ k \in Nat
      /\ \A i \in 1..k : r[i] = v[i]
      /\ \A i \in 1..m : r[k + i] = s[i + 1]
  <2>1. /\ Len(s) \in Nat /\ Len(s) >= 1 /\ Head(s) = s[1] /\ Len(r) = k + Len(s) - 1 /\ k \in Nat
        /\ \A i \in 1..k : r[i] = v[i]
        /\ \A i \in 1..m : r[k + i] = s[i + 1]
    BY PushFacts
  <2> QED BY <2>1
<1>5. /\ g \in [0..Len(s) -> 0..Len(ts)] /\ g[0] = 0 /\ g[Len(s)] = Len(ts)
      /\ \A i, j \in 0..Len(s) : i <= j => g[i] <= g[j]
      /\ \A i \in 1..Len(s) : s[i] = AnyEnd => g[i] = g[i - 1]
      /\ \A i \in 1..Len(s) : s[i] # AnyEnd => g[i] = g[i - 1] + 1 /\ ts[g[i]] = s[i].type
  BY <1>1 DEF Counts
<1>6. /\ h \in [0..k -> 0..q] /\ h[0] = 0 /\ h[k] = q
      /\ \A i, j \in 0..k : i <= j => h[i] <= h[j]
      /\ \A i \in 1..k : v[i] = AnyEnd => h[i] = h[i - 1]
      /\ \A i \in 1..k : v[i] # AnyEnd => h[i] = h[i - 1] + 1 /\ us[h[i]] = v[i].type
  BY <1>2 DEF Counts
<1>7. g[1] = 1 /\ ts[1] = Head(s).type /\ Len(ts) >= 1
  <2>1. 1 \in 1..Len(s) /\ 1 \in 0..Len(s) BY <1>4
  <2>2. g[1] = g[0] + 1 /\ ts[g[1]] = s[1].type BY <1>4, <1>5, <2>1
  <2>3. g[1] \in 0..Len(ts) BY <1>5, <2>1
  <2> QED BY <1>3, <1>4, <1>5, <2>2, <2>3
<1>8. ts # <<>> /\ Head(ts) = ts[1] BY <1>3, <1>7
<1>9. /\ xs \in Seq(DOMAIN Types) /\ Len(xs) = q + Len(ts) - 1
      /\ \A i \in 1..q : xs[i] = us[i]
      /\ \A i \in 1..(Len(ts) - 1) : xs[q + i] = ts[i + 1]
  BY <1>3, <1>8, PushFacts
<1>10. SUFFICES Strips(r, xs) BY <1>7, <1>8
<1> DEFINE l == [i \in 0..(k + m) |-> IF i <= k THEN h[i] ELSE q + g[(i - k) + 1] - 1]
<1> HIDE DEF r, xs, k, m, q
<1>11. \A i \in 1..Len(s) : g[i] \in 1..Len(ts)
  <2> TAKE i \in 1..Len(s)
  <2>1. i \in 0..Len(s) /\ 1 \in 0..Len(s) /\ 1 <= i BY <1>4
  <2>2. g[1] <= g[i] /\ g[i] \in 0..Len(ts) BY <1>5, <2>1
  <2> QED BY <1>3, <1>7, <2>2
<1>12. \A i \in 0..k : l[i] = h[i] /\ l[i] \in 0..q
  <2> TAKE i \in 0..k
  <2>1. i \in 0..(k + m) /\ i <= k BY <1>4
  <2> QED BY <1>6, <2>1
<1>13. \A i \in 0..m : l[k + i] = q + g[i + 1] - 1
  <2> TAKE i \in 0..m
  <2>1. k + i \in 0..(k + m) /\ (k + i) - k = i BY <1>4
  <2>2. CASE i = 0
    <3>1. k + i = k /\ l[k] = h[k] /\ g[i + 1] = 1
      <4>1. k \in 0..k /\ k + 0 = k /\ 0 + 1 = 1 BY <1>4
      <4> QED BY <1>7, <1>12, <2>2, <4>1
    <3> QED BY <1>3, <1>6, <3>1
  <2>3. CASE i # 0
    <3>1. ~(k + i <= k) BY <1>4, <2>3
    <3> QED BY <2>1, <3>1
  <2> QED BY <2>2, <2>3
<1> HIDE DEF l
<1>14. \A i \in 0..m : i + 1 \in 1..Len(s) /\ i + 1 \in 0..Len(s) BY <1>4 DEF m
<1>15. \A i \in 0..(k + m) : i \in 0..k \/ (i - k \in 1..m /\ i = k + (i - k)) BY <1>4
<1>16. \A i \in 0..m : l[k + i] \in q..Len(xs)
  <2> TAKE i \in 0..m
  <2>1. g[i + 1] \in 1..Len(ts) BY <1>11, <1>14
  <2> QED BY <1>3, <1>9, <1>13, <2>1, SMTT(30)
<1>17. l \in [0..Len(r) -> 0..Len(xs)]
  <2>1. \A i \in 0..(k + m) : l[i] \in 0..Len(xs)
    <3> TAKE i \in 0..(k + m)
    <3>1. CASE i \in 0..k BY <1>3, <1>7, <1>9, <1>12, <3>1
    <3>2. CASE i - k \in 1..m /\ i = k + (i - k)
      <4>1. i - k \in 0..m BY <1>4, <3>2
      <4>2. l[k + (i - k)] \in q..Len(xs) BY <1>16, <4>1
      <4> QED BY <1>3, <3>2, <4>2
    <3> QED BY <1>15, <3>1, <3>2
  <2>2. l = [i \in 0..(k + m) |-> l[i]] BY DEF l
  <2> QED BY <1>4, <2>1, <2>2
<1>18. l[0] = 0 /\ l[Len(r)] = Len(xs)
  <2>1. 0 \in 0..k /\ m \in 0..m /\ m + 1 = Len(s) BY <1>4 DEF m
  <2>2. l[0] = 0 BY <1>6, <1>12, <2>1
  <2>3. l[k + m] = q + g[m + 1] - 1 BY <1>13, <2>1
  <2>4. g[m + 1] = Len(ts) BY <1>5, <2>1
  <2>5. l[Len(r)] = q + Len(ts) - 1 BY <1>4, <2>3, <2>4
  <2> QED BY <1>9, <2>2, <2>5
<1>19. \A i, j \in 0..Len(r) : i <= j => l[i] <= l[j]
  <2> SUFFICES ASSUME NEW i \in 0..(k + m), NEW j \in 0..(k + m), i <= j PROVE l[i] <= l[j]
    BY <1>4
  <2>1. CASE i \in 0..k /\ j \in 0..k BY <1>6, <1>12, <2>1
  <2>2. CASE i \in 0..k /\ j - k \in 1..m /\ j = k + (j - k)
    <3>1. j - k \in 0..m BY <1>4, <2>2
    <3>2. l[k + (j - k)] \in q..Len(xs) BY <1>16, <3>1
    <3>3. l[i] \in 0..q BY <1>12, <2>2
    <3> QED BY <1>3, <1>9, <2>2, <3>2, <3>3
  <2>3. CASE ~(i \in 0..k) /\ i - k \in 1..m /\ i = k + (i - k) /\ j - k \in 1..m /\ j = k + (j - k)
    <3> DEFINE a == i - k
               b == j - k
    <3>1. a \in 0..m /\ b \in 0..m /\ a + 1 <= b + 1 /\ i = k + a /\ j = k + b BY <1>4, <2>3
    <3> HIDE DEF a, b
    <3>2. g[a + 1] <= g[b + 1] BY <1>5, <1>14, <3>1
    <3>3. g[a + 1] \in 1..Len(ts) /\ g[b + 1] \in 1..Len(ts) BY <1>11, <1>14, <3>1
    <3>4. l[i] = q + g[a + 1] - 1 /\ l[j] = q + g[b + 1] - 1 BY <1>13, <3>1
    <3> QED BY <1>3, <3>2, <3>3, <3>4
  <2>4. ~(i \in 0..k) => ~(j \in 0..k) BY <1>4
  <2> QED BY <1>15, <2>1, <2>2, <2>3, <2>4
<1>20. \A i \in 1..Len(r) : /\ r[i] = AnyEnd => l[i] = l[i - 1]
                            /\ r[i] # AnyEnd => l[i] = l[i - 1] + 1 /\ xs[l[i]] = r[i].type
  <2> SUFFICES ASSUME NEW i \in 1..(k + m)
               PROVE  /\ r[i] = AnyEnd => l[i] = l[i - 1]
                      /\ r[i] # AnyEnd => l[i] = l[i - 1] + 1 /\ xs[l[i]] = r[i].type
    BY <1>4
  <2>1. CASE i \in 0..k
    <3>1. i \in 1..k /\ i - 1 \in 0..k BY <1>4, <2>1
    <3>2. r[i] = v[i] /\ l[i] = h[i] /\ l[i - 1] = h[i - 1] BY <1>4, <1>12, <2>1, <3>1
    <3>3. r[i] = AnyEnd => l[i] = l[i - 1] BY <1>6, <3>1, <3>2
    <3>4. ASSUME r[i] # AnyEnd PROVE l[i] = l[i - 1] + 1 /\ xs[l[i]] = r[i].type
      <4>1. h[i] = h[i - 1] + 1 /\ us[h[i]] = v[i].type BY <1>6, <3>1, <3>2, <3>4
      <4>2. h[i - 1] \in 0..q /\ h[i] \in 0..q BY <1>6, <2>1, <3>1
      <4>3. h[i] \in 1..q BY <1>3, <4>1, <4>2
      <4>4. xs[h[i]] = us[h[i]] BY <1>9, <4>3
      <4> QED BY <3>2, <4>1, <4>4
    <3> QED BY <3>3, <3>4
  <2>2. CASE i - k \in 1..m /\ i = k + (i - k)
    <3> DEFINE a == i - k
    <3>1. a \in 0..m /\ a \in 1..m /\ a - 1 \in 0..m /\ i = k + a /\ i - 1 = k + (a - 1) /\ (a - 1) + 1 = a
      BY <1>4, <2>2
    <3> HIDE DEF a
    <3>2. r[i] = s[a + 1] /\ l[i] = q + g[a + 1] - 1 /\ l[i - 1] = q + g[a] - 1
      BY <1>4, <1>13, <3>1
    <3>3. a + 1 \in 1..Len(s) /\ a \in 1..Len(s) /\ (a + 1) - 1 = a
      <4>1. (a - 1) + 1 \in 1..Len(s) BY <1>14, <3>1
      <4> QED BY <1>4, <1>14, <3>1, <4>1
    <3>4. g[a] \in 1..Len(ts) /\ g[a + 1] \in 1..Len(ts) BY <1>11, <3>3
    <3>5. r[i] = AnyEnd => l[i] = l[i - 1]
      <4>1. s[a + 1] = AnyEnd => g[a + 1] = g[a] BY <1>5, <3>3
      <4> QED BY <3>2, <4>1
    <3>6. ASSUME r[i] # AnyEnd PROVE l[i] = l[i - 1] + 1 /\ xs[l[i]] = r[i].type
      <4>1. g[a + 1] = g[a] + 1 /\ ts[g[a + 1]] = s[a + 1].type BY <1>5, <3>2, <3>3, <3>6
      <4> DEFINE b == g[a + 1] - 1
      <4>2. b \in 1..(Len(ts) - 1) /\ b + 1 = g[a + 1] /\ q + b = q + g[a + 1] - 1 BY <1>3, <3>4, <4>1
      <4> HIDE DEF b
      <4>3. xs[q + b] = ts[b + 1] BY <1>9, <4>2
      <4>4. l[i] = l[i - 1] + 1 BY <1>3, <3>2, <3>4, <4>1, SMTT(30)
      <4> QED BY <3>2, <4>1, <4>2, <4>3, <4>4
    <3> QED BY <3>5, <3>6
  <2>3. i \in 0..(k + m) BY <1>4
  <2> QED BY <1>15, <2>1, <2>2, <2>3
<1>21. Counts(l, r, xs) BY <1>17, <1>18, <1>19, <1>20 DEF Counts
<1> QED BY <1>9, <1>21 DEF Strips

\* The units, at position p of a wire u.
Reads(u, p, units) ==
  p + Len(units) <= Len(u) /\ \A i \in 1..Len(units) : u[p + i] = units[i]

\* Wherever the units are, and whatever was counted, they are taken for a value
\* of type t and leave values of types ts.
Carries(t, units, ts) ==
  \A u \in Seq(Nat), p, c \in Nat : Reads(u, p, units) => Takes(u, p, c, t, Len(units), ts)

LEMMA ReadsFacts ==
  ASSUME NEW units \in Seq(Nat), NEW u \in Seq(Nat), NEW p \in Nat, Reads(u, p, units)
  PROVE  /\ Len(units) \in Nat /\ Len(u) \in Nat /\ p + Len(units) <= Len(u)
         /\ Len(units) >= 1 => u[p + 1] = units[1] /\ p + 1 <= Len(u)
         /\ Len(units) >= 2 => u[p + 2] = units[2]
<1>1. Len(units) \in Nat /\ Len(u) \in Nat /\ p + Len(units) <= Len(u) BY DEF Reads
<1>2. \A i \in 1..Len(units) : u[p + i] = units[i] BY DEF Reads
<1>3. Len(units) >= 1 => 1 \in 1..Len(units) BY <1>1
<1>4. Len(units) >= 2 => 2 \in 1..Len(units) BY <1>1
<1> QED BY <1>1, <1>2, <1>3, <1>4

LEMMA ReadsJoin ==
  ASSUME NEW u \in Seq(Nat), NEW units \in Seq(Nat)
  PROVE  Reads(u \o units, Len(u), units)
<1>1. /\ Len(u \o units) = Len(u) + Len(units) /\ Len(u) \in Nat /\ Len(units) \in Nat
      /\ \A i \in 1..Len(units) : (u \o units)[Len(u) + i] = units[i]
  BY JoinFacts
<1> QED BY <1>1 DEF Reads

LEMMA ValueFacts ==
  ASSUME NEW t \in DOMAIN Types, NEW a, NEW k
  PROVE  Value(t, a, k).type = t /\ Value(t, a, k) # AnyEnd
<1>1. "anyEnd" \notin DOMAIN Types BY EtnCodecAssumption
<1>2. Value(t, a, k).type = t /\ AnyEnd.type = "anyEnd" BY DEF Value, AnyEnd
<1> QED BY <1>1, <1>2

\* The types of the elements and of the fields that are left to encode.
LEMMA ElementsStrip ==
  ASSUME NEW t \in DOMAIN Types, Types[t].elem \in DOMAIN Types, NEW a, NEW n \in Nat
  PROVE  /\ Strips(Elements(t, a, n), [i \in 1..n |-> Types[t].elem])
         /\ [i \in 1..n |-> Types[t].elem] \in Seq(DOMAIN Types)
<1> DEFINE e == Types[t].elem
           at(i) == At(a, (i - 1) * Types[e].size)
           s == [i \in 1..n |-> Value(e, at(i), FALSE)]
           ts == [i \in 1..n |-> e]
<1>1. Elements(t, a, n) = s BY DEF Elements
<1>2. e \in DOMAIN Types OBVIOUS
<1> HIDE DEF e, at
<1>3. Len(s) = n /\ \A i \in 1..n : s[i] = Value(e, at(i), FALSE) OBVIOUS
<1>4. ts \in [1..n -> DOMAIN Types] /\ \A i \in 1..n : ts[i] = e BY <1>2
<1> HIDE DEF s, ts
<1>5. ts \in Seq(DOMAIN Types) /\ Len(ts) = n BY <1>4, MadeFacts
<1>6. \A i \in 1..n : s[i] # AnyEnd /\ s[i].type = ts[i]
  <2> TAKE i \in 1..n
  <2>1. s[i] = Value(e, at(i), FALSE) /\ ts[i] = e BY <1>3, <1>4
  <2>2. Value(e, at(i), FALSE).type = e /\ Value(e, at(i), FALSE) # AnyEnd BY <1>2, ValueFacts
  <2> QED BY <2>1, <2>2
<1>7. Strips(s, ts) BY <1>3, <1>5, <1>6, StripsMade
<1> QED BY <1>1, <1>5, <1>7 DEF ts, e

LEMMA FieldsStrip ==
  ASSUME NEW t \in DOMAIN Types, Types[t].kind = "struct", NEW a
  PROVE  Strips(Fields(t, a), Types[t].fields) /\ Types[t].fields \in Seq(DOMAIN Types)
<1> DEFINE ts == Types[t].fields
           at(i) == At(a, Types[t].offsets[i])
           s == [i \in DOMAIN ts |-> Value(ts[i], at(i), FALSE)]
<1>1. Fields(t, a) = s BY DEF Fields
<1>2. ts \in Seq(DOMAIN Types) BY TypeFacts
<1> HIDE DEF ts, at
<1> DEFINE n == Len(ts)
<1>3. DOMAIN ts = 1..n /\ n \in Nat /\ \A i \in 1..n : ts[i] \in DOMAIN Types BY <1>2
<1> HIDE DEF n
<1>4. Len(s) = n /\ \A i \in 1..n : s[i] = Value(ts[i], at(i), FALSE) BY <1>3
<1> HIDE DEF s
<1>5. \A i \in 1..n : s[i] # AnyEnd /\ s[i].type = ts[i]
  <2> TAKE i \in 1..n
  <2>1. s[i] = Value(ts[i], at(i), FALSE) /\ ts[i] \in DOMAIN Types BY <1>3, <1>4
  <2>2. Value(ts[i], at(i), FALSE).type = ts[i] /\ Value(ts[i], at(i), FALSE) # AnyEnd
    BY <2>1, ValueFacts
  <2> QED BY <2>1, <2>2
<1>6. Len(ts) = n BY DEF n
<1>7. Strips(s, ts) BY <1>2, <1>3, <1>4, <1>5, <1>6, StripsMade
<1> QED BY <1>1, <1>2, <1>7 DEF ts

\* What the encoder writes for a value of each kind is taken for one.
LEMMA CarriesScalar ==
  ASSUME NEW t \in DOMAIN Types, Types[t].kind = "scalar", NEW x \in Nat
  PROVE  Carries(t, <<x>>, <<>>)
<1> DEFINE units == <<x>>
           ts == <<>>
<1>1. units \in Seq(Nat) /\ Len(units) = 1 /\ ts \in Seq(DOMAIN Types) OBVIOUS
<1> HIDE DEF units, ts
<1>2. ASSUME NEW u \in Seq(Nat), NEW p \in Nat, NEW c \in Nat, Reads(u, p, units)
      PROVE  Takes(u, p, c, t, Len(units), ts)
  <2>1. p + 1 <= Len(u) BY <1>1, <1>2, ReadsFacts
  <2> QED BY <1>1, <2>1 DEF Takes, ts
<1>3. Carries(t, units, ts) BY <1>2 DEF Carries
<1> QED BY <1>3 DEF units, ts

LEMMA CarriesTuple ==
  ASSUME NEW t \in DOMAIN Types, Types[t].kind \in {"string", "tuple"}, NEW len \in Nat,
         NEW units \in Seq(Nat), Len(units) >= 1, units[1] = len
  PROVE  /\ IsScalar(Types[t].elem) /\ Len(units) = 1 + len => Carries(t, units, <<>>)
         /\ ~IsScalar(Types[t].elem) /\ Len(units) = 1
              => Carries(t, units, [i \in 1..len |-> Types[t].elem])
<1> DEFINE none == <<>>
           ts == [i \in 1..len |-> Types[t].elem]
<1>1. none \in Seq(DOMAIN Types) OBVIOUS
<1>2. ts \in Seq(DOMAIN Types)
  <2>1. Types[t].elem \in DOMAIN Types BY TypeFacts
  <2>2. ts \in [1..len -> DOMAIN Types] BY <2>1
  <2> HIDE DEF ts
  <2> QED BY <2>2, MadeFacts
<1>3. \A v : v = none => v = <<>> OBVIOUS
<1> HIDE DEF none, ts
<1>4. ASSUME IsScalar(Types[t].elem), Len(units) = 1 + len PROVE Carries(t, units, none)
  <2>1. ASSUME NEW u \in Seq(Nat), NEW p \in Nat, NEW c \in Nat, Reads(u, p, units)
        PROVE  Takes(u, p, c, t, Len(units), none)
    <3>1. /\ Len(units) \in Nat /\ p + Len(units) <= Len(u) /\ u[p + 1] = len /\ p + 1 <= Len(u)
      BY <2>1, ReadsFacts
    <3>2. TakesTuple(u, p, t, Len(units), none) BY <1>3, <1>4, <3>1 DEF TakesTuple
    <3> QED BY <1>1, <3>1, <3>2 DEF Takes
  <2> QED BY <2>1 DEF Carries
<1>5. ASSUME ~IsScalar(Types[t].elem), Len(units) = 1 PROVE Carries(t, units, ts)
  <2>1. ASSUME NEW u \in Seq(Nat), NEW p \in Nat, NEW c \in Nat, Reads(u, p, units)
        PROVE  Takes(u, p, c, t, Len(units), ts)
    <3>1. /\ Len(units) \in Nat /\ p + Len(units) <= Len(u) /\ u[p + 1] = len /\ p + 1 <= Len(u)
      BY <2>1, ReadsFacts
    <3>2. TakesTuple(u, p, t, Len(units), ts) BY <1>5, <3>1 DEF TakesTuple, ts
    <3> QED BY <1>2, <3>1, <3>2 DEF Takes
  <2> QED BY <2>1 DEF Carries
<1> QED BY <1>4, <1>5 DEF none, ts

LEMMA CarriesArray ==
  ASSUME NEW t \in DOMAIN Types, Types[t].kind = "array", NEW units \in Seq(Nat)
  PROVE  /\ IsScalar(Types[t].elem) /\ Len(units) = Types[t].size => Carries(t, units, <<>>)
         /\ ~IsScalar(Types[t].elem) /\ Len(units) = 0
              => Carries(t, units, [i \in 1..Types[t].size |-> Types[t].elem])
<1> DEFINE none == <<>>
           ts == [i \in 1..Types[t].size |-> Types[t].elem]
<1>1. none \in Seq(DOMAIN Types) OBVIOUS
<1>2. ts \in Seq(DOMAIN Types)
  <2>1. Types[t].elem \in DOMAIN Types /\ Types[t].size \in Nat BY TypeFacts
  <2>2. ts \in [1..Types[t].size -> DOMAIN Types] BY <2>1
  <2> HIDE DEF ts
  <2> QED BY <2>1, <2>2, MadeFacts
<1>3. \A v : v = none => v = <<>> OBVIOUS
<1> HIDE DEF none, ts
<1>4. ASSUME IsScalar(Types[t].elem), Len(units) = Types[t].size PROVE Carries(t, units, none)
  <2>1. ASSUME NEW u \in Seq(Nat), NEW p \in Nat, NEW c \in Nat, Reads(u, p, units)
        PROVE  Takes(u, p, c, t, Len(units), none)
    <3>1. Len(units) \in Nat /\ p + Len(units) <= Len(u) BY <2>1, ReadsFacts
    <3>2. TakesArray(t, Len(units), none) BY <1>3, <1>4 DEF TakesArray
    <3> QED BY <1>1, <3>1, <3>2 DEF Takes
  <2> QED BY <2>1 DEF Carries
<1>5. ASSUME ~IsScalar(Types[t].elem), Len(units) = 0 PROVE Carries(t, units, ts)
  <2>1. ASSUME NEW u \in Seq(Nat), NEW p \in Nat, NEW c \in Nat, Reads(u, p, units)
        PROVE  Takes(u, p, c, t, Len(units), ts)
    <3>1. Len(units) \in Nat /\ p + Len(units) <= Len(u) BY <2>1, ReadsFacts
    <3>2. TakesArray(t, Len(units), ts) BY <1>5 DEF TakesArray, ts
    <3> QED BY <1>2, <3>1, <3>2 DEF Takes
  <2> QED BY <2>1 DEF Carries
<1> QED BY <1>4, <1>5 DEF none, ts

LEMMA CarriesStruct ==
  ASSUME NEW t \in DOMAIN Types, Types[t].kind = "struct", NEW units \in Seq(Nat), Len(units) = 0
  PROVE  Carries(t, units, Types[t].fields)
<1>1. Types[t].fields \in Seq(DOMAIN Types) BY TypeFacts
<1>2. ASSUME NEW u \in Seq(Nat), NEW p \in Nat, NEW c \in Nat, Reads(u, p, units)
      PROVE  Takes(u, p, c, t, Len(units), Types[t].fields)
  <2>1. p + Len(units) <= Len(u) BY <1>2, ReadsFacts
  <2> QED BY <1>1, <2>1 DEF Takes
<1> QED BY <1>2 DEF Carries

LEMMA CarriesPtr ==
  ASSUME NEW t \in DOMAIN Types, Types[t].kind = "ptr"
  PROVE  /\ Carries(t, <<PtrNil>>, <<>>) /\ Carries(t, <<PtrIndex, 0>>, <<>>)
         /\ Carries(t, <<PtrInline>>, <<Types[t].elem>>)
<1> DEFINE none == <<>>
           ts == <<Types[t].elem>>
           a == <<PtrNil>>
           b == <<PtrIndex, 0>>
           d == <<PtrInline>>
<1>1. none \in Seq(DOMAIN Types) /\ \A v : v = none => v = <<>> OBVIOUS
<1>2. ts \in Seq(DOMAIN Types)
  <2>1. Types[t].elem \in DOMAIN Types BY TypeFacts
  <2> QED BY <2>1
<1>3. a \in Seq(Nat) /\ Len(a) = 1 /\ Len(a) >= 1 /\ a[1] = PtrNil BY DEF PtrNil
<1>4. b \in Seq(Nat) /\ Len(b) = 2 /\ Len(b) >= 1 /\ Len(b) >= 2 /\ b[1] = PtrIndex /\ b[2] = 0 BY DEF PtrIndex
<1>5. d \in Seq(Nat) /\ Len(d) = 1 /\ Len(d) >= 1 /\ d[1] = PtrInline BY DEF PtrInline
<1>6. ts = <<Types[t].elem>> OBVIOUS
<1> HIDE DEF none, ts, a, b, d
<1>7. ASSUME NEW u \in Seq(Nat), NEW p \in Nat, NEW c \in Nat, Reads(u, p, a)
      PROVE  Takes(u, p, c, t, Len(a), none)
  <2>1. u[p + 1] = PtrNil /\ p + 1 <= Len(u) BY <1>3, <1>7, ReadsFacts
  <2>2. TakesPtr(u, p, c, t, 1, none) BY <1>1, <2>1 DEF TakesPtr
  <2> QED BY <1>1, <1>3, <2>1, <2>2 DEF Takes
<1>8. ASSUME NEW u \in Seq(Nat), NEW p \in Nat, NEW c \in Nat, Reads(u, p, b)
      PROVE  Takes(u, p, c, t, Len(b), none)
  <2>1. u[p + 1] = PtrIndex /\ u[p + 2] = 0 /\ p + 1 <= Len(u) /\ p + 2 <= Len(u)
    BY <1>4, <1>8, ReadsFacts
  <2>2. TakesPtr(u, p, c, t, 2, none) BY <1>1, <2>1 DEF TakesPtr
  <2> QED BY <1>1, <1>4, <2>1, <2>2 DEF Takes
<1>9. ASSUME NEW u \in Seq(Nat), NEW p \in Nat, NEW c \in Nat, Reads(u, p, d)
      PROVE  Takes(u, p, c, t, Len(d), ts)
  <2>1. u[p + 1] = PtrInline /\ p + 1 <= Len(u) BY <1>5, <1>9, ReadsFacts
  <2>2. TakesPtr(u, p, c, t, 1, ts) BY <1>6, <2>1 DEF TakesPtr
  <2> QED BY <1>2, <1>5, <2>1, <2>2 DEF Takes
<1>10. Carries(t, a, none) /\ Carries(t, b, none) /\ Carries(t, d, ts)
  BY <1>7, <1>8, <1>9 DEF Carries
<1> QED BY <1>10 DEF none, ts, a, b, d

LEMMA CarriesAny ==
  ASSUME NEW t \in DOMAIN Types, Types[t].kind = "any", NEW s \in DOMAIN Hashes
  PROVE  Carries(t, <<HashSize>> \o Hashes[s], <<s>>)
<1> DEFINE units == <<HashSize>> \o Hashes[s]
           ts == <<s>>
           one == <<HashSize>>
           h == Hashes[s]
<1>1. HashSize \in Nat /\ s \in DOMAIN Types /\ h \in Seq(Nat) /\ Len(h) = HashSize BY HashFacts
<1>2. ts \in Seq(DOMAIN Types) /\ ts = <<s>> BY <1>1
<1>3. one \in Seq(Nat) /\ Len(one) = 1 /\ one[1] = HashSize BY <1>1
<1>4. units = one \o h OBVIOUS
<1> HIDE DEF units, ts, one
<1>5. /\ units \in Seq(Nat) /\ Len(units) = 1 + HashSize /\ Len(units) >= 1
      /\ units[1] = HashSize /\ \A i \in 1..HashSize : units[1 + i] = h[i]
  <2> HIDE DEF h
  <2>1. /\ one \o h \in Seq(Nat) /\ Len(one \o h) = Len(one) + Len(h)
        /\ \A i \in 1..Len(one) : (one \o h)[i] = one[i]
        /\ \A i \in 1..Len(h) : (one \o h)[Len(one) + i] = h[i]
    <3>1. one \in Seq(Nat) /\ h \in Seq(Nat) BY <1>1, <1>3
    <3> QED BY <3>1, JoinFacts
  <2>2. 1 \in 1..Len(one) BY <1>3
  <2>3. (one \o h)[1] = HashSize BY <1>3, <2>1, <2>2
  <2>4. \A i \in 1..HashSize : (one \o h)[1 + i] = h[i] BY <1>1, <1>3, <2>1
  <2>5. Len(one \o h) = 1 + HashSize BY <1>1, <1>3, <2>1
  <2>6. 1 + HashSize >= 1 BY <1>1
  <2> QED BY <1>4, <2>1, <2>3, <2>4, <2>5, <2>6
<1>6. ASSUME NEW u \in Seq(Nat), NEW p \in Nat, NEW c \in Nat, Reads(u, p, units)
      PROVE  Takes(u, p, c, t, Len(units), ts)
  <2>1. u[p + 1] = HashSize /\ p + Len(units) <= Len(u) BY <1>1, <1>5, <1>6, ReadsFacts
  <2>2. HashAt(u, p, s)
    <3>1. \A i \in 1..HashSize : u[p + 1 + i] = h[i]
      <4> TAKE i \in 1..HashSize
      <4>1. 1 + i \in 1..Len(units) /\ p + (1 + i) = p + 1 + i BY <1>1, <1>5
      <4>2. u[p + (1 + i)] = units[1 + i] BY <1>6, <4>1 DEF Reads
      <4> QED BY <1>5, <4>1, <4>2
    <3> QED BY <3>1 DEF HashAt
  <2>3. TakesAny(u, p, 1 + HashSize, ts) BY <1>2, <2>1, <2>2 DEF TakesAny
  <2>4. 1 + HashSize \in Nat BY <1>1
  <2> QED BY <1>2, <1>5, <2>1, <2>3, <2>4 DEF Takes
<1>7. Carries(t, units, ts) BY <1>6 DEF Carries
<1> QED BY <1>7 DEF units, ts

\* A union and the number of one of its fields, a call and its method.
LEMMA CarriesOne ==
  ASSUME NEW t \in DOMAIN Types, NEW choices \in Seq(DOMAIN Types), NEW i \in DOMAIN choices,
         \/ Types[t].kind = "union" /\ choices = Types[t].fields
         \/ Types[t].kind = "iface" /\ choices = Types[t].methods
  PROVE  Carries(t, <<i - 1>>, <<choices[i]>>)
<1> DEFINE x == i - 1
           units == <<x>>
           ts == <<choices[i]>>
<1>1. x \in Nat /\ x < Len(choices) /\ x + 1 = i /\ choices[i] \in DOMAIN Types OBVIOUS
<1>2. ts \in Seq(DOMAIN Types) /\ ts = <<choices[i]>> BY <1>1
<1> HIDE DEF x
<1>3. units \in Seq(Nat) /\ Len(units) = 1 /\ Len(units) >= 1 /\ units[1] = x BY <1>1
<1> HIDE DEF units, ts
<1>4. ASSUME NEW u \in Seq(Nat), NEW p \in Nat, NEW c \in Nat, Reads(u, p, units)
      PROVE  Takes(u, p, c, t, Len(units), ts)
  <2>1. u[p + 1] = x /\ p + 1 <= Len(u) BY <1>3, <1>4, ReadsFacts
  <2>2. TakesOne(u, p, choices, 1, ts) BY <1>1, <1>2, <2>1 DEF TakesOne
  <2>3. CASE Types[t].kind = "union" /\ choices = Types[t].fields
    BY <1>2, <1>3, <2>1, <2>2, <2>3 DEF Takes
  <2>4. CASE Types[t].kind = "iface" /\ choices = Types[t].methods
    BY <1>2, <1>3, <2>1, <2>2, <2>4 DEF Takes
  <2> QED BY <2>3, <2>4
<1>5. Carries(t, units, ts) BY <1>4 DEF Carries
<1> QED BY <1>5 DEF units, ts, x

\* What the encoder recorded of the values it walked.
History(w) == [type : DOMAIN Types, addr : Address(w), count : Nat, units : Seq(Nat)]

Written(x) == Types[x.type].kind \in {"any", "union", "dict", "iface"} => x.units # <<>>
TopIndex(x) == Types[x.type].kind = "ptr" /\ x.units[1] = PtrIndex => x.units[2] = 0

AllWritten(h) == \A k \in DOMAIN h : Written(h[k])
AllTop(h) == \A k \in DOMAIN h : TopIndex(h[k])

LEMMA HistoryGrows ==
  ASSUME NEW S, NEW h \in Seq(S), NEW x \in S
  PROVE  /\ AllWritten(Append(h, x)) => AllWritten(h) /\ Written(x)
         /\ AllTop(Append(h, x)) => AllTop(h) /\ TopIndex(x)
<1> DEFINE g == Append(h, x)
<1>1. /\ DOMAIN h = 1..Len(h) /\ DOMAIN g = 1..Len(h) + 1 /\ Len(h) \in Nat
      /\ \A k \in 1..Len(h) : g[k] = h[k]
      /\ g[Len(h) + 1] = x
  OBVIOUS
<1> HIDE DEF g
<1>2. \A k \in 1..Len(h) : k \in 1..Len(h) + 1 BY <1>1
<1>3. Len(h) + 1 \in 1..Len(h) + 1 BY <1>1
<1>4. AllWritten(g) => AllWritten(h) /\ Written(x) BY <1>1, <1>2, <1>3 DEF AllWritten
<1>5. AllTop(g) => AllTop(h) /\ TopIndex(x) BY <1>1, <1>2, <1>3 DEF AllTop
<1> QED BY <1>4, <1>5 DEF g

LEMMA EntryType ==
  ASSUME NEW w \in Worlds, NEW v \in Item(w), v.type \in DOMAIN Types, NEW count \in Nat,
         NEW units \in Seq(Nat)
  PROVE  /\ Entry(v, count, units) \in History(w)
         /\ Entry(v, count, units).type = v.type /\ Entry(v, count, units).units = units
<1>1. v.addr \in Address(w) BY ItemFacts
<1> QED BY <1>1 DEF Entry, History

\* What the encoder writes for the value on top is taken for it, and leaves
\* what the encoder leaves.
Takable ==
  \E n, units, values, ts : /\ Good(n, units, values) /\ Strips(values, ts)
                            /\ Carries(Head(encoder.stack).type, units, ts)

LEMMA EncodeScalarTaken ==
  ASSUME world \in Worlds, EncoderInv(world, encoder), EncodeScalar
  PROVE  Takable
<1> DEFINE v == Head(encoder.stack)
           x == world.memory[v.addr]
           units == <<x>>
           none == <<>>
<1>1. Encoding({"scalar"}) BY DEF EncodeScalar
<1>2. v.type \in DOMAIN Types /\ Types[v.type].kind = "scalar" /\ Represents(world, v.type, v.addr)
  BY <1>1, EncodingTop
<1>3. x \in Nat BY <1>2 DEF Represents
<1>4. Encodes(1, units, none) BY DEF EncodeScalar
<1>5. Carries(v.type, units, none) BY <1>2, <1>3, CarriesScalar
<1>6. Strips(none, none) BY StripsEmpty
<1>7. Wellformed(1, units, none) BY <1>3, NoValues DEF Wellformed
<1> HIDE DEF units, none
<1> QED BY <1>4, <1>5, <1>6, <1>7 DEF Good, Takable

LEMMA EncodeTupleTaken ==
  ASSUME world \in Worlds, EncoderInv(world, encoder), EncodeTuple
  PROVE  Takable
<1> DEFINE v == Head(encoder.stack)
           t == v.type
           ref == world.memory[v.addr]
           len == ref.len
           one == <<len>>
           copy == [i \in 1..len |-> world.memory[At(ref.data, i - 1)]]
           none == <<>>
           inner == Elements(t, ref.data, len)
           ts == [i \in 1..len |-> Types[t].elem]
<1>1. Encoding({"string", "tuple"}) BY DEF EncodeTuple
<1>2. t \in DOMAIN Types /\ Types[t].kind \in {"string", "tuple"} /\ Represents(world, t, v.addr)
  BY <1>1, EncodingTop
<1>3. len \in Nat BY <1>2 DEF Represents
<1>4. one \in Seq(Nat) /\ Len(one) = 1 /\ Len(one) >= 1 /\ one[1] = len BY <1>3
<1>5. CASE IsScalar(Types[t].elem)
  <2>1. Scalars(world, ref.data, len) BY <1>2, <1>5 DEF Represents
  <2>2. copy \in Seq(Nat) /\ Len(copy) = len
    <3> DEFINE b == ref.data
    <3>1. Scalars(world, b, len) /\ copy = [i \in 1..len |-> world.memory[At(b, i - 1)]] BY <2>1
    <3> HIDE DEF b, len, copy
    <3> QED BY <1>3, <3>1, ScalarsType
  <2> DEFINE units == one \o copy
  <2>3. Encodes(1, units, none) BY <1>5 DEF EncodeTuple
  <2>4. none \in Seq(Item(world)) /\ Strips(none, none) BY NoValues, StripsEmpty
  <2> HIDE DEF one, copy, none
  <2>5. /\ units \in Seq(Nat) /\ Len(units) = 1 + len /\ Len(units) >= 1 /\ units[1] = len
    <3> HIDE DEF len
    <3>1. /\ one \o copy \in Seq(Nat) /\ Len(one \o copy) = Len(one) + Len(copy)
          /\ \A i \in 1..Len(one) : (one \o copy)[i] = one[i]
      BY <1>4, <2>2, JoinFacts
    <3>2. 1 \in 1..Len(one) BY <1>4
    <3>3. (one \o copy)[1] = len BY <1>4, <3>1, <3>2
    <3>4. Len(one \o copy) = 1 + len BY <1>4, <2>2, <3>1
    <3>5. 1 + len >= 1 BY <1>3
    <3> QED BY <3>1, <3>3, <3>4, <3>5
  <2> HIDE DEF units
  <2>6. Carries(t, units, none)
    <3> HIDE DEF len, t
    <3> QED BY <1>2, <1>3, <1>5, <2>5, CarriesTuple DEF none
  <2>7. Wellformed(1, units, none) BY <2>4, <2>5 DEF Wellformed
  <2> QED BY <2>3, <2>4, <2>6, <2>7 DEF Good, Takable
<1>6. CASE ~IsScalar(Types[t].elem)
  <2>1. InPlace(world, inner) BY <1>2, <1>6 DEF Represents
  <2>2. inner \in Seq(Item(world)) BY <2>1, <1>2, <1>3, ElementsPlaced
  <2>3. Encodes(1, one, inner) BY <1>6 DEF EncodeTuple
  <2>4. Types[t].elem \in DOMAIN Types BY <1>2, TypeFacts
  <2>5. Strips(inner, ts) BY <1>2, <1>3, <2>4, ElementsStrip
  <2> HIDE DEF one, inner
  <2>6. Carries(t, one, ts)
    <3> HIDE DEF len, t
    <3> QED BY <1>2, <1>3, <1>4, <1>6, CarriesTuple
  <2>7. Wellformed(1, one, inner) BY <1>4, <2>2 DEF Wellformed
  <2> HIDE DEF ts
  <2> QED BY <2>3, <2>5, <2>6, <2>7 DEF Good, Takable
<1> QED BY <1>5, <1>6

LEMMA EncodeArrayTaken ==
  ASSUME world \in Worlds, EncoderInv(world, encoder), EncodeArray
  PROVE  Takable
<1> DEFINE v == Head(encoder.stack)
           t == v.type
           size == Types[t].size
           copy == [i \in 1..size |-> world.memory[At(v.addr, i - 1)]]
           none == <<>>
           inner == Elements(t, v.addr, size)
           ts == [i \in 1..size |-> Types[t].elem]
<1>1. Encoding({"array"}) BY DEF EncodeArray
<1>2. t \in DOMAIN Types /\ Types[t].kind = "array" /\ Represents(world, t, v.addr)
  BY <1>1, EncodingTop
<1>3. size \in Nat BY <1>2, TypeFacts
<1>4. none \in Seq(Nat) /\ Len(none) = 0 OBVIOUS
<1>5. CASE IsScalar(Types[t].elem)
  <2>1. Scalars(world, v.addr, size) BY <1>2, <1>5 DEF Represents
  <2>2. copy \in Seq(Nat) /\ Len(copy) = size BY <2>1, <1>3, ScalarsType
  <2>3. Encodes(1, copy, none) BY <1>5 DEF EncodeArray
  <2>4. none \in Seq(Item(world)) /\ Strips(none, none) BY NoValues, StripsEmpty
  <2> HIDE DEF copy, none
  <2>5. Carries(t, copy, none)
    <3> HIDE DEF t
    <3> QED BY <1>2, <1>5, <2>2, CarriesArray DEF none
  <2>6. Wellformed(1, copy, none) BY <2>2, <2>4 DEF Wellformed
  <2> QED BY <2>3, <2>4, <2>5, <2>6 DEF Good, Takable
<1>6. CASE ~IsScalar(Types[t].elem)
  <2>1. InPlace(world, inner) BY <1>2, <1>6 DEF Represents
  <2>2. inner \in Seq(Item(world)) BY <2>1, <1>2, <1>3, ElementsPlaced
  <2>3. Encodes(1, none, inner) BY <1>6 DEF EncodeArray
  <2>4. Types[t].elem \in DOMAIN Types BY <1>2, TypeFacts
  <2>5. Strips(inner, ts) BY <1>2, <1>3, <2>4, ElementsStrip
  <2> HIDE DEF none, inner
  <2>6. Carries(t, none, ts)
    <3> HIDE DEF t
    <3> QED BY <1>2, <1>4, <1>6, CarriesArray
  <2>7. Wellformed(1, none, inner) BY <1>4, <2>2 DEF Wellformed
  <2> HIDE DEF ts
  <2> QED BY <2>3, <2>5, <2>6, <2>7 DEF Good, Takable
<1> QED BY <1>5, <1>6

LEMMA EncodeStructTaken ==
  ASSUME world \in Worlds, EncoderInv(world, encoder), EncodeStruct
  PROVE  Takable
<1> DEFINE v == Head(encoder.stack)
           t == v.type
           none == <<>>
           inner == Fields(t, v.addr)
           ts == Types[t].fields
<1>1. Encoding({"struct"}) BY DEF EncodeStruct
<1>2. t \in DOMAIN Types /\ Types[t].kind = "struct" /\ Represents(world, t, v.addr)
  BY <1>1, EncodingTop
<1>3. none \in Seq(Nat) /\ Len(none) = 0 OBVIOUS
<1>4. InPlace(world, inner) BY <1>2 DEF Represents
<1>5. inner \in Seq(Item(world)) BY <1>2, <1>4, FieldsPlaced
<1>6. Encodes(1, none, inner) BY DEF EncodeStruct
<1>7. Strips(inner, ts) BY <1>2, FieldsStrip
<1> HIDE DEF none, inner
<1>8. Carries(t, none, ts) BY <1>2, <1>3, CarriesStruct
<1>9. Wellformed(1, none, inner) BY <1>3, <1>5 DEF Wellformed
<1> QED BY <1>6, <1>7, <1>8, <1>9 DEF Good, Takable

\* A value that was encoded is recorded.
LEMMA EncodesRecorded ==
  ASSUME world \in Worlds, EncoderInv(world, encoder), encoded \in Seq(History(world)),
         NEW kinds, Encoding(kinds), NEW n, NEW units \in Seq(Nat), NEW values,
         Encodes(n, units, values)
  PROVE  LET kind == Types[Head(encoder.stack).type].kind
         IN  /\ encoded' \in Seq(History(world))
             /\ AllWritten(encoded') => /\ AllWritten(encoded)
                                        /\ kind \in {"any", "union", "dict", "iface"} => units # <<>>
             /\ AllTop(encoded') => /\ AllTop(encoded)
                                    /\ kind = "ptr" /\ units[1] = PtrIndex => units[2] = 0
<1> DEFINE v == Head(encoder.stack)
           x == Entry(v, encoder.index, units)
<1>1. v \in Item(world) /\ v.type \in DOMAIN Types BY EncodingTop
<1>2. encoder.index \in Nat BY DEF EncoderInv, EncoderType
<1> HIDE DEF v
<1>3. x \in History(world) /\ x.type = v.type /\ x.units = units BY <1>1, <1>2, EntryType
<1>4. encoded' = Append(encoded, x) BY DEF Encodes, v
<1> HIDE DEF x
<1>5. encoded' \in Seq(History(world)) BY <1>3, <1>4
<1>6. /\ AllWritten(encoded') => AllWritten(encoded) /\ Written(x)
      /\ AllTop(encoded') => AllTop(encoded) /\ TopIndex(x)
  BY <1>3, <1>4, HistoryGrows
<1>7. Written(x) => (Types[v.type].kind \in {"any", "union", "dict", "iface"} => units # <<>>)
  BY <1>3 DEF Written
<1>8. TopIndex(x) => (Types[v.type].kind = "ptr" /\ units[1] = PtrIndex => units[2] = 0)
  BY <1>3 DEF TopIndex
<1> QED BY <1>5, <1>6, <1>7, <1>8 DEF v

LEMMA EncodePtrTaken ==
  ASSUME world \in Worlds, EncoderInv(world, encoder), EncodePtr,
         encoded \in Seq(History(world)), AllTop(encoded')
  PROVE  Takable
<1> DEFINE v == Head(encoder.stack)
           t == v.type
           target == world.memory[v.addr]
           elem == Types[t].elem
           none == <<>>
<1>1. Encoding({"ptr"}) BY DEF EncodePtr
<1>2. v \in Item(world) /\ t \in DOMAIN Types /\ Types[t].kind = "ptr" /\ Represents(world, t, v.addr)
  BY <1>1, EncodingTop
<1>3. target = Nil \/ <<elem, target>> \in Places(world) BY <1>2 DEF Represents
<1>4. none \in Seq(Item(world)) /\ Strips(none, none) BY NoValues, StripsEmpty
<1>5. elem \in DOMAIN Types BY <1>2, TypeFacts
<1>6. CASE target = Nil /\ Encodes(2, <<PtrNil>>, <<>>)
  <2> DEFINE units == <<PtrNil>>
  <2>1. units \in Seq(Nat) BY DEF PtrNil
  <2>2. Carries(t, units, none) BY <1>2, CarriesPtr
  <2>3. Encodes(2, units, none) BY <1>6
  <2> HIDE DEF units, none
  <2>4. Wellformed(2, units, none) BY <1>4, <2>1 DEF Wellformed
  <2> QED BY <1>4, <2>2, <2>3, <2>4 DEF Good, Takable
<1>7. CASE Seen(v, target) /\ Encodes(2, <<PtrIndex, CountOf(v, target)>>, <<>>)
  <2> DEFINE count == CountOf(v, target)
             units == <<PtrIndex, count>>
             zero == <<PtrIndex, 0>>
  <2>1. count \in Nat BY <1>2, <1>7, RememberedFacts DEF Seen, CountOf
  <2>2. Encodes(2, units, none) BY <1>7
  <2> HIDE DEF count
  <2>3. units \in Seq(Nat) /\ units[1] = PtrIndex /\ units[2] = count BY <2>1 DEF PtrIndex
  <2>4. count = 0
    <3> HIDE DEF units, none
    <3> QED BY <1>1, <1>2, <2>2, <2>3, EncodesRecorded
  <2>5. units = zero BY <2>4
  <2>6. Carries(t, zero, none) BY <1>2, CarriesPtr
  <2> HIDE DEF units, none, zero
  <2>7. Wellformed(2, units, none) BY <1>4, <2>3 DEF Wellformed
  <2>8. Carries(t, units, none) BY <2>5, <2>6
  <2> QED BY <1>4, <2>2, <2>7, <2>8 DEF Good, Takable
<1>8. CASE target # Nil /\ Encodes(2, <<PtrInline>>, <<Value(elem, target, TRUE)>>)
  <2> DEFINE units == <<PtrInline>>
             inner == Value(elem, target, TRUE)
             values == <<inner>>
             ts == <<elem>>
  <2>1. units \in Seq(Nat) BY DEF PtrInline
  <2>2. Carries(t, units, ts) BY <1>2, CarriesPtr
  <2>3. Encodes(2, units, values) BY <1>8
  <2>4. inner \in Item(world) BY <1>3, <1>8, PlacedItem
  <2>5. inner.type = elem /\ inner # AnyEnd BY <1>5, ValueFacts
  <2> HIDE DEF inner, units
  <2>6. values \in Seq(Item(world)) BY <2>4, OneFacts
  <2>7. Strips(values, ts)
    <3> HIDE DEF elem
    <3> QED BY <1>5, <2>5, StripsOne
  <2> HIDE DEF values, ts
  <2>8. Wellformed(2, units, values) BY <2>1, <2>6 DEF Wellformed
  <2> QED BY <2>2, <2>3, <2>7, <2>8 DEF Good, Takable
<1> QED BY <1>6, <1>7, <1>8 DEF EncodePtr

LEMMA EncodeAnyTaken ==
  ASSUME world \in Worlds, EncoderInv(world, encoder), EncodeAny,
         encoded \in Seq(History(world)), AllWritten(encoded')
  PROVE  Takable
<1> DEFINE v == Head(encoder.stack)
           t == v.type
           held == world.memory[v.addr]
           s == held.type
           inner == Value(s, held.data, TRUE)
           none == <<>>
<1>1. Encoding({"any"}) BY DEF EncodeAny
<1>2. t \in DOMAIN Types /\ Types[t].kind = "any" /\ Represents(world, t, v.addr)
  BY <1>1, EncodingTop
<1>3. CASE s \in DOMAIN Hashes
  <2> DEFINE units == <<HashSize>> \o Hashes[s]
             values == <<inner, AnyEnd>>
             ts == <<s>>
  <2>1. <<s, held.data>> \in Places(world) BY <1>2, <1>3 DEF Represents
  <2>2. inner \in Item(world) /\ AnyEnd \in Item(world)
    <3>1. inner \in Item(world) BY <2>1, PlacedItem
    <3>2. AnyEnd \in Item(world) BY DEF Item
    <3> QED BY <3>1, <3>2
  <2>3. s \in DOMAIN Types /\ HashSize \in Nat /\ Hashes[s] \in Seq(Nat) BY <1>3, HashFacts
  <2>4. inner.type = s /\ inner # AnyEnd BY <2>3, ValueFacts
  <2>5. Encodes(2, units, values) BY <1>3 DEF EncodeAny
  <2> HIDE DEF inner
  <2>6. values \in Seq(Item(world)) BY <2>2
  <2>7. units \in Seq(Nat)
    <3>1. <<HashSize>> \in Seq(Nat) BY <2>3
    <3> QED BY <2>3, <3>1, JoinFacts
  <2>8. Strips(values, ts)
    <3> HIDE DEF s
    <3> QED BY <2>3, <2>4, StripsOne
  <2>9. Carries(t, units, ts)
    <3> HIDE DEF s, t
    <3> QED BY <1>2, <1>3, CarriesAny
  <2> HIDE DEF units, values, ts
  <2>10. Wellformed(2, units, values) BY <2>6, <2>7 DEF Wellformed
  <2> QED BY <2>5, <2>8, <2>9, <2>10 DEF Good, Takable
<1>4. CASE s \notin DOMAIN Hashes
  <2>1. Encodes(1, none, none) BY <1>4 DEF EncodeAny
  <2>2. none \in Seq(Nat) /\ none = <<>> OBVIOUS
  <2> HIDE DEF none
  <2> QED BY <1>1, <1>2, <2>1, <2>2, EncodesRecorded
<1> QED BY <1>3, <1>4

LEMMA EncodeUnionTaken ==
  ASSUME world \in Worlds, EncoderInv(world, encoder), EncodeUnion
  PROVE  Takable
<1> DEFINE v == Head(encoder.stack)
           t == v.type
           held == world.memory[v.addr]
           s == held.type
           inner == Value(s, held.data, v.keep)
           fields == Types[t].fields
<1>1. Encoding({"union"}) BY DEF EncodeUnion
<1>2. t \in DOMAIN Types /\ Types[t].kind = "union" /\ Represents(world, t, v.addr)
      /\ v.keep \in BOOLEAN
  BY <1>1, EncodingTop
<1>3. PICK i \in Choices(t, s) : Encodes(2, <<i - 1>>, <<inner>>)
  BY DEF EncodeUnion
<1> DEFINE units == <<i - 1>>
           values == <<inner>>
           ts == <<fields[i]>>
<1>4. <<s, held.data>> \in Places(world) BY <1>2, <1>3 DEF Represents
<1>5. inner \in Item(world)
  <2> HIDE DEF v, held
  <2> QED BY <1>2, <1>4, PlacedItem
<1>6. fields \in Seq(DOMAIN Types) BY <1>2, TypeFacts
<1>7. i \in DOMAIN fields /\ fields[i] = s BY DEF Choices
<1>8. s \in DOMAIN Types /\ i - 1 \in Nat
  <2> HIDE DEF fields, s
  <2> QED BY <1>6, <1>7
<1>9. inner.type = s /\ inner # AnyEnd
  <2> HIDE DEF v, s
  <2> QED BY <1>8, ValueFacts
<1>10. Encodes(2, units, values) BY <1>3
<1> HIDE DEF inner
<1>11. values \in Seq(Item(world)) BY <1>5, OneFacts
<1>12. Carries(t, units, ts)
  <2>1. fields = Types[t].fields OBVIOUS
  <2> HIDE DEF t, fields
  <2> QED BY <1>2, <1>6, <1>7, <2>1, CarriesOne
<1>13. Strips(values, ts)
  <2> HIDE DEF s, fields
  <2> QED BY <1>7, <1>8, <1>9, StripsOne
<1>14. units \in Seq(Nat) BY <1>8
<1> HIDE DEF units, values, ts
<1>15. Wellformed(2, units, values) BY <1>11, <1>14 DEF Wellformed
<1> QED BY <1>10, <1>12, <1>13, <1>15 DEF Good, Takable

LEMMA EncodeFailRecorded ==
  ASSUME world \in Worlds, EncoderInv(world, encoder), encoded \in Seq(History(world)), EncodeFail
  PROVE  /\ encoded' \in Seq(History(world)) /\ ~AllWritten(encoded')
         /\ AllTop(encoded') => AllTop(encoded)
<1> DEFINE v == Head(encoder.stack)
           none == <<>>
           x == Entry(v, encoder.index, none)
<1>1. Encoding({"union", "dict", "iface"}) BY DEF EncodeFail, Encoding
<1>2. v \in Item(world) /\ v.type \in DOMAIN Types /\ Types[v.type].kind \in {"union", "dict", "iface"}
  BY <1>1, EncodingTop
<1>3. encoder.index \in Nat BY DEF EncoderInv, EncoderType
<1>4. none \in Seq(Nat) /\ none = <<>> OBVIOUS
<1>5. encoded' = Append(encoded, x) BY DEF EncodeFail
<1> HIDE DEF v, none
<1>6. x \in History(world) /\ x.type = v.type /\ x.units = none BY <1>2, <1>3, <1>4, EntryType, ZenonT(60)
<1> HIDE DEF x
<1>7. encoded' \in Seq(History(world)) BY <1>5, <1>6
<1>8. AllWritten(encoded') => Written(x) BY <1>5, <1>6, HistoryGrows
<1>9. ~Written(x) BY <1>2, <1>4, <1>6 DEF Written
<1>10. AllTop(encoded') => AllTop(encoded) BY <1>5, <1>6, HistoryGrows
<1> QED BY <1>7, <1>8, <1>9, <1>10

\* Every step of the encoder, once nothing was given up.
LEMMA EncodeForm ==
  ASSUME world \in Worlds, EncoderInv(world, encoder), encoded \in Seq(History(world)), Encode
  PROVE  /\ encoded' \in Seq(History(world)) /\ encoder.stack \in Seq(Item(world))
         /\ AllWritten(encoded') => AllWritten(encoded)
         /\ AllTop(encoded') => AllTop(encoded)
         /\ AllWritten(encoded') /\ AllTop(encoded') =>
              \/ EncodeStart \/ EncodeAnyEnd \/ EncodeEnd
              \/ Takable /\ Encoding(Kinds) /\ (Encoding({"scalar"}) => EncodeScalar)
<1>0. encoder.stack \in Seq(Item(world)) BY DEF EncoderInv, EncoderType
<1>1. CASE EncodeStart \/ EncodeAnyEnd \/ EncodeEnd
  <2>1. encoded' = encoded BY <1>1 DEF EncodeStart, EncodeAnyEnd, EncodeEnd
  <2> QED BY <1>0, <1>1, <2>1
<1>2. CASE EncodeFail BY <1>0, <1>2, EncodeFailRecorded
<1>3. ASSUME Encoding(Kinds), \E n, units, values : Good(n, units, values)
      PROVE  /\ encoded' \in Seq(History(world))
             /\ AllWritten(encoded') => AllWritten(encoded)
             /\ AllTop(encoded') => AllTop(encoded)
  <2>1. PICK n, units, values : Good(n, units, values) BY <1>3
  <2>2. units \in Seq(Nat) /\ Encodes(n, units, values) BY <2>1 DEF Good, Wellformed
  <2> QED BY <1>3, <2>2, EncodesRecorded
<1>4. CASE EncodeScalar
  <2>1. Encoding(Kinds) BY <1>4 DEF EncodeScalar, Encoding, Kinds
  <2> QED BY <1>0, <1>3, <1>4, <2>1, EncodeScalarForm, EncodeScalarTaken
<1>5. CASE EncodeTuple
  <2>1. Encoding(Kinds) /\ ~Encoding({"scalar"}) BY <1>5 DEF EncodeTuple, Encoding, Kinds
  <2> QED BY <1>0, <1>3, <1>5, <2>1, EncodeTupleForm, EncodeTupleTaken
<1>6. CASE EncodeArray
  <2>1. Encoding(Kinds) /\ ~Encoding({"scalar"}) BY <1>6 DEF EncodeArray, Encoding, Kinds
  <2> QED BY <1>0, <1>3, <1>6, <2>1, EncodeArrayForm, EncodeArrayTaken
<1>7. CASE EncodeStruct
  <2>1. Encoding(Kinds) /\ ~Encoding({"scalar"}) BY <1>7 DEF EncodeStruct, Encoding, Kinds
  <2> QED BY <1>0, <1>3, <1>7, <2>1, EncodeStructForm, EncodeStructTaken
<1>8. CASE EncodePtr
  <2>1. Encoding(Kinds) /\ ~Encoding({"scalar"}) BY <1>8 DEF EncodePtr, Encoding, Kinds
  <2> QED BY <1>0, <1>3, <1>8, <2>1, EncodePtrForm, EncodePtrTaken
<1>9. CASE EncodeAny
  <2>1. Encoding(Kinds) /\ ~Encoding({"scalar"}) BY <1>9 DEF EncodeAny, Encoding, Kinds
  <2> QED BY <1>0, <1>3, <1>9, <2>1, EncodeAnyForm, EncodeAnyTaken
<1>10. CASE EncodeUnion
  <2>1. Encoding(Kinds) /\ ~Encoding({"scalar"}) BY <1>10 DEF EncodeUnion, Encoding, Kinds
  <2> QED BY <1>0, <1>3, <1>10, <2>1, EncodeUnionForm, EncodeUnionTaken
<1> QED BY <1>1, <1>2, <1>4, <1>5, <1>6, <1>7, <1>8, <1>9, <1>10 DEF Encode

\* Where the verifier will be when it has read what is written: before the
\* value, before a call, behind a call, or where the encoder is.
AtStart(c) == encoder.turn = 1 /\ encoder.stack = <<>> /\ c = Start

AtCall(c) ==
  /\ IsCall /\ encoder.turn = 2 /\ c = Start
  /\ encoder.stack = <<Value(world.values[1].type, world.values[1].addr, FALSE)>>

AtArguments(c) ==
  IsCall /\ encoder.turn = 2 /\ encoder.stack = <<>> /\ c.stack = <<world.values[2].type>>

AtValues(c) ==
  encoder.turn # 1 /\ ~(IsCall /\ encoder.turn = 2) /\ Strips(encoder.stack, c.stack)

Standing(c) == AtStart(c) \/ AtCall(c) \/ AtArguments(c) \/ AtValues(c)

Stands == \E V, c : Trail(V, wire, c) /\ c.pos = Len(wire) /\ Standing(c)

LEMMA TrailThen ==
  ASSUME NEW V, NEW u, NEW c, Trail(V, u, c), world' = world, wire' = u
  PROVE  Trail(V, wire, c)'
BY DEF Trail, Start

LEMMA SendsFacts ==
  ASSUME world \in Worlds
  PROVE  /\ \A i \in 1..Len(world.values) : world.values[i].type \in DOMAIN Types
         /\ ~IsCall => Len(world.values) = 1 /\ world.values[1].type = world.type
         /\ IsCall => /\ Len(world.values) = 2 /\ world.values[1].type = CallId
                      /\ \E call \in DOMAIN Types[world.type].methods :
                            /\ world.memory[world.values[1].addr] = call - 1
                            /\ world.values[2].type = Types[world.type].methods[call]
<1> DEFINE S == {[type |-> p[1], addr |-> p[2]] : p \in Places(world)}
<1>1. Sends(world) /\ world.values \in Seq(S) /\ \A p \in Places(world) : p[1] \in DOMAIN Types
  BY WorldFacts
<1>2. \A x \in S : x.type \in DOMAIN Types BY <1>1
<1>3. \A i \in 1..Len(world.values) : world.values[i] \in S
  <2> HIDE DEF S
  <2> QED BY <1>1
<1> HIDE DEF S
<1> QED BY <1>1, <1>2, <1>3 DEF Sends, IsCall

LEMMA EncodeStartStands ==
  ASSUME world \in Worlds, EncoderInv(world, encoder), Stands, EncodeStart
  PROVE  Stands'
<1>1. PICK V, c : Trail(V, wire, c) /\ c.pos = Len(wire) /\ Standing(c) BY DEF Stands
<1> DEFINE v == world.values[encoder.turn]
           item == Value(v.type, v.addr, FALSE)
<1>2. encoder \in EncoderType(world) BY DEF EncoderInv
<1>3. encoder.turn \in Nat \ {0} /\ encoder.turn <= Len(world.values) /\ encoder.stack = <<>>
      /\ wire' = wire /\ world' = world
  BY <1>2 DEF EncoderType, EncodeStart
<1>4. encoder'.stack = <<item>> /\ encoder'.turn = encoder.turn + 1
  BY <1>2 DEF EncoderType, EncodeStart
<1>5. IsCall' = IsCall BY <1>3 DEF IsCall
<1>6. Start \in Config /\ Start.stack = <<world.type>> BY StartConfig
<1>7. Standing(c)'
  <2>1. CASE IsCall /\ encoder.turn = 1
    <3>1. c = Start BY <1>1, <2>1 DEF Standing, AtStart, AtCall, AtArguments, AtValues
    <3>2. Start' = Start BY <1>3 DEF Start
    <3>3. encoder'.turn = 2 /\ encoder'.stack = <<Value(world.values[1].type, world.values[1].addr, FALSE)>>
      BY <1>4, <2>1
    <3>4. AtCall(c)' BY <1>3, <1>5, <2>1, <3>1, <3>2, <3>3 DEF AtCall
    <3> QED BY <3>4 DEF Standing
  <2>2. CASE IsCall /\ encoder.turn # 1
    <3>1. Len(world.values) = 2 BY <2>2, SendsFacts
    <3>2. encoder.turn = 2 BY <1>3, <2>2, <3>1
    <3>3. c.stack = <<world.values[2].type>>
      BY <1>1, <1>3, <2>2, <3>2 DEF Standing, AtStart, AtCall, AtArguments, AtValues
    <3>4. 2 \in 1..Len(world.values) BY <3>1
    <3>5. v.type \in DOMAIN Types /\ c.stack = <<v.type>> BY <3>2, <3>3, <3>4, SendsFacts
    <3>6. item.type = v.type /\ item # AnyEnd BY <3>5, ValueFacts
    <3> DEFINE s == <<item>>
               ts == <<v.type>>
    <3>7. Strips(s, ts)
      <4> HIDE DEF item, v
      <4> QED BY <3>5, <3>6, StripsOne
    <3>8. encoder'.stack = s /\ c.stack = ts BY <1>4, <3>5
    <3>9. encoder'.turn = 3 BY <1>4, <3>2
    <3> HIDE DEF s, ts
    <3>10. AtValues(c)' BY <1>5, <3>7, <3>8, <3>9 DEF AtValues
    <3> QED BY <3>10 DEF Standing
  <2>3. CASE ~IsCall
    <3>1. Len(world.values) = 1 /\ world.values[1].type = world.type BY <2>3, SendsFacts
    <3>2. encoder.turn = 1 BY <1>3, <3>1
    <3>3. c = Start BY <1>1, <3>2 DEF Standing, AtStart, AtCall, AtArguments, AtValues
    <3>4. 1 \in 1..Len(world.values) BY <3>1
    <3>5. v.type \in DOMAIN Types /\ c.stack = <<v.type>> BY <1>6, <3>1, <3>2, <3>3, <3>4, SendsFacts
    <3>6. item.type = v.type /\ item # AnyEnd BY <3>5, ValueFacts
    <3> DEFINE s == <<item>>
               ts == <<v.type>>
    <3>7. Strips(s, ts)
      <4> HIDE DEF item, v
      <4> QED BY <3>5, <3>6, StripsOne
    <3>8. encoder'.stack = s /\ c.stack = ts BY <1>4, <3>5
    <3>9. encoder'.turn = 2 BY <1>4, <3>2
    <3> HIDE DEF s, ts
    <3>10. AtValues(c)' BY <1>5, <2>3, <3>7, <3>8, <3>9 DEF AtValues
    <3> QED BY <3>10 DEF Standing
  <2> QED BY <2>1, <2>2, <2>3
<1>8. Trail(V, wire, c)' BY <1>1, <1>3, TrailThen
<1> QED BY <1>1, <1>3, <1>7, <1>8 DEF Stands

LEMMA EncodeAnyEndStands ==
  ASSUME world \in Worlds, EncoderInv(world, encoder), Stands, EncodeAnyEnd
  PROVE  Stands'
<1>1. PICK V, c : Trail(V, wire, c) /\ c.pos = Len(wire) /\ Standing(c) BY DEF Stands
<1>2. encoder \in EncoderType(world) /\ encoder.stack \in Seq(Item(world)) BY DEF EncoderInv, EncoderType
<1>3. encoder.stack # <<>> /\ Head(encoder.stack) = AnyEnd /\ wire' = wire /\ world' = world
      /\ encoder' = [encoder EXCEPT !.stack = Tail(encoder.stack)]
  BY DEF EncodeAnyEnd
<1>4. encoder'.stack = Tail(encoder.stack) /\ encoder'.turn = encoder.turn BY <1>2, <1>3 DEF EncoderType
<1>5. IsCall' = IsCall BY <1>3 DEF IsCall
<1>6. ~AtCall(c)
  <2> SUFFICES ASSUME AtCall(c) PROVE FALSE OBVIOUS
  <2> DEFINE t == world.values[1].type
             item == Value(t, world.values[1].addr, FALSE)
  <2>1. encoder.stack = <<item>> BY DEF AtCall
  <2>2. t \in DOMAIN Types
    <3>1. IsCall BY DEF AtCall
    <3>2. Len(world.values) = 2 BY <3>1, SendsFacts
    <3>3. 1 \in 1..Len(world.values) BY <3>2
    <3> QED BY <3>3, SendsFacts
  <2>3. item # AnyEnd BY <2>2, ValueFacts
  <2> HIDE DEF item
  <2> QED BY <1>3, <2>1, <2>3
<1>7. AtValues(c) BY <1>1, <1>3, <1>6 DEF Standing, AtStart, AtArguments
<1>8. Strips(Tail(encoder.stack), c.stack) BY <1>2, <1>3, <1>7, StripsPop DEF AtValues
<1>9. AtValues(c)' BY <1>4, <1>5, <1>7, <1>8 DEF AtValues
<1>10. Trail(V, wire, c)' BY <1>1, <1>3, TrailThen
<1> QED BY <1>1, <1>3, <1>9, <1>10 DEF Stands, Standing

\* Once everything is encoded, the verifier will be at the end of the wire.
LEMMA EncodeEndStands ==
  ASSUME world \in Worlds, EncoderInv(world, encoder), Stands, EncodeEnd, encoder.ok
  PROVE  \E V, last : Trail(V, wire, last) /\ last.stack = <<>> /\ last.pos = Len(wire)
<1>1. PICK V, c : Trail(V, wire, c) /\ c.pos = Len(wire) /\ Standing(c) BY DEF Stands
<1>2. encoder.turn \in Nat \ {0} BY DEF EncoderInv, EncoderType
<1>3. encoder.stack = <<>> /\ encoder.turn > Len(world.values) BY DEF EncodeEnd
<1>4. encoder.turn # 1 /\ ~(IsCall /\ encoder.turn = 2) BY <1>2, <1>3, SendsFacts
<1>5. Strips(encoder.stack, c.stack) BY <1>1, <1>4 DEF Standing, AtStart, AtCall, AtArguments, AtValues
<1>6. c.stack = <<>> BY <1>3, <1>5, StripsEmpty
<1> QED BY <1>1, <1>6

\* What the trail takes next is what was written last.
Arrives(u, stack) == \E V, d : Trail(V, u, d) /\ d.pos = Len(u) /\ d.stack = stack

LEMMA WrittenTaken ==
  ASSUME NEW V, NEW u \in Seq(Nat), NEW c, Trail(V, u, c), c.pos = Len(u), c.stack # <<>>,
         NEW units \in Seq(Nat), NEW ts, Carries(Head(c.stack), units, ts)
  PROVE  Arrives(u \o units, ts \o Tail(c.stack))
<1> DEFINE x == u \o units
           n == Len(units)
           d == After(c, n, ts)
<1>1. c \in Config BY DEF Trail
<1>2. c.stack \in Seq(DOMAIN Types) /\ c.count \in Nat /\ c.pos \in Nat BY <1>1 DEF Config
<1>3. x \in Seq(Nat) /\ Len(x) = Len(u) + n /\ n \in Nat BY JoinFacts
<1>4. Reads(x, Len(u), units) BY ReadsJoin
<1>5. Trail(V, x, c) BY TrailMore
<1> HIDE DEF x
<1>6. Takes(x, c.pos, c.count, Head(c.stack), n, ts) BY <1>2, <1>3, <1>4 DEF Carries
<1>7. ts \in Seq(DOMAIN Types) BY <1>6 DEF Takes
<1>8. Trail(V \cup {d}, x, d) BY <1>5, <1>6, TrailGrows
<1>9. d.stack = ts \o Tail(c.stack) /\ d.pos = Len(x)
  <2>1. d.stack = ts \o Tail(c.stack) /\ d.pos = c.pos + n BY <1>1, <1>3, <1>7, AfterConfig
  <2> QED BY <1>3, <2>1
<1> HIDE DEF d
<1>10. Arrives(x, ts \o Tail(c.stack)) BY <1>8, <1>9 DEF Arrives
<1> QED BY <1>10 DEF x

\* The number of the method that is called.
LEMMA EncodeCallStands ==
  ASSUME world \in Worlds, EncoderInv(world, encoder), WireInv(wire, Room), EncodeScalar,
         NEW V, NEW c, Trail(V, wire, c), c.pos = Len(wire), AtCall(c)
  PROVE  Stands'
<1> DEFINE v == world.values[1]
           methods == Types[world.type].methods
<1>1. IsCall /\ encoder.turn = 2 /\ c = Start /\ encoder.stack = <<Value(v.type, v.addr, FALSE)>>
  BY DEF AtCall
<1>2. PICK call \in DOMAIN methods :
        world.memory[v.addr] = call - 1 /\ world.values[2].type = methods[call]
  BY <1>1, SendsFacts
<1> DEFINE units == <<call - 1>>
           ts == <<methods[call]>>
           none == <<>>
<1>3. Head(encoder.stack).addr = v.addr /\ Tail(encoder.stack) = none BY <1>1 DEF Value
<1>4. Encodes(1, units, none) BY <1>2, <1>3 DEF EncodeScalar
<1>5. c.stack = <<world.type>> /\ c.stack # <<>> /\ Head(c.stack) = world.type /\ Tail(c.stack) = none
  <2>1. c.stack = <<world.type>> BY <1>1, StartConfig
  <2> QED BY <2>1
<1>6. world.type \in DOMAIN Types /\ Types[world.type].kind = "iface" /\ methods \in Seq(DOMAIN Types)
  <2>1. world.type \in DOMAIN Types BY WorldFacts
  <2> QED BY <1>1, <2>1, TypeFacts DEF IsCall
<1>7. Carries(world.type, units, ts)
  <2>1. methods = Types[world.type].methods OBVIOUS
  <2> HIDE DEF methods
  <2> QED BY <1>6, <2>1, CarriesOne
<1>8. units \in Seq(Nat)
  <2> HIDE DEF methods
  <2>1. call - 1 \in Nat BY <1>6
  <2> QED BY <2>1
<1>9. wire \in Seq(Nat) BY DEF WireInv
<1>10. ts \o none = ts /\ none \o none = none /\ ts = <<world.values[2].type>> BY <1>2
<1> HIDE DEF units, ts, none
<1>11. PICK W, d : Trail(W, wire \o units, d) /\ d.pos = Len(wire \o units) /\ d.stack = ts \o none
  <2>1. Carries(Head(c.stack), units, ts) BY <1>5, <1>7
  <2>2. Arrives(wire \o units, ts \o Tail(c.stack)) BY <1>5, <1>8, <1>9, <2>1, WrittenTaken
  <2>3. Arrives(wire \o units, ts \o none) BY <1>5, <2>2
  <2> QED BY <2>3 DEF Arrives
<1>12. encoder \in EncoderType(world) BY DEF EncoderInv
<1>13. wire' = wire \o units /\ world' = world
       /\ encoder' = [encoder EXCEPT !.stack = none \o Tail(encoder.stack),
                                     !.index = encoder.index + 1, !.known = Remembered(Head(encoder.stack))]
  BY <1>4 DEF Encodes
<1>14. encoder'.stack = none /\ encoder'.turn = encoder.turn
  BY <1>3, <1>10, <1>12, <1>13 DEF EncoderType
<1>15. IsCall' = IsCall BY <1>13 DEF IsCall
<1>16. AtArguments(d)' BY <1>1, <1>10, <1>11, <1>13, <1>14, <1>15 DEF AtArguments, none
<1>17. Trail(W, wire, d)' BY <1>11, <1>13, TrailThen
<1>18. d.pos = Len(wire') BY <1>11, <1>13
<1> QED BY <1>16, <1>17, <1>18 DEF Stands, Standing

LEMMA EncodeValueStands ==
  ASSUME world \in Worlds, EncoderInv(world, encoder), WireInv(wire, Room), Takable, Encoding(Kinds),
         NEW V, NEW c, Trail(V, wire, c), c.pos = Len(wire), AtValues(c)
  PROVE  Stands'
<1>1. PICK n, units, values, ts : /\ Good(n, units, values) /\ Strips(values, ts)
                                  /\ Carries(Head(encoder.stack).type, units, ts)
  BY DEF Takable
<1>2. units \in Seq(Nat) /\ values \in Seq(Item(world)) /\ Encodes(n, units, values)
  BY <1>1 DEF Good, Wellformed
<1>3. encoder \in EncoderType(world) /\ encoder.stack \in Seq(Item(world)) BY DEF EncoderInv, EncoderType
<1>4. encoder.stack # <<>> /\ Head(encoder.stack) # AnyEnd BY DEF Encoding
<1>5. encoder.turn # 1 /\ ~(IsCall /\ encoder.turn = 2) /\ Strips(encoder.stack, c.stack) BY DEF AtValues
<1>6. /\ Strips(values \o Tail(encoder.stack), ts \o Tail(c.stack))
      /\ c.stack # <<>> /\ Head(c.stack) = Head(encoder.stack).type
  BY <1>1, <1>2, <1>3, <1>4, <1>5, StripsPush
<1>7. wire \in Seq(Nat) BY DEF WireInv
<1>8. Carries(Head(c.stack), units, ts) BY <1>1, <1>6
<1>9. PICK W, d : Trail(W, wire \o units, d) /\ d.pos = Len(wire \o units)
                  /\ d.stack = ts \o Tail(c.stack)
  <2>1. Arrives(wire \o units, ts \o Tail(c.stack)) BY <1>2, <1>6, <1>7, <1>8, WrittenTaken
  <2> QED BY <2>1 DEF Arrives
<1>10. wire' = wire \o units /\ world' = world
       /\ encoder' = [encoder EXCEPT !.stack = values \o Tail(encoder.stack),
                                     !.index = encoder.index + n, !.known = Remembered(Head(encoder.stack))]
  BY <1>2 DEF Encodes
<1>11. encoder'.stack = values \o Tail(encoder.stack) /\ encoder'.turn = encoder.turn
  BY <1>3, <1>10 DEF EncoderType
<1>12. IsCall' = IsCall BY <1>10 DEF IsCall
<1>13. AtValues(d)' BY <1>5, <1>6, <1>9, <1>11, <1>12 DEF AtValues
<1>14. Trail(W, wire, d)' BY <1>9, <1>10, TrailThen
<1>15. d.pos = Len(wire') BY <1>9, <1>10
<1> QED BY <1>13, <1>14, <1>15 DEF Stands, Standing

-----------------------------------------------------------------------------
(* What the encoder wrote is verified.                                     *)

\* The verifier, before its end, is on the trail.
Reached ==
  \E V, last : /\ Trail(V, wire, last) /\ last.stack = <<>> /\ last.pos = Len(wire)
               /\ verifier.result = "none" => ConfigOf(verifier) \in V

EncodedInv ==
  /\ encoded \in Seq(History(world))
  /\ Complete /\ TopOnly =>
       /\ phase = "encode" => Stands
       /\ phase = "deliver" =>
            \E V, last : Trail(V, wire, last) /\ last.stack = <<>> /\ last.pos = Len(wire)
       /\ phase \in {"verify", "decode", "done"} /\ ~foreign =>
            Reached /\ verifier.result \in {"none", "ok"}
  /\ phase = "encode" => verifier.result = "none"

LEMMA EncodedStart == Init /\ TypesInv => EncodedInv
<1> SUFFICES ASSUME Init, TypesInv PROVE EncodedInv OBVIOUS
<1>1. phase = "encode" /\ encoded = <<>> /\ wire = <<>> /\ verifier.result = "none" /\ world \in Worlds
      /\ encoder.turn = 1 /\ encoder.stack = <<>>
  BY DEF Init
<1>2. encoded \in Seq(History(world)) BY <1>1
<1>3. Start \in Config /\ Start.pos = 0 BY <1>1, StartConfig
<1>4. Trail({Start}, wire, Start)
  <2> DEFINE V == {Start}
  <2>1. V \subseteq Config /\ Start \in V /\ \A c \in V : c = Start BY <1>3
  <2> HIDE DEF V
  <2>2. Trail(V, wire, Start) BY <2>1 DEF Trail
  <2> QED BY <2>2 DEF V
<1>5. Start.pos = Len(wire) BY <1>1, <1>3
<1>6. Standing(Start) BY <1>1 DEF Standing, AtStart
<1>7. Stands BY <1>4, <1>5, <1>6 DEF Stands
<1> QED BY <1>1, <1>2, <1>7 DEF EncodedInv

LEMMA EncodeStepEncoded ==
  ASSUME TypesInv, EncodedInv, Encode
  PROVE  EncodedInv'
<1>1. world \in Worlds /\ EncoderInv(world, encoder) /\ encoded \in Seq(History(world))
  BY DEF TypesInv, EncodedInv
<1>2. phase = "encode" /\ phase' \in {"encode", "deliver"} /\ verifier' = verifier /\ world' = world
  BY DEF Encode, EncodeStart, EncodeScalar, EncodeTuple, EncodeArray, EncodeStruct, EncodePtr,
         EncodeAny, EncodeAnyEnd, EncodeUnion, EncodeFail, EncodeEnd, Encodes, Encoding
<1>3. WireInv(wire, Room) BY <1>2 DEF TypesInv
<1>4. verifier'.result = "none" BY <1>2 DEF EncodedInv
<1>5. /\ encoded' \in Seq(History(world)) /\ encoder.stack \in Seq(Item(world))
      /\ AllWritten(encoded') => AllWritten(encoded)
      /\ AllTop(encoded') => AllTop(encoded)
      /\ AllWritten(encoded') /\ AllTop(encoded') =>
           \/ EncodeStart \/ EncodeAnyEnd \/ EncodeEnd
           \/ Takable /\ Encoding(Kinds) /\ (Encoding({"scalar"}) => EncodeScalar)
  BY <1>1, EncodeForm
<1>6. encoded' \in Seq(History(world')) BY <1>2, <1>5
<1>7. ASSUME Complete', TopOnly'
      PROVE  /\ phase' = "encode" => Stands'
             /\ phase' = "deliver" =>
                  (\E V, last : Trail(V, wire, last) /\ last.stack = <<>> /\ last.pos = Len(wire))'
  <2>1. AllWritten(encoded') /\ AllTop(encoded') /\ encoder'.ok
    BY <1>7 DEF Complete, TopOnly, AllWritten, AllTop, Written, TopIndex
  <2>2. encoder \in EncoderType(world) BY <1>1 DEF EncoderInv
  <2>3. encoder.ok
    <3>1. CASE EncodeStart BY <2>1, <2>2, <3>1 DEF EncodeStart
    <3>2. CASE EncodeAnyEnd BY <2>1, <2>2, <3>2 DEF EncodeAnyEnd, EncoderType
    <3>3. CASE EncodeEnd BY <2>1, <3>3 DEF EncodeEnd
    <3>4. CASE Takable
      <4>1. PICK n, units, values : Encodes(n, units, values) BY <3>4 DEF Takable, Good
      <4>2. encoder'.ok = encoder.ok BY <2>2, <4>1 DEF Encodes, EncoderType
      <4> QED BY <2>1, <4>2
    <3> QED BY <1>5, <2>1, <3>1, <3>2, <3>3, <3>4
  <2>4. Complete /\ TopOnly
    BY <1>5, <2>1, <2>3 DEF Complete, TopOnly, AllWritten, AllTop, Written, TopIndex
  <2>5. Stands BY <1>2, <2>4 DEF EncodedInv
  <2>6. CASE EncodeStart
    <3>1. phase' = "encode" BY <1>2, <2>6 DEF EncodeStart
    <3> QED BY <1>1, <2>5, <2>6, <3>1, EncodeStartStands
  <2>7. CASE EncodeAnyEnd
    <3>1. phase' = "encode" BY <1>2, <2>7 DEF EncodeAnyEnd
    <3> QED BY <1>1, <2>5, <2>7, <3>1, EncodeAnyEndStands
  <2>8. CASE EncodeEnd
    <3>1. PICK V, last : Trail(V, wire, last) /\ last.stack = <<>> /\ last.pos = Len(wire)
      BY <1>1, <2>3, <2>5, <2>8, EncodeEndStands
    <3>2. wire' = wire /\ phase' = "deliver" BY <2>8 DEF EncodeEnd
    <3>3. Trail(V, wire, last)' BY <1>2, <3>1, <3>2, TrailThen
    <3> QED BY <3>1, <3>2, <3>3
  <2>9. CASE Takable /\ Encoding(Kinds) /\ (Encoding({"scalar"}) => EncodeScalar)
    <3>1. PICK V, c : Trail(V, wire, c) /\ c.pos = Len(wire) /\ Standing(c) BY <2>5 DEF Stands
    <3>2. encoder.stack # <<>> BY <2>9 DEF Encoding
    <3>3. phase' = "encode"
      <4>1. PICK n, units, values : Encodes(n, units, values) BY <2>9 DEF Takable, Good
      <4> QED BY <1>2, <4>1 DEF Encodes
    <3>4. CASE AtCall(c)
      <4>1. Encoding({"scalar"})
        <5>1. Head(encoder.stack).type = world.values[1].type BY <3>4 DEF AtCall, Value
        <5>2. Types[world.values[1].type].kind = "scalar" BY <1>1, <3>4, SendsFacts, HashFacts DEF AtCall
        <5> QED BY <2>9, <5>1, <5>2 DEF Encoding
      <4> QED BY <1>1, <1>3, <2>9, <3>1, <3>3, <3>4, <4>1, EncodeCallStands
    <3>5. CASE AtValues(c) BY <1>1, <1>3, <2>9, <3>1, <3>3, <3>5, EncodeValueStands
    <3> QED BY <3>1, <3>2, <3>4, <3>5 DEF Standing, AtStart, AtArguments
  <2> QED BY <1>5, <2>1, <2>6, <2>7, <2>8, <2>9
<1> QED BY <1>2, <1>4, <1>6, <1>7 DEF EncodedInv

LEMMA DeliverEncoded ==
  ASSUME TypesInv, EncodedInv, Deliver
  PROVE  EncodedInv'
<1>1. /\ verifier'.stack = <<world.type>> /\ verifier'.pos = 0 /\ verifier'.count = 0
      /\ verifier'.result = "none"
  BY DeliverTypes
<1>2. phase = "deliver" /\ phase' = "verify" /\ UNCHANGED <<world, encoder, encoded>>
      /\ (~foreign' => wire' = wire)
  BY DEF Deliver
<1>3. encoded' \in Seq(History(world')) BY <1>2 DEF EncodedInv
<1>4. (Complete' => Complete) /\ (TopOnly' => TopOnly) BY <1>2 DEF Complete, TopOnly
<1>5. ASSUME Complete', TopOnly', ~foreign' PROVE Reached'
  <2>1. PICK V, last : Trail(V, wire, last) /\ last.stack = <<>> /\ last.pos = Len(wire)
    BY <1>2, <1>4, <1>5 DEF EncodedInv
  <2>2. wire' = wire BY <1>2, <1>5
  <2>3. Trail(V, wire, last)' BY <1>2, <2>1, <2>2, TrailThen
  <2>4. ConfigOf(verifier') = Start BY <1>1 DEF ConfigOf, Start
  <2>5. ConfigOf(verifier') \in V BY <2>1, <2>4 DEF Trail
  <2> QED BY <2>1, <2>2, <2>3, <2>5 DEF Reached, ConfigOf
<1> QED BY <1>1, <1>2, <1>3, <1>5 DEF EncodedInv

LEMMA VerifyEncoded ==
  ASSUME TypesInv, VerifiedInv, EncodedInv, Verify
  PROVE  EncodedInv'
<1>0. VerifierInv(verifier, wire) /\ WireInv(wire, Room + 1) BY DEF TypesInv
<1>1. VerifyStep \/ VerifyEnd BY <1>0, VerifyForm
<1>2. phase = "verify" /\ phase' \in {"verify", "decode"}
      /\ UNCHANGED <<world, wire, foreign, encoder, encoded>>
  BY <1>1 DEF VerifyStep, VerifyEnd, Advances, Verified
<1>3. verifier.result = "none" BY <1>2 DEF VerifiedInv
<1>4. encoded' \in Seq(History(world')) BY <1>2 DEF EncodedInv
<1>5. (Complete' => Complete) /\ (TopOnly' => TopOnly) BY <1>2 DEF Complete, TopOnly
<1>6. ASSUME Complete', TopOnly', ~foreign' PROVE Reached' /\ verifier'.result \in {"none", "ok"}
  <2>1. Reached BY <1>2, <1>5, <1>6 DEF EncodedInv
  <2>2. PICK V, last : /\ Trail(V, wire, last) /\ last.stack = <<>> /\ last.pos = Len(wire)
                       /\ verifier.result = "none" => ConfigOf(verifier) \in V
    BY <2>1 DEF Reached
  <2> DEFINE c == ConfigOf(verifier)
  <2>3. c \in V /\ c.stack = verifier.stack /\ c.pos = verifier.pos /\ c.count = verifier.count
    BY <1>0, <1>3, <2>2, ConfigOfFacts
  <2>4. Trail(V, wire, last)' BY <1>2, <2>2, TrailThen
  <2>5. ASSUME verifier.stack # <<>>
        PROVE  \E n, ts : TakesNow(n, ts) /\ After(c, n, ts) \in V
    <3> HIDE DEF c
    <3>1. PICK n, ts : Takes(wire, c.pos, c.count, Head(c.stack), n, ts) /\ After(c, n, ts) \in V
      BY <2>2, <2>3, <2>5, TrailFollows
    <3> QED BY <2>3, <3>1 DEF TakesNow
  <2>6. CASE VerifyStep
    <3>1. verifier.stack # <<>> BY <2>6 DEF VerifyStep
    <3>2. PICK n, ts : TakesNow(n, ts) /\ After(c, n, ts) \in V BY <2>5, <3>1
    <3>3. PICK m, us : TakesNow(m, us) /\ Advances(m, us) BY <2>6, <3>2 DEF VerifyStep
    <3>4. Head(verifier.stack) \in DOMAIN Types
      <4>1. verifier.stack \in Seq(DOMAIN Types) BY <1>0 DEF VerifierInv
      <4> QED BY <3>1, <4>1, PushFacts
    <3>5. m = n /\ us = ts BY <3>2, <3>3, <3>4, TakesOnce DEF TakesNow
    <3>6. /\ verifier'.result = verifier.result
          /\ verifier'.stack = us \o Tail(verifier.stack) /\ verifier'.pos = verifier.pos + m
          /\ verifier'.count = IF Types[Head(verifier.stack)].kind = "iface" THEN verifier.count
                               ELSE verifier.count + 1
      BY <1>0, <3>1, <3>3, AdvancesTypes
    <3>7. ConfigOf(verifier') = After(c, n, ts) BY <2>3, <3>5, <3>6 DEF ConfigOf, After
    <3> HIDE DEF c
    <3>8. ConfigOf(verifier') \in V BY <3>2, <3>7
    <3>9. Reached' BY <1>2, <2>2, <2>4, <3>8 DEF Reached, ConfigOf
    <3> QED BY <1>3, <3>6, <3>9
  <2>7. CASE VerifyEnd
    <3>1. verifier.stack = <<>> BY <2>7 DEF VerifyEnd
    <3>2. c = last
      <4> SUFFICES ASSUME c # last PROVE FALSE OBVIOUS
      <4>1. Follows(V, wire, c) BY <2>2, <2>3 DEF Trail
      <4>2. c.stack # <<>> BY <4>1 DEF Follows
      <4> QED BY <2>3, <3>1, <4>2
    <3>3. verifier.pos = Len(wire) BY <2>2, <2>3, <3>2
    <3>4. Verified("ok") BY <2>7, <3>3 DEF VerifyEnd
    <3>5. verifier'.result = "ok" BY <1>0, <3>4, VerifiedTypes DEF Result
    <3>6. Reached' BY <1>2, <2>2, <2>4, <3>5 DEF Reached
    <3> QED BY <3>5, <3>6
  <2> QED BY <1>1, <2>6, <2>7
<1> QED BY <1>2, <1>4, <1>6 DEF EncodedInv

LEMMA EncodedStep ==
  ASSUME TypesInv, VerifiedInv, EncodedInv, [Next]_vars
  PROVE  EncodedInv'
<1>1. CASE Encode BY <1>1, EncodeStepEncoded
<1>2. CASE Deliver BY <1>2, DeliverEncoded
<1>3. CASE Verify BY <1>3, VerifyEncoded
<1>4. CASE Decode \/ UNCHANGED vars
  <2>1. /\ UNCHANGED <<world, wire, foreign, encoder, verifier, encoded>>
        /\ phase' = phase \/ (phase = "decode" /\ phase' \in {"decode", "done"})
    <3>1. CASE UNCHANGED vars BY <3>1 DEF vars
    <3>2. CASE Decode
      <4>1. phase = "decode" /\ UNCHANGED <<world, wire, foreign, encoder, verifier, encoded>>
        BY <3>2, DecodeFrame
      <4>2. DecoderInv(decoder, wire) /\ WireInv(wire, Room + 1) BY DEF TypesInv
      <4>3. DecodeStart \/ DecodeArguments \/ DecodeEnd \/ DecodeStep BY <3>2, <4>2, DecodeForm
      <4>4. phase' \in {"decode", "done"}
        BY <4>1, <4>3 DEF DecodeStart, DecodeArguments, DecodeEnd, DecodeStep, StoresSome, Stores, DecodeFails
      <4> QED BY <4>1, <4>4
    <3> QED BY <1>4, <3>1, <3>2
  <2>2. (Complete' => Complete) /\ (TopOnly' => TopOnly) /\ encoded' \in Seq(History(world'))
    BY <2>1 DEF Complete, TopOnly, EncodedInv
  <2>3. Stands => Stands' BY <2>1 DEF Stands, Trail, Start, Standing, AtStart, AtCall, AtArguments, AtValues, IsCall
  <2>4. Reached => Reached' BY <2>1 DEF Reached, Trail, Start, ConfigOf
  <2>5. (\E V, last : Trail(V, wire, last) /\ last.stack = <<>> /\ last.pos = Len(wire))
          => (\E V, last : Trail(V, wire, last) /\ last.stack = <<>> /\ last.pos = Len(wire))'
    BY <2>1 DEF Trail, Start
  <2>6. phase' = "encode" => phase = "encode" BY <2>1
  <2>7. phase' = "deliver" => phase = "deliver" BY <2>1
  <2>8. phase' \in {"verify", "decode", "done"} => phase \in {"verify", "decode", "done"} BY <2>1
  <2> QED BY <2>1, <2>2, <2>3, <2>4, <2>5, <2>6, <2>7, <2>8 DEF EncodedInv
<1> QED BY <1>1, <1>2, <1>3, <1>4 DEF Next

\* What encoder.c wrote whole, with no index but that of the top-level value,
\* verify.c accepts when it arrives unchanged, for every value of every type.
THEOREM EncodedAlwaysVerified == Spec => []EncodedIsVerified
<1> DEFINE I == TypesInv /\ VerifiedInv /\ EncodedInv
<1>1. Init => I BY InitTypes, VerifiedInit, EncodedStart
<1>2. I /\ [Next]_vars => I' BY TypesStep, VerifiedKept, EncodedStep
<1>3. I => EncodedIsVerified
  <2> SUFFICES ASSUME I, verifier.result # "none", ~foreign, Complete, TopOnly
               PROVE  verifier.result = "ok"
    BY DEF EncodedIsVerified
  <2>1. phase \in {"verify", "decode", "done"}
    BY DEF TypesInv, VerifiedInv
  <2> QED BY <2>1 DEF EncodedInv
<1> HIDE DEF I
<1> QED BY <1>1, <1>2, <1>3, PTL DEF Spec
=============================================================================
