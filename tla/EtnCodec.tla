------------------------------ MODULE EtnCodec ------------------------------
(***************************************************************************)
(* The C library that encodes, verifies and decodes ETN values             *)
(* (rpc/libetn/lib: encoder.c, verify.c, decoder.c) and the host of the    *)
(* remote procedure calls on top of it (erpc.c).                           *)
(*                                                                         *)
(* A behaviour takes one value, or one call, through the library: it is    *)
(* encoded onto a wire, the wire (this one, or one that something else     *)
(* wrote) is verified against the type graph, and it is decoded.  The      *)
(* three walk the same value with a counter each: e->index, v->objCount    *)
(* and d->nextIndex.  A pointer to a value that was passed before is       *)
(* written as the encoder's count for it and read as the decoder's, so the *)
(* counters must agree.  The recursion over the type is a stack of the     *)
(* values still to be walked.                                              *)
(*                                                                         *)
(* An address is a block and an offset, so that a structure and its first  *)
(* field have one address.  The wire is a sequence of units, numbers with  *)
(* no mark of what they are: a scalar, a length, the byte of a pointer, a  *)
(* union id, an index and each byte of a hash take one unit.               *)
(***************************************************************************)
EXTENDS Naturals, Sequences, FiniteSets

CONSTANTS
  Types,           \* the types: kind, size, and elem, fields, offsets or methods
  Hashes,          \* the hash of each registered type, a sequence of units
  HashSize,        \* length of a hash
  CallId,          \* CallIdType, a scalar type
  Worlds,          \* the values to encode, the memory they are in, their type
  Places(_),       \* the type and the address of each value of a world
  Extent,          \* the cells of memory that a value of each type takes
  Nil,             \* the null pointer, no address
  Junk,            \* an address that no decoded value has
  Room,            \* bound: units in the buffer of the encoder
  Units            \* bound: units that something else may write

Kinds == {"scalar", "string", "tuple", "array", "any", "union", "struct",
          "ptr", "iface", "dict"}

ASSUME EtnCodecAssumption ==
  /\ \A t \in DOMAIN Types :
       LET kind == Types[t].kind
       IN  /\ kind \in Kinds /\ Types[t].size \in Nat
           /\ kind \in {"string", "tuple", "array", "ptr"} => Types[t].elem \in DOMAIN Types
           /\ kind \in {"union", "struct"} => Types[t].fields \in Seq(DOMAIN Types)
           /\ kind = "struct" => Types[t].offsets \in [DOMAIN Types[t].fields -> Nat]
           /\ kind = "iface" => Types[t].methods \in Seq(DOMAIN Types)
  /\ DOMAIN Hashes \subseteq DOMAIN Types
  /\ \A t \in DOMAIN Hashes : Hashes[t] \in Seq(Nat) /\ Len(Hashes[t]) = HashSize
  /\ \A s, t \in DOMAIN Hashes : Hashes[s] = Hashes[t] => s = t
  /\ CallId \in DOMAIN Types /\ Types[CallId].kind = "scalar"
  /\ "anyEnd" \notin DOMAIN Types
  /\ HashSize \in Nat /\ Room \in Nat /\ Units \subseteq Nat
  /\ Nil \notin Nat \X Nat

\* Interfaces are passed around as calls only: no type contains one.  Inside a
\* value the table of verify.c has an entry for them, decoder.c has none.
InterfacesOnTop ==
  /\ \A t \in DOMAIN Types :
       LET kind == Types[t].kind
       IN  /\ kind \in {"string", "tuple", "array", "ptr"} => Types[Types[t].elem].kind # "iface"
           /\ kind \in {"union", "struct"} =>
                \A i \in DOMAIN Types[t].fields : Types[Types[t].fields[i]].kind # "iface"
           /\ kind = "iface" =>
                \A i \in DOMAIN Types[t].methods : Types[Types[t].methods[i]].kind # "iface"
  /\ \A t \in DOMAIN Hashes : Types[t].kind # "iface"

\* Values lie side by side: the fields of a structure are in it, apart from each
\* other, and the elements of an array or a tuple are no larger than the distance
\* between them.
LaidOut ==
  /\ Extent \in [DOMAIN Types -> Nat]
  /\ \A t \in DOMAIN Types :
       LET kind == Types[t].kind
           elem == Types[t].elem
           size == Types[t].size
           fields == Types[t].fields
           offsets == Types[t].offsets
       IN  /\ kind \in {"scalar", "string", "tuple", "ptr", "any", "union"} => Extent[t] >= 1
           /\ kind \in {"string", "tuple", "array"} /\ Types[elem].kind # "scalar"
                => Extent[elem] <= Types[elem].size
           /\ kind = "array" => IF Types[elem].kind = "scalar" THEN size <= Extent[t]
                               ELSE size * Types[elem].size <= Extent[t]
           /\ kind = "struct" => \A i \in DOMAIN fields :
                /\ offsets[i] + Extent[fields[i]] <= Extent[t]
                /\ \A j \in DOMAIN fields : i # j =>
                     \/ offsets[i] + Extent[fields[i]] <= offsets[j]
                     \/ offsets[j] + Extent[fields[j]] <= offsets[i]

VARIABLES
  world,           \* the values to send
  phase,           \* "encode", "deliver", "verify", "decode", "done"
  wire,            \* the units written
  foreign,         \* something else wrote the wire
  encoder,         \* EtnEncoder and the values it still has to encode
  verifier,        \* EtnVerifier and the types it still has to verify
  decoder,         \* EtnDecoder and the values it still has to decode
  memory,          \* the memory of the receiver
  encoded, decoded \* history of the values walked, in order, with their counts

vars == <<world, phase, wire, foreign, encoder, verifier, decoder, memory, encoded, decoded>>

-----------------------------------------------------------------------------
(* Types and values.                                                       *)

At(a, n) == <<a[1], a[2] + n>>

\* x at address a, and the cells of f before those of g.
Cell(a, x) == [b \in {a} |-> x]
Over(f, g) == [a \in DOMAIN f \cup DOMAIN g |-> IF a \in DOMAIN f THEN f[a] ELSE g[a]]

IsScalar(t) == Types[t].kind = "scalar"

\* A value to walk; the encoder may have to remember its address.
Value(t, a, keep) == [type |-> t, addr |-> a, keep |-> keep]

\* The elements of a tuple or an array of n elements at address a.
Elements(t, a, n) ==
  [i \in 1..n |-> Value(Types[t].elem, At(a, (i - 1) * Types[Types[t].elem].size), FALSE)]

\* The fields of a structure at address a.
Fields(t, a) ==
  [i \in DOMAIN Types[t].fields |->
     Value(Types[t].fields[i], At(a, Types[t].offsets[i]), FALSE)]

\* The fields of a union that have the type of what it holds.
Choices(t, held) == {i \in DOMAIN Types[t].fields : Types[t].fields[i] = held}

\* What the memory of a world w holds for a value of type t at address a: the
\* units and the references of its type, and a place for each value it leads to.
InPlace(w, values) == \A i \in DOMAIN values : <<values[i].type, values[i].addr>> \in Places(w)

Scalars(w, a, n) == \A i \in 1..n : w.memory[At(a, i - 1)] \in Nat

Represents(w, t, a) ==
  LET kind == Types[t].kind
      elem == Types[t].elem
      size == Types[t].size
      cell == w.memory[a]
  IN  /\ kind = "scalar" => cell \in Nat
      /\ kind \in {"string", "tuple"} =>
           /\ cell.len \in Nat
           /\ IF IsScalar(elem) THEN Scalars(w, cell.data, cell.len)
                               ELSE InPlace(w, Elements(t, cell.data, cell.len))
      /\ kind = "array" =>
           IF IsScalar(elem) THEN Scalars(w, a, size) ELSE InPlace(w, Elements(t, a, size))
      /\ kind = "struct" => InPlace(w, Fields(t, a))
      /\ kind = "ptr" => cell = Nil \/ <<elem, cell>> \in Places(w)
      /\ kind = "any" /\ cell.type \in DOMAIN Hashes => <<cell.type, cell.data>> \in Places(w)
      /\ kind = "union" /\ Choices(t, cell.type) # {} => <<cell.type, cell.data>> \in Places(w)

\* A world is one value of its type, or a call and the arguments of its method.
Sends(w) ==
  LET methods == Types[w.type].methods
  IN  IF Types[w.type].kind = "iface"
        THEN /\ Len(w.values) = 2 /\ w.values[1].type = CallId
             /\ \E call \in DOMAIN methods : /\ w.memory[w.values[1].addr] = call - 1
                                           /\ w.values[2].type = methods[call]
        ELSE Len(w.values) = 1 /\ w.values[1].type = w.type

ASSUME WorldsAssumption ==
  \A w \in Worlds :
    /\ w.type \in DOMAIN Types
    /\ w.values \in Seq({[type |-> p[1], addr |-> p[2]] : p \in Places(w)}) /\ Sends(w)
    /\ \A p \in Places(w) : p[1] \in DOMAIN Types /\ Represents(w, p[1], p[2])

\* What a value at address a refers to, if it is a reference, and everything in
\* a world that something refers to.
Refers(w, t, a) ==
  LET cell == w.memory[a]
  IN  {p \in Places(w) : \/ Types[t].kind = "ptr" /\ p = <<Types[t].elem, cell>>
                         \/ Types[t].kind \in {"any", "union"} /\ p = <<cell.type, cell.data>>}

Referred(w) ==
  {<<w.values[i].type, w.values[i].addr>> : i \in DOMAIN w.values}
    \cup UNION {Refers(w, p[1], p[2]) : p \in Places(w)}

\* What is referred to at one address has one type: no pointer leads to a
\* structure when another one leads to its first field.
OneTypeEach == \A w \in Worlds : \A p, q \in Referred(w) : p[2] = q[2] => p[1] = q[1]

\* The marker of an any value whose encoding has not returned yet.
AnyEnd == Value("anyEnd", Nil, FALSE)

PtrNil == 0
PtrIndex == 1
PtrInline == 2

IsCall == Types[world.type].kind = "iface"

-----------------------------------------------------------------------------
(* The encoder.                                                            *)

Encoding(kinds) ==
  /\ phase = "encode"
  /\ encoder.stack # <<>>
  /\ Head(encoder.stack) # AnyEnd
  /\ Types[Head(encoder.stack).type].kind \in kinds

\* Mutants: nothing is remembered; the count after the value is.
NotRemembered(v) == encoder.known
RememberedLate(v) ==
  IF v.keep /\ v.addr # encoder.top THEN Over(encoder.known, Cell(v.addr, encoder.index + 1))
                                    ELSE encoder.known

\* _maybeRememberPointer: the first count of an address stays.
Remembered(v) ==
  IF v.keep /\ v.addr # encoder.top THEN Over(encoder.known, Cell(v.addr, encoder.index))
                                    ELSE encoder.known

Entry(v, count, units) ==
  [type |-> v.type, addr |-> v.addr, count |-> count, units |-> units]

\* The value on top counts for n, writes units and leaves values to encode.
Encodes(n, units, values) ==
  LET v == Head(encoder.stack)
  IN  /\ Len(wire) + Len(units) <= Room
      /\ wire' = wire \o units
      /\ encoder' = [encoder EXCEPT !.stack = values \o Tail(@),
                                    !.index = @ + n, !.known = Remembered(v)]
      /\ encoded' = Append(encoded, Entry(v, encoder.index, units))
      /\ UNCHANGED <<world, phase, foreign, verifier, decoder, memory, decoded>>

\* etnEncodeWithoutFlush, etnRpcCall: the values of a call are encoded one
\* after the other, each with its own counts.
EncodeStart ==
  /\ phase = "encode" /\ encoder.stack = <<>> /\ encoder.ok
  /\ encoder.turn <= Len(world.values)
  /\ LET v == world.values[encoder.turn]
     IN  encoder' = [encoder EXCEPT !.stack = <<Value(v.type, v.addr, FALSE)>>, !.index = 0,
                                    !.top = v.addr, !.known = <<>>, !.turn = @ + 1]
  /\ UNCHANGED <<world, phase, wire, foreign, verifier, decoder, memory, encoded, decoded>>

EncodeScalar ==
  /\ Encoding({"scalar"})
  /\ Encodes(1, <<world.memory[Head(encoder.stack).addr]>>, <<>>)

\* A string or a tuple: scalars are copied at once and are not counted.
EncodeTuple ==
  /\ Encoding({"string", "tuple"})
  /\ LET v == Head(encoder.stack)
         ref == world.memory[v.addr]
     IN  IF IsScalar(Types[v.type].elem)
           THEN Encodes(1, <<ref.len>> \o [i \in 1..ref.len |-> world.memory[At(ref.data, i - 1)]],
                        <<>>)
           ELSE Encodes(1, <<ref.len>>, Elements(v.type, ref.data, ref.len))

\* An array: the size of its type is taken for the number of its elements.
EncodeArray ==
  /\ Encoding({"array"})
  /\ LET v == Head(encoder.stack)
         n == Types[v.type].size
     IN  IF IsScalar(Types[v.type].elem)
           THEN Encodes(1, [i \in 1..n |-> world.memory[At(v.addr, i - 1)]], <<>>)
           ELSE Encodes(1, <<>>, Elements(v.type, v.addr, n))

EncodeStruct ==
  /\ Encoding({"struct"})
  /\ LET v == Head(encoder.stack) IN Encodes(1, <<>>, Fields(v.type, v.addr))

\* Already encoded: the top-level value, or an address with a count.
Seen(v, target) == target = encoder.top \/ target \in DOMAIN Remembered(v)
CountOf(v, target) == IF target = encoder.top THEN 0 ELSE Remembered(v)[target]

\* A pointer counts once for itself and once for its byte.
EncodePtr ==
  /\ Encoding({"ptr"})
  /\ LET v == Head(encoder.stack)
         target == world.memory[v.addr]
     IN  \/ target = Nil /\ Encodes(2, <<PtrNil>>, <<>>)
         \/ target # Nil /\ Seen(v, target)
              /\ Encodes(2, <<PtrIndex, CountOf(v, target)>>, <<>>)
         \/ target # Nil /\ ~Seen(v, target)
              /\ Encodes(2, <<PtrInline>>, <<Value(Types[v.type].elem, target, TRUE)>>)

\* An any value: the hash of its type, as a tuple, and the value.
EncodeAny ==
  /\ Encoding({"any"})
  /\ LET held == world.memory[Head(encoder.stack).addr]
     IN  IF held.type \in DOMAIN Hashes
           THEN Encodes(2, <<HashSize>> \o Hashes[held.type],
                        <<Value(held.type, held.data, TRUE), AnyEnd>>)
           ELSE Encodes(1, <<>>, <<>>)

\* _encodeAny returns StatusOk, whatever happened inside.
EncodeAnyEnd ==
  /\ phase = "encode" /\ encoder.stack # <<>> /\ Head(encoder.stack) = AnyEnd
  /\ encoder' = [encoder EXCEPT !.stack = Tail(@)]
  /\ UNCHANGED <<world, phase, wire, foreign, verifier, decoder, memory, encoded, decoded>>

\* Mutant: fields are numbered from one.
EncodeUnionFromOne ==
  /\ Encoding({"union"})
  /\ LET v == Head(encoder.stack)
         held == world.memory[v.addr]
     IN  \E i \in Choices(v.type, held.type) :
           /\ \A j \in Choices(v.type, held.type) : i <= j
           /\ Encodes(2, <<i>>, <<Value(held.type, held.data, v.keep)>>)

\* A union: the number of the first field of the type it holds, and the value.
EncodeUnion ==
  /\ Encoding({"union"})
  /\ LET v == Head(encoder.stack)
         held == world.memory[v.addr]
     IN  \E i \in Choices(v.type, held.type) :
           /\ \A j \in Choices(v.type, held.type) : i <= j
           /\ Encodes(2, <<i - 1>>, <<Value(held.type, held.data, v.keep)>>)

\* A union that holds no type of its own, or a kind that is not implemented:
\* the encoding fails up to the innermost any value around it.
EncodeFail ==
  /\ \/ Encoding({"dict", "iface"})
     \/ /\ Encoding({"union"})
        /\ LET v == Head(encoder.stack) IN Choices(v.type, world.memory[v.addr].type) = {}
  /\ LET ends == {i \in DOMAIN encoder.stack : encoder.stack[i] = AnyEnd}
         Leaves(stack) ==
           encoder' = [encoder EXCEPT !.stack = stack, !.index = @ + 1, !.ok = stack # <<>>,
                                      !.known = Remembered(Head(encoder.stack))]
     IN  \/ ends = {} /\ Leaves(<<>>)
         \/ \E i \in ends : /\ \A j \in ends : i <= j
                            /\ Leaves(SubSeq(encoder.stack, i, Len(encoder.stack)))
  /\ encoded' = Append(encoded, Entry(Head(encoder.stack), encoder.index, <<>>))
  /\ UNCHANGED <<world, phase, wire, foreign, verifier, decoder, memory, decoded>>

EncodeEnd ==
  /\ phase = "encode" /\ encoder.stack = <<>>
  /\ encoder.turn > Len(world.values) \/ ~encoder.ok
  /\ phase' = "deliver"
  /\ UNCHANGED <<world, wire, foreign, encoder, verifier, decoder, memory, encoded, decoded>>

-----------------------------------------------------------------------------
(* The wire.  What arrives is what was encoded, or what a writer of its    *)
(* own made of it: two units changed, the end cut off, a unit more.        *)

Deliver ==
  /\ phase = "deliver"
  /\ \/ foreign' = FALSE /\ UNCHANGED wire
     \/ /\ foreign' = TRUE
        /\ \/ \E i, j \in DOMAIN wire, u, v \in Units : wire' = [wire EXCEPT ![i] = u, ![j] = v]
           \/ \E n \in 0..Len(wire) - 1 : wire' = SubSeq(wire, 1, n)
           \/ \E u \in Units : wire' = Append(wire, u)
  /\ phase' = "verify"
  /\ verifier' = [verifier EXCEPT !.stack = <<world.type>>]
  /\ UNCHANGED <<world, encoder, decoder, memory, encoded, decoded>>

-----------------------------------------------------------------------------
(* The verifier.  It ends with a result: ok, fail, or lost once it has     *)
(* used memory past an array of hashes.                                    *)

Verifying(kinds) ==
  phase = "verify" /\ verifier.stack # <<>> /\ Types[Head(verifier.stack)].kind \in kinds

VType == Types[Head(verifier.stack)]

\* The k-th unit ahead, none when the wire ends before it.
VNext(k) == {wire[i] : i \in {verifier.pos + k} \cap DOMAIN wire}

\* A way to verify the type on top: it uses n units and leaves types to
\* verify.  There is none when the wire is too short.
Uses(n, types) ==
  IF verifier.pos + n <= Len(wire) THEN {[units |-> n, types |-> types]} ELSE {}

Verified(result) ==
  /\ phase' = "decode"
  /\ verifier' = [verifier EXCEPT !.result = result]
  /\ UNCHANGED <<world, wire, foreign, encoder, decoder, memory, encoded, decoded>>

\* An interface is not counted.
Verifies(ways) ==
  \/ /\ ways = {} /\ Verified("fail")
  \/ /\ \E way \in ways :
          verifier' = [verifier EXCEPT !.stack = way.types \o Tail(@), !.pos = @ + way.units,
                                       !.count = IF VType.kind = "iface" THEN @ ELSE @ + 1]
     /\ UNCHANGED <<world, phase, wire, foreign, encoder, decoder, memory, encoded, decoded>>

VerifyScalar == Verifying({"scalar"}) /\ Verifies(Uses(1, <<>>))

VerifyTuple ==
  /\ Verifying({"string", "tuple"})
  /\ Verifies(UNION {IF IsScalar(VType.elem) THEN Uses(1 + len, <<>>)
                     ELSE Uses(1, [i \in 1..len |-> VType.elem]) : len \in VNext(1)})

VerifyArray ==
  /\ Verifying({"array"})
  /\ Verifies(IF IsScalar(VType.elem) THEN Uses(VType.size, <<>>)
              ELSE Uses(0, [i \in 1..VType.size |-> VType.elem]))

VerifyStruct == Verifying({"struct"}) /\ Verifies(Uses(0, VType.fields))

\* Mutant: one too many.
IndexAtMost(idx) == idx <= verifier.count + 1

\* An index must be below the count of the values verified so far.
IndexBelow(idx) == idx < verifier.count + 1

VerifyPtr ==
  /\ Verifying({"ptr"})
  /\ Verifies(
       UNION {CASE e = PtrNil    -> Uses(1, <<>>)
                [] e = PtrIndex  -> UNION {Uses(2, <<>>) : idx \in {x \in VNext(2) : IndexBelow(x)}}
                [] e = PtrInline -> Uses(1, <<VType.elem>>)
                [] OTHER         -> {} : e \in VNext(1)})

VerifyAny ==
  /\ Verifying({"any"})
  /\ Verifies(UNION {Uses(1 + HashSize, <<t>>) :
                       t \in {t \in DOMAIN Hashes : VNext(1) = {HashSize} /\
                                \A i \in 1..HashSize : VNext(1 + i) = {Hashes[t][i]}}})

\* The union id is compared with the size in bytes of the array of hashes: an
\* id in between takes a hash from behind the array.
PtrBytes == 8
PastUnion(id) == id \in Len(VType.fields)..PtrBytes * Len(VType.fields) - 1

VerifyUnion ==
  /\ Verifying({"union"})
  /\ \/ \E id \in VNext(1) : PastUnion(id) /\ Verified("lost")
     \/ /\ ~\E id \in VNext(1) : PastUnion(id)
        /\ Verifies(UNION {Uses(1, <<VType.fields[id + 1]>>) :
                             id \in {x \in VNext(1) : x < Len(VType.fields)}})

\* The call, then the arguments of its method.
VerifyInterface ==
  /\ Verifying({"iface"})
  /\ Verifies(UNION {Uses(1, <<VType.methods[call + 1]>>) :
                       call \in {x \in VNext(1) : x < Len(VType.methods)}})

VerifyNotImplemented == Verifying({"dict"}) /\ Verified("fail")

\* Nothing must be left.
VerifyEnd ==
  /\ phase = "verify" /\ verifier.stack = <<>>
  /\ Verified(IF verifier.pos = Len(wire) THEN "ok" ELSE "fail")

-----------------------------------------------------------------------------
(* The decoder and the host of calls.                                      *)

Decoding(kinds) ==
  phase = "decode" /\ decoder.stack # <<>> /\ Types[Head(decoder.stack).type].kind \in kinds

DTop == Head(decoder.stack)
DType == Types[DTop.type]
DNext(k) == {wire[i] : i \in {decoder.pos + k} \cap DOMAIN wire}

\* A way to decode the value on top: it uses n units, counts for skip values
\* more than itself, stores cells and leaves values to decode.
Gets(n, skip, cells, values) ==
  IF decoder.pos + n <= Len(wire)
    THEN {[units |-> n, skip |-> skip, cells |-> cells, values |-> values]} ELSE {}

\* The block that malloc or refBufferAllocate returns.
Block == <<decoder.blocks, 0>>

\* Mutant: the address is stored after counting.
IndexedLate == Over(Cell(decoder.next + 1, DTop.addr), decoder.table)

\* _updateIndexToData: the table is not cleared between two decodings.  What
\* is counted without being stored keeps the address it had; a hash and a
\* union id are stored, but they are local variables of the decoder.
Indexed ==
  Over(Cell(decoder.next, DTop.addr),
       IF DType.kind \in {"any", "union"} THEN Over(Cell(decoder.next + 1, Junk), decoder.table)
       ELSE decoder.table)

\* The host ignores the status of the decoding of the call.
DecodeFails ==
  /\ IF IsCall /\ decoder.turn = 1
       THEN decoder' = [decoder EXCEPT !.stack = <<>>] /\ UNCHANGED phase
       ELSE decoder' = [decoder EXCEPT !.result = "fail"] /\ phase' = "done"
  /\ UNCHANGED <<world, wire, foreign, encoder, verifier, memory, encoded, decoded>>

Decodes(ways) ==
  \/ ways = {} /\ DecodeFails
  \/ /\ \E way \in ways :
          /\ decoder' = [decoder EXCEPT !.stack = way.values \o Tail(@), !.pos = @ + way.units,
                                        !.next = @ + 1 + way.skip, !.table = Indexed,
                                        !.blocks = @ + 1]
          /\ memory' = Over(way.cells, memory)
     /\ decoded' = Append(decoded, [type |-> DTop.type, addr |-> DTop.addr,
                                    count |-> decoder.next])
     /\ UNCHANGED <<world, phase, wire, foreign, encoder, verifier, encoded>>

\* etnDecode
DecodeStart ==
  /\ phase = "decode" /\ decoder.turn = 0
  /\ decoder' = [decoder EXCEPT !.stack = <<Value(IF IsCall THEN CallId ELSE world.type,
                                                  <<0, 0>>, FALSE)>>,
                                !.next = 0, !.blocks = 1, !.turn = 1]
  /\ UNCHANGED <<world, phase, wire, foreign, encoder, verifier, memory, encoded, decoded>>

\* etnRpcHandle: the arguments of the method that was called.
DecodeArguments ==
  /\ phase = "decode" /\ IsCall /\ decoder.turn = 1 /\ decoder.stack = <<>>
  /\ \E call \in IF decoded # <<>> THEN {memory[<<0, 0>>]} ELSE 0..Len(Types[world.type].methods) :
       IF call < Len(Types[world.type].methods)
         THEN /\ decoder' = [decoder EXCEPT
                               !.stack = <<Value(Types[world.type].methods[call + 1],
                                                 Block, FALSE)>>,
                               !.next = 0, !.blocks = @ + 1, !.turn = 2]
              /\ UNCHANGED phase
         ELSE /\ decoder' = [decoder EXCEPT !.result = "fail"]
              /\ phase' = "done"
  /\ UNCHANGED <<world, wire, foreign, encoder, verifier, memory, encoded, decoded>>

DecodeScalar ==
  /\ Decoding({"scalar"})
  /\ Decodes(UNION {Gets(1, 0, Cell(DTop.addr, x), <<>>) : x \in DNext(1)})

\* Units n..n + len - 1 ahead, copied to address a on.
Copied(a, n, len) ==
  [x \in {At(a, i) : i \in 0..len - 1} |-> wire[decoder.pos + n + x[2] - a[2]]]

\* Strings and tuples of scalars are copied at once, every scalar counts.
DecodeTuple ==
  /\ Decoding({"string", "tuple"})
  /\ Decodes(UNION {
       LET cell == Cell(DTop.addr, [data |-> Block, len |-> len])
       IN  IF ~IsScalar(DType.elem) THEN Gets(1, 0, cell, Elements(DTop.type, Block, len))
           ELSE IF decoder.pos + 1 + len > Len(wire) THEN {}
           ELSE Gets(1 + len, len, Over(cell, Copied(Block, 2, len)), <<>>) : len \in DNext(1)})

DecodeArray ==
  /\ Decoding({"array"})
  /\ Decodes(IF ~IsScalar(DType.elem)
               THEN Gets(0, 0, <<>>, Elements(DTop.type, DTop.addr, DType.size))
             ELSE IF decoder.pos + DType.size > Len(wire) THEN {}
             ELSE Gets(DType.size, DType.size, Copied(DTop.addr, 1, DType.size), <<>>))

DecodeStruct ==
  /\ Decoding({"struct"})
  /\ Decodes(Gets(0, 0, <<>>, Fields(DTop.type, DTop.addr)))

\* A pointer counts once, its byte does not.
DecodePtr ==
  /\ Decoding({"ptr"})
  /\ Decodes(
       UNION {CASE e = PtrNil    -> Gets(1, 0, Cell(DTop.addr, Nil), <<>>)
                [] e = PtrIndex  ->
                     UNION {Gets(2, 0, Cell(DTop.addr, IF idx \in DOMAIN Indexed THEN Indexed[idx]
                                                       ELSE Junk), <<>>) :
                              idx \in {x \in DNext(2) : x < decoder.next + 1}}
                [] e = PtrInline -> Gets(1, 0, Cell(DTop.addr, Block),
                                         <<Value(DType.elem, Block, FALSE)>>)
                [] OTHER         -> {} : e \in DNext(1)})

\* The type of a hash is looked up with HashSize bytes; when fewer arrived,
\* the rest is what the memory holds.
DecodeAny ==
  /\ Decoding({"any"})
  /\ \/ Decodes(UNION {UNION {
          Gets(1 + len, 1 + len, Cell(DTop.addr, [type |-> t, data |-> Block]),
               <<Value(t, Block, FALSE)>>) :
            t \in {t \in DOMAIN Hashes :
                     \A i \in 1..HashSize : i <= len => DNext(1 + i) = {Hashes[t][i]}}} :
              len \in DNext(1)})
     \/ (\E len \in DNext(1) : len < HashSize) /\ DecodeFails

DecodeUnion ==
  /\ Decoding({"union"})
  /\ Decodes(UNION {Gets(1, 1, Cell(DTop.addr, [type |-> DType.fields[id + 1], data |-> Block]),
                         <<Value(DType.fields[id + 1], Block, FALSE)>>) :
                      id \in {x \in DNext(1) : x < Len(DType.fields)}})

DecodeNotImplemented == Decoding({"dict", "iface"}) /\ DecodeFails

DecodeEnd ==
  /\ phase = "decode" /\ decoder.stack = <<>>
  /\ decoder.turn = IF IsCall THEN 2 ELSE 1
  /\ phase' = "done"
  /\ decoder' = [decoder EXCEPT !.result = "ok"]
  /\ UNCHANGED <<world, wire, foreign, encoder, verifier, memory, encoded, decoded>>

-----------------------------------------------------------------------------
(* The specification.                                                      *)

Init ==
  /\ world \in Worlds
  /\ phase = "encode" /\ wire = <<>> /\ foreign = FALSE
  /\ encoder = [stack |-> <<>>, index |-> 0, top |-> Nil, known |-> <<>>, turn |-> 1, ok |-> TRUE]
  /\ verifier = [stack |-> <<>>, pos |-> 0, count |-> 0, result |-> "none"]
  /\ decoder = [stack |-> <<>>, pos |-> 0, next |-> 0, table |-> <<>>, blocks |-> 0, turn |-> 0,
                result |-> "none"]
  /\ memory = <<>> /\ encoded = <<>> /\ decoded = <<>>

Encode ==
  \/ EncodeStart \/ EncodeScalar \/ EncodeTuple \/ EncodeArray \/ EncodeStruct \/ EncodePtr
  \/ EncodeAny \/ EncodeAnyEnd \/ EncodeUnion \/ EncodeFail \/ EncodeEnd

Verify ==
  \/ VerifyScalar \/ VerifyTuple \/ VerifyArray \/ VerifyStruct \/ VerifyPtr \/ VerifyAny
  \/ VerifyUnion \/ VerifyInterface \/ VerifyNotImplemented \/ VerifyEnd

Decode ==
  \/ DecodeStart \/ DecodeArguments \/ DecodeScalar \/ DecodeTuple \/ DecodeArray
  \/ DecodeStruct \/ DecodePtr \/ DecodeAny \/ DecodeUnion \/ DecodeNotImplemented \/ DecodeEnd

Next == Encode \/ Deliver \/ Verify \/ Decode

Spec == Init /\ [][Next]_vars /\ WF_vars(Next)

-----------------------------------------------------------------------------
(* Properties.                                                             *)

\* Every counter, address and result has its type; what the encoder remembers
\* was counted before (_maybeRememberPointer).
TypeOK ==
  /\ world \in Worlds /\ phase \in {"encode", "deliver", "verify", "decode", "done"}
  /\ wire \in Seq(Nat) /\ Len(wire) <= Room + 1 /\ foreign \in BOOLEAN
  /\ encoder.index \in Nat /\ encoder.turn \in Nat /\ encoder.ok \in BOOLEAN
  /\ \A a \in DOMAIN encoder.known : encoder.known[a] < encoder.index
  /\ verifier.pos \in 0..Len(wire) /\ verifier.count \in Nat
  /\ verifier.result \in {"none", "ok", "fail", "lost"}
  /\ decoder.pos \in 0..Len(wire) /\ decoder.next \in Nat /\ decoder.blocks \in Nat
  /\ decoder.result \in {"none", "ok", "fail"}

\* Nothing inside an any value was given up by the encoder.
Complete == encoder.ok /\
  \A k \in DOMAIN encoded :
    Types[encoded[k].type].kind \in {"any", "union", "dict", "iface"} => encoded[k].units # <<>>

\* Only pointers to the top-level value were written as an index.
TopOnly ==
  \A k \in DOMAIN encoded :
    Types[encoded[k].type].kind = "ptr" /\ encoded[k].units[1] = PtrIndex
      => encoded[k].units[2] = 0

\* The decoder counted every value that a pointer refers to as the encoder did.
CountsAgree ==
  \A k \in DOMAIN encoded :
    Types[encoded[k].type].kind = "ptr" /\ encoded[k].units[1] = PtrIndex
      => \E j \in DOMAIN encoded \cap DOMAIN decoded :
           /\ encoded[j].addr = world.memory[encoded[k].addr]
           /\ encoded[j].count = encoded[k].units[2]
           /\ decoded[j].count = encoded[j].count

\* One value of type t was encoded at address a and decoded at address b.
Linked(t, a, b) ==
  \E k \in DOMAIN encoded :
    /\ encoded[k].type = t /\ encoded[k].addr = a
    /\ k \in DOMAIN decoded /\ decoded[k].type = t /\ decoded[k].addr = b

\* Elements i of two tuples or arrays at a and b are the same.
SameElement(t, a, b, i) ==
  LET e == Types[t].elem
      d == i * Types[e].size
  IN  IF IsScalar(e) THEN world.memory[At(a, i)] = memory[At(b, i)]
      ELSE Linked(e, At(a, d), At(b, d))

\* The value of type t at address a of the sender is the one at address b of
\* the receiver, as far as it does not lead on to other values.
SameValue(t, a, b) ==
  LET kind == Types[t].kind
      sent == world.memory[a]
      got == memory[b]
  IN  CASE kind = "scalar" -> sent = got
        [] kind \in {"string", "tuple"} ->
             sent.len = got.len /\ \A i \in 0..sent.len - 1 : SameElement(t, sent.data, got.data, i)
        [] kind = "array" -> \A i \in 0..Types[t].size - 1 : SameElement(t, a, b, i)
        [] kind = "struct" ->
             \A i \in DOMAIN Types[t].fields :
               Linked(Types[t].fields[i], At(a, Types[t].offsets[i]), At(b, Types[t].offsets[i]))
        [] kind = "ptr" -> (sent = Nil) = (got = Nil) /\
             (sent # Nil => Linked(Types[t].elem, sent, got))
        [] kind \in {"any", "union"} -> sent.type = got.type /\ Linked(sent.type, sent.data, got.data)

\* The receiver has what the sender has.
SameValues ==
  /\ decoder.result = "ok" /\ Len(decoded) = Len(encoded)
  /\ \A k \in DOMAIN encoded :
       decoded[k].type = encoded[k].type /\ SameValue(encoded[k].type, encoded[k].addr, decoded[k].addr)

\* A value whose pointers form a tree, or lead back to the top-level value,
\* arrives as it was sent, and a call arrives with its arguments; so does a
\* value with shared pointers when encoder and decoder happen to count alike.
RoundTrip ==
  phase = "done" /\ ~foreign /\ Complete /\ (TopOnly \/ CountsAgree) => SameValues

\* The verifier accepts what the encoder wrote for such a value.
EncodedIsVerified ==
  verifier.result # "none" /\ ~foreign /\ Complete /\ TopOnly => verifier.result = "ok"

\* Whoever wrote the wire: what the verifier accepts, the decoder and the host
\* of calls decode, to the last unit.
VerifiedIsDecoded ==
  phase = "done" /\ verifier.result = "ok"
    => decoder.result = "ok" /\ decoder.pos = Len(wire)

\* Loops included, encoding ends, and so do verifying and decoding.
Ends == <>(phase = "done")

\* A value arrives as it was sent, whatever its pointers share.
SharingPreserved ==
  phase = "done" /\ ~foreign /\ Complete => SameValues
=============================================================================
