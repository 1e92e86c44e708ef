----------------------------- MODULE MCEtnCodec -----------------------------
(* A few types of every kind, and values of them.                          *)
EXTENDS EtnCodec, TLC

Base(kind) == [kind |-> kind, size |-> 1]
Of(kind, elem, size) == [kind |-> kind, elem |-> elem, size |-> size]
Struct(fields, size) ==
  [kind |-> "struct", size |-> size, fields |-> fields,
   offsets |-> [i \in DOMAIN fields |-> i - 1]]

MCTypes ==
  [int    |-> Base("scalar"),
   str    |-> Of("string", "int", 1),
   ptr    |-> Of("ptr", "node", 1),
   node   |-> Struct(<<"int", "ptr">>, 2),
   fork   |-> Struct(<<"str", "ptr", "ptr">>, 3),
   ptrs   |-> Of("tuple", "ptr", 1),
   pair   |-> Of("array", "ptr", 2),
   ints   |-> Of("array", "int", 2),
   any    |-> Base("any"),
   dict   |-> Base("dict"),
   union  |-> [kind |-> "union", size |-> 1, fields |-> <<"str", "ints">>],
   bag    |-> [kind |-> "struct", size |-> 3, fields |-> <<"any", "union", "int">>, offsets |-> <<0, 1, 2>>],
   iface  |-> [kind |-> "iface", size |-> 1, methods |-> <<"node", "bag">>]]

MCHashes == [node |-> <<1>>, ints |-> <<2>>, ptr |-> <<3>>, dict |-> <<4>>]

A(b, o) == <<b, o>>

\* Nodes n of block b: a number and a pointer.
Node(b, x, next) == A(b, 0) :> x @@ A(b, 1) :> next

One(type, cells) ==
  [type |-> type, memory |-> cells, values |-> <<[type |-> type, addr |-> A(1, 0)]>>]

CallOf(call, type, cells) ==
  [type |-> "iface", memory |-> A(9, 0) :> call @@ cells,
   values |-> <<[type |-> "int", addr |-> A(9, 0)], [type |-> type, addr |-> A(1, 0)]>>]

Text == A(5, 0) :> 1 @@ A(5, 1) :> 0
Ref(b, len) == [data |-> A(b, 0), len |-> len]
Held(type, b) == [type |-> type, data |-> A(b, 0)]

List == Node(1, 1, A(2, 0)) @@ Node(2, 0, Nil)
Ring == Node(1, 1, A(2, 0)) @@ Node(2, 0, A(1, 0))
Fork == A(1, 0) :> Ref(5, 2) @@ A(1, 1) :> A(2, 0) @@ A(1, 2) :> A(3, 0) @@ Text
Bag(held, type) ==
  A(1, 0) :> held @@ A(1, 1) :> Held(type, 3) @@ A(1, 2) :> 1 @@ A(3, 0) :> 1 @@ A(3, 1) :> 2

Trees == {
  One("int", A(1, 0) :> 1),
  One("node", List),
  One("node", Ring),
  One("fork", Fork @@ Node(2, 1, Nil) @@ Node(3, 0, Nil)),
  One("ptrs", A(1, 0) :> Ref(4, 2) @@ A(4, 0) :> A(2, 0) @@ A(4, 1) :> Nil @@ Node(2, 1, Nil)),
  One("pair", A(1, 0) :> A(2, 0) @@ A(1, 1) :> A(3, 0) @@ Node(2, 1, Nil) @@ Node(3, 0, Nil)),
  One("bag", Bag(Held("ints", 2), "ints") @@ A(2, 0) :> 1 @@ A(2, 1) :> 0),
  CallOf(0, "node", Ring),
  CallOf(1, "bag", Bag(Held("node", 2), "ints") @@ Node(2, 1, Nil))}

\* A loop that does not reach the first node, a node that is its own
\* successor, and two pointers to one node, behind a string of two and of
\* one character; behind one character, both sides count the node alike.
Shared == {
  One("fork", A(1, 0) :> Ref(5, 1) @@ A(1, 2) :> A(2, 0) @@ Fork @@ Node(2, 1, Nil)),
  One("node", Node(1, 1, A(2, 0)) @@ Node(2, 0, A(3, 0)) @@ Node(3, 1, A(2, 0))),
  One("node", Node(1, 1, A(2, 0)) @@ Node(2, 0, A(2, 0))),
  One("fork", (A(1, 2) :> A(2, 0)) @@ Fork @@ Node(2, 1, Nil))}

\* Kinds that are not implemented, types that are not registered, and a union
\* that holds no type of its own.
Failing == {
  One("bag", Bag(Held("dict", 2), "ints") @@ A(2, 0) :> 0),
  One("bag", Bag(Held("str", 2), "ints") @@ A(2, 0) :> Ref(5, 0)),
  One("bag", Bag(Held("ints", 2), "node") @@ A(2, 0) :> 1 @@ A(2, 1) :> 0),
  One("dict", A(1, 0) :> 0)}

\* The values of a world: those it sends, and those that they lead to.
Leads(w, t, a) ==
  LET kind == Types[t].kind
      elem == Types[t].elem
      cell == w.memory[a]
      places(values) == {<<values[i].type, values[i].addr>> : i \in DOMAIN values}
  IN  CASE kind \in {"string", "tuple"} /\ ~IsScalar(elem) -> places(Elements(t, cell.data, cell.len))
        [] kind = "array" /\ ~IsScalar(elem) -> places(Elements(t, a, Types[t].size))
        [] kind = "struct" -> places(Fields(t, a))
        [] kind = "ptr" /\ cell # Nil -> {<<elem, cell>>}
        [] kind = "any" /\ cell.type \in DOMAIN Hashes -> {<<cell.type, cell.data>>}
        [] kind = "union" /\ Choices(t, cell.type) # {} -> {<<cell.type, cell.data>>}
        [] OTHER -> {}

RECURSIVE Reached(_, _)
Reached(w, found) ==
  LET more == found \cup UNION {Leads(w, p[1], p[2]) : p \in found}
  IN  IF more = found THEN found ELSE Reached(w, more)

MCPlaces(w) == Reached(w, {<<w.values[i].type, w.values[i].addr>> : i \in DOMAIN w.values})

AllWorlds == Trees \cup Shared \cup Failing
MCUnits == 0..6

\* Every value takes the cells of its size: the elements of the arrays are of
\* one cell.
MCExtent == [t \in DOMAIN MCTypes |-> MCTypes[t].size]

ASSUME InterfacesOnTop
ASSUME LaidOut
ASSUME OneTypeEach
=============================================================================
