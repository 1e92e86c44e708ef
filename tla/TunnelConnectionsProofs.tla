----------------------- MODULE TunnelConnectionsProofs -----------------------
(***************************************************************************)
(* What TLAPS proves of the tables of module TunnelConnections, for tables *)
(* that grow to any size and for any number of connections and messages:   *)
(* their types, and that the free list is sound.                           *)
(*                                                                         *)
(* A table is changed by IncreaseSpace, Allocate, Accept and Release, and  *)
(* by an entry that stays a connection.  There is one lemma for each; they *)
(* are about a table, not about the state of the system.                   *)
(***************************************************************************)
EXTENDS TunnelConnections, SequenceTheorems, TLAPS

-----------------------------------------------------------------------------
(* Constants.                                                              *)

LEMMA Sizes ==
  /\ FirstAllocation \in TableSizes /\ FirstAllocation >= 4
  /\ \A z \in TableSizes : z \in Nat /\ z >= FirstAllocation /\ z >= 4 /\ z % 2 = 0
  /\ \A y, z \in TableSizes : y < z => 2 * y \in TableSizes /\ 2 * y <= z
<1>1. FirstAllocation \in Nat BY ConnectionsAssumption
<1> QED BY <1>1, ConnectionsAssumption

LEMMA IdFacts ==
  /\ \A i \in Ids : i \in Nat /\ i \in Int /\ \E z \in TableSizes : i < z
  /\ \A z \in TableSizes : \A i \in 0..(z - 1) : i \in Ids
  /\ 0 \in Ids /\ 1 \in Ids /\ 2 \in Ids
<1>1. \A i \in Ids : i \in Nat /\ i \in Int /\ \E z \in TableSizes : i < z
  BY Sizes DEF Ids
<1>2. \A z \in TableSizes : \A i \in 0..(z - 1) : i \in Ids
  BY DEF Ids
<1>3. {0, 1, 2} \subseteq 0..(FirstAllocation - 1)
  BY Sizes
<1> QED BY <1>1, <1>2, <1>3, Sizes

LEMMA Sides ==
  /\ Side = {0, 1}
  /\ \A s \in Side : Peer(s) \in Side /\ Peer(s) # s /\ Peer(Peer(s)) = s
  /\ \A s, r \in Side : r = s \/ r = Peer(s)
BY DEF Side, Peer

-----------------------------------------------------------------------------
(* Tables.                                                                 *)

\* What holds of the table of side s.
Entries(s, t) ==
  /\ t \in Table
  /\ t.allocated \in {0} \cup TableSizes
  /\ \A i \in Ids : Live(t, i) =>
       /\ i < t.allocated
       /\ mySideConnectionId(s, i) => i \notin Skipped(s)
       /\ ~mySideConnectionId(s, i) => t.array[i].status = "established"

ListSound(s, t) ==
  /\ \A i \in {0} \cup FreeIds(s, t) : Link(t, i) \in {0} \cup FreeIds(s, t)
  /\ \A i \in FreeIds(s, t) : \E j \in {0} \cup FreeIds(s, t) :
       Link(t, j) = i /\ \A k \in {0} \cup FreeIds(s, t) : Link(t, k) = i => k = j

\* The links lead downwards, so none of them can lead back.
ListEnds(s, t) ==
  \E rank \in [Ids -> Nat] : \A i \in FreeIds(s, t) :
    Link(t, i) # 0 => rank[Link(t, i)] < rank[i]

Sound(s, t) == Entries(s, t) /\ ListSound(s, t) /\ ListEnds(s, t)

LEMMA TableFields ==
  ASSUME NEW t \in Table
  PROVE  /\ t.array \in [Ids -> Entry] /\ t.allocated \in Nat /\ t.free \in Ids
         /\ t.control \in {0, 1, 2}
         /\ \A i \in Ids : /\ t.array[i] \in Entry
                           /\ t.array[i].status \in {"unused", "initiated", "established"}
                           /\ t.array[i].link \in Ids
<1>1. /\ t.array \in [Ids -> Entry] /\ t.allocated \in Nat /\ t.free \in Ids
      /\ t.control \in {0, 1, 2}
  BY DEF Table
<1>2. \A e \in Entry : e.status \in {"unused", "initiated", "established"} /\ e.link \in Ids
  BY DEF Entry
<1> QED BY <1>1, <1>2

LEMMA EntryTypes ==
  /\ \A link \in Ids : Unused(link) \in Entry /\ Unused(link).status = "unused"
                       /\ Unused(link).link = link
  /\ \A status \in {"unused", "initiated", "established"} :
       Connection(status) \in Entry /\ Connection(status).status = status
BY IdFacts DEF Unused, Connection, Entry, NoPacket

\* A free id is an id of this side's, neither 0 nor at or above the size.
LEMMA FreeIdFacts ==
  ASSUME NEW s \in Side, NEW t \in Table, NEW i \in FreeIds(s, t)
  PROVE  i \in Ids /\ i \in Nat /\ i > 0 /\ i < t.allocated /\ i % 2 = s
         /\ i \notin Skipped(s) /\ ~Live(t, i)
BY IdFacts DEF FreeIds, Skipped, mySideConnectionId, Side

-----------------------------------------------------------------------------
(* Growth.                                                                 *)

Grown(t) == IF t.allocated = 0 THEN FirstAllocation ELSE 2 * t.allocated

\* The ids of side s above size a, when the table grows to size z.
First(s, a) == a + (IF s = 1 THEN 1 ELSE 2)
Last(s, z) == z - (IF s = 1 THEN 1 ELSE 2)
Above(s, a, z) == {i \in (a + 1)..Last(s, z) : i % 2 = s}

\* There are such ids, two apart, and none of them is a size.
LEMMA AboveFacts ==
  ASSUME NEW s \in Side, NEW a \in {0} \cup TableSizes, NEW z \in TableSizes,
         a = 0 => z = FirstAllocation, a # 0 => z = 2 * a
  PROVE  /\ a \in Nat /\ z \in Nat /\ a < z
         /\ First(s, a) \in Above(s, a, z) /\ Last(s, z) \in Above(s, a, z)
         /\ \A i \in Above(s, a, z) :
              /\ i \in Ids /\ i \in Nat /\ i > a /\ i < z /\ i % 2 = s /\ i \notin Skipped(s)
              /\ i >= First(s, a) /\ i <= Last(s, z)
              /\ i # Last(s, z) => i + 2 \in Above(s, a, z)
              /\ i # First(s, a) => i - 2 \in Above(s, a, z)
         /\ \A i \in Ids : i % 2 = s /\ i >= a /\ i < z /\ i \notin Skipped(s)
                             => i \in Above(s, a, z)
<1>1. /\ a \in Nat /\ a % 2 = 0 /\ z \in Nat /\ z % 2 = 0 /\ z >= a + 4 /\ s \in {0, 1}
      /\ a = 0 \/ a \in TableSizes
  BY Sizes DEF Side
<1>2. First(s, a) \in Above(s, a, z) /\ Last(s, z) \in Above(s, a, z)
  BY <1>1 DEF First, Last, Above
<1>3. ASSUME NEW i \in Above(s, a, z)
      PROVE  /\ i \in Ids /\ i \in Nat /\ i > a /\ i < z /\ i % 2 = s /\ i \notin Skipped(s)
             /\ i >= First(s, a) /\ i <= Last(s, z)
             /\ i # Last(s, z) => i + 2 \in Above(s, a, z)
             /\ i # First(s, a) => i - 2 \in Above(s, a, z)
  <2>1. i \in Nat /\ i > a /\ i < z /\ i % 2 = s /\ i >= First(s, a) /\ i <= Last(s, z)
    BY <1>1 DEF Above, First, Last
  <2>2. i \in Ids
    BY <1>1, <2>1, IdFacts
  <2>3. i \notin TableSizes
    BY <1>1, <2>1, Sizes
  <2>4. i \notin Skipped(s)
    BY <2>1, <2>3, <1>1 DEF Skipped
  <2>5. i # Last(s, z) => i + 2 \in Above(s, a, z)
    BY <1>1, <2>1 DEF Above, Last
  <2>6. i # First(s, a) => i - 2 \in Above(s, a, z)
    BY <1>1, <2>1 DEF Above, First, Last
  <2> QED BY <2>1, <2>2, <2>4, <2>5, <2>6
<1>4. ASSUME NEW i \in Ids, i % 2 = s, i >= a, i < z, i \notin Skipped(s)
      PROVE  i \in Above(s, a, z)
  <2>1. i \in Nat BY IdFacts
  <2>2. i # a
    BY <1>1, <1>4 DEF Skipped
  <2> QED BY <1>1, <1>4, <2>1, <2>2 DEF Above, Last
<1> QED BY <1>1, <1>2, <1>3, <1>4

\* What _tunnelConnectionIncreaseSpace does to a sound table.
LEMMA IncreaseSpaceFields ==
  ASSUME NEW s \in Side, NEW t \in Table, Entries(s, t), Grown(t) \in TableSizes
  PROVE  LET g == IncreaseSpace(s, t)
             z == Grown(t)
             mine == Above(s, t.allocated, z)
             last == Last(s, z)
         IN /\ g \in Table /\ g.allocated = z /\ g.free = First(s, t.allocated)
            /\ g.control = t.control
            /\ \A i \in mine : g.array[i] = Unused(IF i = last THEN t.free ELSE i + 2)
            /\ \A i \in Ids \ mine : g.array[i] = t.array[i]
            /\ \A i \in Ids : Live(g, i) <=> Live(t, i)
            /\ \A i \in Ids : Live(t, i) => i \notin mine
<1> DEFINE z == Grown(t)
           a == t.allocated
           last == Last(s, z)
           mine == Above(s, a, z)
           g == IncreaseSpace(s, t)
           array == [i \in Ids |-> IF i \in mine THEN Unused(IF i = last THEN t.free ELSE i + 2)
                                   ELSE t.array[i]]
<1>1. a \in {0} \cup TableSizes /\ z \in TableSizes /\ (a = 0 => z = FirstAllocation)
      /\ (a # 0 => z = 2 * a)
  BY DEF Entries, Grown
<1>2. g = [t EXCEPT !.array = array, !.free = First(s, a), !.allocated = z]
  BY DEF IncreaseSpace, Grown, Above, First, Last, mySideConnectionId
<1>3. t.array \in [Ids -> Entry] /\ t.free \in Ids
  BY TableFields
<1> HIDE DEF z
<1>4. /\ First(s, a) \in mine /\ last \in mine
      /\ \A i \in mine : i \in Ids /\ i > a /\ (i # last => i + 2 \in Ids)
      /\ z \in Nat
  <2> HIDE DEF a
  <2>1. /\ First(s, a) \in mine /\ last \in mine /\ z \in Nat
        /\ \A i \in mine : i \in Ids /\ i > a /\ (i # last => i + 2 \in mine)
    BY <1>1, AboveFacts
  <2> QED BY <2>1
<1>5. \A i \in Ids : array[i] = IF i \in mine THEN Unused(IF i = last THEN t.free ELSE i + 2)
                                ELSE t.array[i]
  OBVIOUS
<1>6. \A i \in mine : (IF i = last THEN t.free ELSE i + 2) \in Ids
  BY <1>3, <1>4
<1>7. array \in [Ids -> Entry]
  BY <1>3, <1>6, EntryTypes
<1> HIDE DEF array, mine, last
<1>8. g \in Table /\ g.array = array /\ g.allocated = z /\ g.free = First(s, a)
      /\ g.control = t.control
  BY <1>2, <1>4, <1>7 DEF Table
<1>9. \A i \in Ids : Live(t, i) => i \notin mine
  BY <1>4, IdFacts, TableFields DEF Entries
<1>10. \A i \in mine : ~Live(g, i)
  BY <1>4, <1>5, <1>6, <1>8, EntryTypes DEF Live
<1>11. \A i \in Ids : Live(g, i) <=> Live(t, i)
  BY <1>5, <1>8, <1>9, <1>10 DEF Live
<1> QED BY <1>4, <1>5, <1>8, <1>9, <1>11 DEF z, mine, last

\* The ids it adds are put on the list before those that were there.
LEMMA IncreaseSpaceFree ==
  ASSUME NEW s \in Side, NEW t \in Table, Entries(s, t), Grown(t) \in TableSizes
  PROVE  FreeIds(s, IncreaseSpace(s, t))
           = FreeIds(s, t) \cup Above(s, t.allocated, Grown(t))
<1> DEFINE g == IncreaseSpace(s, t)
           z == Grown(t)
           a == t.allocated
           mine == Above(s, a, z)
<1>1. a \in {0} \cup TableSizes /\ z \in TableSizes /\ (a = 0 => z = FirstAllocation)
      /\ (a # 0 => z = 2 * a)
  BY DEF Entries, Grown
<1>2. /\ g.allocated = z
      /\ \A i \in Ids : Live(g, i) <=> Live(t, i)
      /\ \A i \in Ids : Live(t, i) => i < a /\ i \notin mine
  BY IncreaseSpaceFields DEF Entries
<1> HIDE DEF g, z, a
<1>3. /\ a \in Nat /\ z \in Nat /\ a < z
      /\ \A i \in mine : i \in Ids /\ i \in Nat /\ i > a /\ i < z /\ i % 2 = s /\ i \notin Skipped(s)
      /\ \A i \in Ids : i % 2 = s /\ i >= a /\ i < z /\ i \notin Skipped(s) => i \in mine
  BY <1>1, AboveFacts
<1> HIDE DEF mine
<1>4. \A i \in Ids : i \in FreeIds(s, g) <=>
        i < z /\ i % 2 = s /\ i \notin Skipped(s) /\ ~Live(t, i)
  BY <1>2 DEF FreeIds, mySideConnectionId
<1>5. \A i \in Ids : i \in FreeIds(s, t) <=>
        i < a /\ i % 2 = s /\ i \notin Skipped(s) /\ ~Live(t, i)
  BY DEF FreeIds, mySideConnectionId, a
<1>6. \A i \in Ids : i \in FreeIds(s, g) <=> i \in FreeIds(s, t) \/ i \in mine
  BY <1>2, <1>3, <1>4, <1>5, IdFacts
<1>7. FreeIds(s, g) \subseteq Ids /\ FreeIds(s, t) \subseteq Ids /\ mine \subseteq Ids
  BY <1>3 DEF FreeIds
<1>8. FreeIds(s, g) = FreeIds(s, t) \cup mine
  BY <1>6, <1>7
<1> QED BY <1>8 DEF g, mine, a, z

LEMMA IncreaseSpaceSound ==
  ASSUME NEW s \in Side, NEW t \in Table, Sound(s, t), Grown(t) \in TableSizes
  PROVE  Sound(s, IncreaseSpace(s, t))
<1> DEFINE g == IncreaseSpace(s, t)
           z == Grown(t)
           a == t.allocated
           mine == Above(s, a, z)
           first == First(s, a)
           last == Last(s, z)
           old == FreeIds(s, t)
<1>1. a \in {0} \cup TableSizes /\ z \in TableSizes /\ (a = 0 => z = FirstAllocation)
      /\ (a # 0 => z = 2 * a) /\ Entries(s, t)
  BY DEF Sound, Entries, Grown
<1>2. /\ g \in Table /\ g.allocated = z /\ g.free = first
      /\ \A i \in mine : g.array[i] = Unused(IF i = last THEN t.free ELSE i + 2)
      /\ \A i \in Ids \ mine : g.array[i] = t.array[i]
      /\ \A i \in Ids : Live(g, i) <=> Live(t, i)
      /\ \A i \in Ids : Live(t, i) => i \notin mine
  BY <1>1, IncreaseSpaceFields
<1>3. FreeIds(s, g) = old \cup mine
  BY <1>1, IncreaseSpaceFree
<1> HIDE DEF g, z, a
<1>4. /\ a \in Nat /\ z \in Nat /\ a < z
      /\ first \in mine /\ last \in mine
      /\ \A i \in mine :
           /\ i \in Ids /\ i \in Nat /\ i > a /\ i < z /\ i >= first /\ i <= last
           /\ i # last => i + 2 \in mine
           /\ i # first => i - 2 \in mine
  BY <1>1, AboveFacts
<1>5. \A i \in old : i \in Ids /\ i \in Nat /\ i > 0 /\ i < a /\ i \notin mine
  BY <1>4, FreeIdFacts DEF a
<1>6. /\ t.free \in {0} \cup old /\ t.free \in Ids /\ t.free \in Nat
      /\ \A i \in old : t.array[i].link \in {0} \cup old /\ t.array[i].link \in Ids
      /\ first \in Nat /\ last \in Nat
  <2>1. Link(t, 0) = t.free /\ \A i \in old : Link(t, i) = t.array[i].link
    BY <1>5 DEF Link
  <2>2. \A i \in {0} \cup old : Link(t, i) \in {0} \cup old
    BY DEF Sound, ListSound
  <2> QED BY <1>4, <1>5, <2>1, <2>2, IdFacts
<1> HIDE DEF mine, first, last, old
<1>7. /\ Link(g, 0) = first
      /\ Link(g, last) = t.free
      /\ \A i \in mine : i # last => Link(g, i) = i + 2
      /\ \A i \in old : Link(g, i) = Link(t, i)
  <2>1. \A i \in mine : i # 0 BY <1>4
  <2>2. \A i \in mine : (IF i = last THEN t.free ELSE i + 2) \in Ids
    BY <1>4, <1>6
  <2>3. \A i \in mine : g.array[i].link = IF i = last THEN t.free ELSE i + 2
    BY <1>2, <2>2, EntryTypes
  <2> QED BY <1>2, <1>4, <1>5, <2>1, <2>3 DEF Link
<1>8. Entries(s, g)
  <2>1. \A i \in Ids : Live(g, i) =>
          /\ i < g.allocated
          /\ mySideConnectionId(s, i) => i \notin Skipped(s)
          /\ ~mySideConnectionId(s, i) => g.array[i].status = "established"
    <3> TAKE i \in Ids
    <3> HAVE Live(g, i)
    <3>1. Live(t, i) /\ g.array[i] = t.array[i] BY <1>2
    <3>2. i < a /\ i \in Nat BY <1>1, <3>1, IdFacts DEF Entries, a
    <3> QED BY <1>1, <1>2, <1>4, <3>1, <3>2 DEF Entries
  <2> QED BY <1>1, <1>2, <2>1 DEF Entries
<1>9. ListSound(s, g)
  <2> DEFINE nodes == {0} \cup old \cup mine
  <2>1. \A i \in nodes : Link(g, i) \in nodes
    BY <1>4, <1>6, <1>7 DEF Link
  <2>2. ASSUME NEW i \in mine
        PROVE  \E j \in nodes : Link(g, j) = i /\ \A k \in nodes : Link(g, k) = i => k = j
    <3>1. \A k \in old : Link(g, k) # i
      BY <1>4, <1>5, <1>6, <1>7 DEF Link
    <3>2. Link(g, last) # i
      BY <1>4, <1>5, <1>6, <1>7
    <3>3. CASE i = first
      <4>1. \A k \in mine : k # last => Link(g, k) # first
        BY <1>4, <1>6, <1>7
      <4> QED BY <1>7, <3>1, <3>2, <3>3, <4>1
    <3>4. CASE i # first
      <4>1. i - 2 \in mine /\ i - 2 # last /\ Link(g, i - 2) = i
        BY <1>4, <1>6, <1>7, <3>4
      <4>2. \A k \in mine : k # last /\ Link(g, k) = i => k = i - 2
        BY <1>4, <1>7
      <4> QED BY <1>7, <3>1, <3>2, <3>4, <4>1, <4>2
    <3> QED BY <3>3, <3>4
  <2>3. ASSUME NEW i \in old
        PROVE  \E j \in nodes : Link(g, j) = i /\ \A k \in nodes : Link(g, k) = i => k = j
    <3>1. PICK j \in {0} \cup old : Link(t, j) = i /\ \A k \in {0} \cup old : Link(t, k) = i => k = j
      BY DEF Sound, ListSound, old
    <3>2. \A k \in mine : k # last => Link(g, k) # i
      BY <1>4, <1>5, <1>7
    <3>3. Link(g, 0) # i
      BY <1>4, <1>5, <1>7
    <3>4. Link(t, 0) = t.free BY DEF Link
    <3>5. CASE j = 0
      <4>1. Link(g, last) = i BY <1>7, <3>1, <3>4, <3>5
      <4>2. \A k \in old : Link(g, k) # i BY <1>5, <1>7, <3>1, <3>5
      <4> QED BY <1>4, <3>2, <3>3, <4>1, <4>2
    <3>6. CASE j # 0
      <4>1. j \in old /\ Link(g, j) = i BY <1>7, <3>1, <3>6
      <4>2. Link(g, last) # i BY <1>7, <3>1, <3>4, <3>6
      <4>3. \A k \in old : Link(g, k) = i => k = j BY <1>7, <3>1
      <4> QED BY <3>2, <3>3, <4>1, <4>2, <4>3
    <3> QED BY <3>5, <3>6
  <2> QED BY <1>3, <2>1, <2>2, <2>3 DEF ListSound
<1>10. ListEnds(s, g)
  <2>1. PICK rank \in [Ids -> Nat] :
          \A i \in old : Link(t, i) # 0 => rank[Link(t, i)] < rank[i]
    BY DEF Sound, ListEnds, old
  <2> DEFINE higher == [i \in Ids |-> IF i \in mine THEN rank[t.free] + 1 + (z - i) ELSE rank[i]]
  <2>2. rank[t.free] \in Nat /\ \A i \in Ids : rank[i] \in Nat
    BY <1>6, <2>1
  <2>3. \A i \in mine : rank[t.free] + 1 + (z - i) \in Nat
    <3> TAKE i \in mine
    <3>1. z - i \in Nat BY <1>4
    <3> QED BY <2>2, <3>1
  <2>4. higher \in [Ids -> Nat]
    BY <2>2, <2>3
  <2>5. \A i \in mine : higher[i] = rank[t.free] + 1 + (z - i)
    BY <1>4
  <2>6. \A i \in Ids : i \notin mine => higher[i] = rank[i]
    OBVIOUS
  <2> HIDE DEF higher
  <2>7. ASSUME NEW i \in old, Link(g, i) # 0
        PROVE  higher[Link(g, i)] < higher[i]
    <3>1. Link(g, i) = Link(t, i) /\ Link(t, i) \in old /\ Link(t, i) \notin mine
      BY <1>5, <1>6, <1>7, <2>7 DEF Link
    <3> QED BY <1>5, <2>1, <2>6, <3>1
  <2>8. ASSUME NEW i \in mine, Link(g, i) # 0
        PROVE  higher[Link(g, i)] < higher[i]
    <3>1. CASE i = last
      <4>1. Link(g, i) \in old /\ Link(g, i) = t.free
        BY <1>6, <1>7, <2>8, <3>1
      <4>2. higher[Link(g, i)] = rank[t.free]
        BY <1>5, <2>6, <4>1
      <4> QED BY <1>4, <2>2, <2>5, <4>2
    <3>2. CASE i # last
      <4>1. Link(g, i) = i + 2 /\ i + 2 \in mine
        BY <1>4, <1>7, <3>2
      <4> QED BY <1>4, <2>2, <2>5, <4>1
    <3> QED BY <3>1, <3>2
  <2> QED BY <1>3, <2>4, <2>7, <2>8 DEF ListEnds
<1> QED BY <1>8, <1>9, <1>10 DEF Sound, g

-----------------------------------------------------------------------------
(* The other operations.                                                   *)

\* The head of the list leaves it, and becomes a connection.
Taken(t) == [t EXCEPT !.free = t.array[t.free].link,
                      !.array[t.free] = Connection("initiated")]

LEMMA TakeHead ==
  ASSUME NEW s \in Side, NEW t, Sound(s, t), t.free # 0, NEW u, u = Taken(t)
  PROVE  /\ Sound(s, u)
         /\ t.free \in FreeIds(s, t)
         /\ u.array[t.free] = Connection("initiated")
         /\ \A i \in Ids : i # t.free => u.array[i] = t.array[i]
         /\ u.allocated = t.allocated /\ u.control = t.control
<1> DEFINE id == t.free
           free == FreeIds(s, t)
<1>1. t \in Table /\ Entries(s, t) /\ ListSound(s, t) /\ ListEnds(s, t)
  BY DEF Sound, Entries
<1>2. id \in free
  <2>1. Link(t, 0) = id BY DEF Link
  <2> QED BY <1>1, <2>1 DEF ListSound
<1>3. \A i \in free : i \in Ids /\ i \in Nat /\ i > 0 /\ i < t.allocated /\ i % 2 = s
                        /\ i \notin Skipped(s) /\ ~Live(t, i)
  BY <1>1, FreeIdFacts
<1>4. /\ t.array \in [Ids -> Entry] /\ t.array[id].link \in Ids
      /\ u.array = [t.array EXCEPT ![id] = Connection("initiated")]
      /\ u.free = t.array[id].link /\ u.allocated = t.allocated /\ u.control = t.control
  BY <1>1, TableFields DEF Table, Taken
<1>5. u.array \in [Ids -> Entry]
  <2>1. Connection("initiated") \in Entry BY EntryTypes
  <2>2. t.array \in [Ids -> Entry] /\ u.array = [t.array EXCEPT ![id] = Connection("initiated")]
    BY <1>4
  <2> HIDE DEF id
  <2> QED BY <2>1, <2>2
<1>6. u \in Table
  BY <1>1, <1>4, <1>5 DEF Table, Taken
<1>7. u.array[id] = Connection("initiated") /\ \A i \in Ids : i # id => u.array[i] = t.array[i]
  BY <1>2, <1>3, <1>4
<1>8. Live(u, id) /\ \A i \in Ids : i # id => (Live(u, i) <=> Live(t, i))
  BY <1>7, EntryTypes DEF Live
<1>9. FreeIds(s, u) = free \ {id}
  BY <1>3, <1>4, <1>8 DEF FreeIds
<1>10. Entries(s, u)
  <2>1. \A i \in Ids : Live(u, i) =>
          /\ i < u.allocated
          /\ mySideConnectionId(s, i) => i \notin Skipped(s)
          /\ ~mySideConnectionId(s, i) => u.array[i].status = "established"
    BY <1>1, <1>2, <1>3, <1>4, <1>7, <1>8 DEF Entries, mySideConnectionId
  <2> QED BY <1>1, <1>4, <1>6, <2>1 DEF Entries
<1>11. /\ Link(u, 0) = Link(t, id) /\ Link(t, 0) = id
       /\ \A i \in free \ {id} : Link(u, i) = Link(t, i)
  BY <1>2, <1>3, <1>4, <1>7 DEF Link
<1>12. \A k \in {0} \cup free : Link(t, k) = id => k = 0
  <2>1. PICK j \in {0} \cup free : \A k \in {0} \cup free : Link(t, k) = id => k = j
    BY <1>1, <1>2 DEF ListSound
  <2> QED BY <1>11, <2>1
<1> HIDE DEF id, free
<1>13. ListSound(s, u)
  <2>1. \A i \in {0} \cup (free \ {id}) : Link(u, i) \in {0} \cup (free \ {id})
    <3>1. \A i \in {0} \cup free : Link(t, i) \in {0} \cup free
      BY <1>1 DEF ListSound, free
    <3> QED BY <1>2, <1>3, <1>11, <1>12, <3>1
  <2>2. ASSUME NEW i \in free \ {id}
        PROVE  \E j \in {0} \cup (free \ {id}) :
                 Link(u, j) = i /\ \A k \in {0} \cup (free \ {id}) : Link(u, k) = i => k = j
    <3>1. PICK j \in {0} \cup free : Link(t, j) = i /\ \A k \in {0} \cup free : Link(t, k) = i => k = j
      BY <1>1 DEF ListSound, free
    <3>2. j # 0 BY <1>11, <3>1, <2>2
    <3>3. CASE j = id BY <1>2, <1>11, <3>1, <3>3
    <3>4. CASE j # id
      <4>1. j \in free \ {id} /\ Link(u, j) = i BY <1>11, <3>1, <3>2, <3>4
      <4>2. Link(u, 0) # i BY <1>2, <1>11, <3>1, <3>4
      <4>3. \A k \in free \ {id} : Link(u, k) = i => k = j BY <1>11, <3>1
      <4> QED BY <4>1, <4>2, <4>3
    <3> QED BY <3>3, <3>4
  <2> QED BY <1>9, <2>1, <2>2 DEF ListSound
<1>14. ListEnds(s, u)
  <2>1. PICK rank \in [Ids -> Nat] :
          \A i \in free : Link(t, i) # 0 => rank[Link(t, i)] < rank[i]
    BY <1>1 DEF ListEnds, free
  <2>2. \A i \in FreeIds(s, u) : Link(u, i) # 0 => rank[Link(u, i)] < rank[i]
    BY <1>9, <1>11, <2>1
  <2> QED BY <2>1, <2>2 DEF ListEnds
<1> QED BY <1>2, <1>4, <1>7, <1>10, <1>13, <1>14 DEF Sound, id, free

\* tunnelConnectionAllocate returns an id of this side's that is not in use.
LEMMA AllocateSound ==
  ASSUME NEW s \in Side, NEW t, Sound(s, t), Allocate(s, t).table.allocated \in TableSizes
  PROVE  LET u == Allocate(s, t).table
             id == Allocate(s, t).id
         IN /\ Sound(s, u)
            /\ id \in Ids /\ id > 0 /\ id % 2 = s /\ id < u.allocated /\ ~Live(t, id)
            /\ u.array[id] = Connection("initiated")
            /\ \A i \in Ids : i # id => (Live(u, i) <=> Live(t, i))
            /\ \A i \in Ids : Live(t, i) => u.array[i] = t.array[i]
            /\ u.control = t.control
            /\ \/ u.allocated = t.allocated
               \/ /\ u.allocated = Grown(t)
                  /\ id > t.allocated
<1> DEFINE g == IF t.free = 0 THEN IncreaseSpace(s, t) ELSE t
           u == Allocate(s, t).table
           id == Allocate(s, t).id
<1>1. id = g.free /\ u = Taken(g)
  BY DEF Allocate, Taken
<1>2. t \in Table /\ Entries(s, t)
  BY DEF Sound, Entries
<1>3. /\ Sound(s, g) /\ g.free # 0 /\ g.control = t.control
      /\ \A i \in Ids : Live(g, i) <=> Live(t, i)
      /\ \A i \in Ids : Live(t, i) => g.array[i] = t.array[i]
      /\ \/ g.allocated = t.allocated
         \/ g.allocated = Grown(t) /\ g.free > t.allocated
  <2>1. CASE t.free # 0
    BY <2>1
  <2>2. CASE t.free = 0
    <3>1. u.allocated = IncreaseSpace(s, t).allocated
      <4>1. g = IncreaseSpace(s, t) BY <2>2
      <4> HIDE DEF g, u
      <4>2. u.allocated = g.allocated BY <1>1 DEF Taken
      <4> QED BY <4>1, <4>2
    <3>2. IncreaseSpace(s, t).allocated = Grown(t)
      BY DEF IncreaseSpace, Grown
    <3>3. Grown(t) \in TableSizes BY <3>1, <3>2
    <3>4. Sound(s, IncreaseSpace(s, t)) BY <1>2, <3>3, IncreaseSpaceSound
    <3>5. /\ IncreaseSpace(s, t).free = First(s, t.allocated)
          /\ IncreaseSpace(s, t).control = t.control
          /\ \A i \in Ids : Live(IncreaseSpace(s, t), i) <=> Live(t, i)
          /\ \A i \in Ids : Live(t, i) => IncreaseSpace(s, t).array[i] = t.array[i]
      BY <1>2, <3>3, IncreaseSpaceFields
    <3>6. t.allocated \in Nat BY <1>2, TableFields
    <3>7. First(s, t.allocated) > t.allocated /\ First(s, t.allocated) # 0
      BY <3>6 DEF First
    <3> QED BY <2>2, <3>2, <3>4, <3>5, <3>7
  <2> QED BY <2>1, <2>2
<1> HIDE DEF g, u, id
<1>4. /\ Sound(s, u) /\ id \in FreeIds(s, g) /\ u.array[id] = Connection("initiated")
      /\ \A i \in Ids : i # id => u.array[i] = g.array[i]
      /\ u.allocated = g.allocated /\ u.control = g.control
  <2>1. /\ Sound(s, u) /\ g.free \in FreeIds(s, g) /\ u.array[g.free] = Connection("initiated")
        /\ \A i \in Ids : i # g.free => u.array[i] = g.array[i]
        /\ u.allocated = g.allocated /\ u.control = g.control
    BY <1>1, <1>3, TakeHead
  <2> QED BY <1>1, <2>1
<1>5. id \in Ids /\ id > 0 /\ id % 2 = s /\ id < g.allocated /\ ~Live(g, id)
  BY <1>3, <1>4, FreeIdFacts DEF Sound, Entries
<1>6. \A i \in Ids : i # id => (Live(u, i) <=> Live(g, i))
  BY <1>4 DEF Live
<1>7. \A i \in Ids : Live(t, i) => u.array[i] = t.array[i]
  BY <1>3, <1>4, <1>5
<1> QED BY <1>1, <1>3, <1>4, <1>5, <1>6, <1>7 DEF id, u

\* The list stays sound if its ids and links do.
LEMMA SameList ==
  ASSUME NEW s \in Side, NEW t, NEW u, Sound(s, t), Entries(s, u),
         FreeIds(s, u) = FreeIds(s, t),
         \A i \in {0} \cup FreeIds(s, t) : Link(u, i) = Link(t, i)
  PROVE  Sound(s, u)
<1>1. ListSound(s, u) BY DEF Sound, ListSound
<1>2. ListEnds(s, u) BY DEF Sound, ListEnds
<1> QED BY <1>1, <1>2 DEF Sound

\* An entry of the table becomes or stays a connection.
Connected(t, id, e, control) == [t EXCEPT !.array[id] = e, !.control = control]

LEMMA ConnectSound ==
  ASSUME NEW s \in Side, NEW t, Sound(s, t), NEW id \in Ids, NEW e \in Entry,
         NEW control \in {0, 1, 2}, e.status # "unused",
         mySideConnectionId(s, id) => Live(t, id),
         ~mySideConnectionId(s, id) => id < t.allocated /\ e.status = "established"
  PROVE  LET u == Connected(t, id, e, control)
         IN /\ Sound(s, u)
            /\ u.array[id] = e
            /\ \A i \in Ids : i # id => u.array[i] = t.array[i]
            /\ u.allocated = t.allocated /\ u.control = control
<1> DEFINE u == Connected(t, id, e, control)
<1>1. t \in Table /\ Entries(s, t) BY DEF Sound, Entries
<1>0. /\ u.array = [t.array EXCEPT ![id] = e] /\ u.free = t.free /\ u.allocated = t.allocated
      /\ u.control = control /\ u \in Table
  BY <1>1, TableFields DEF Connected, Table
<1> HIDE DEF u
<1>2. u.array[id] = e /\ \A i \in Ids : i # id => u.array[i] = t.array[i]
  BY <1>0, <1>1, TableFields
<1>3. Live(u, id) /\ \A i \in Ids : i # id => (Live(u, i) <=> Live(t, i))
  BY <1>2 DEF Live
<1>4. Entries(s, u)
  <2>1. \A i \in Ids : Live(u, i) =>
          /\ i < u.allocated
          /\ mySideConnectionId(s, i) => i \notin Skipped(s)
          /\ ~mySideConnectionId(s, i) => u.array[i].status = "established"
    BY <1>0, <1>1, <1>2, <1>3 DEF Entries
  <2> QED BY <1>0, <1>1, <2>1 DEF Entries
<1>5. FreeIds(s, u) = FreeIds(s, t)
  BY <1>0, <1>3 DEF FreeIds
<1>6. \A i \in {0} \cup FreeIds(s, t) : Link(u, i) = Link(t, i)
  <2>1. \A i \in FreeIds(s, t) : i \in Ids /\ i # id
    BY DEF FreeIds
  <2> QED BY <1>0, <1>2, <2>1 DEF Link
<1> QED BY <1>0, <1>2, <1>4, <1>5, <1>6, SameList DEF u

\* _tunnelConnectionAccept, when its assertions hold.
LEMMA AcceptSound ==
  ASSUME NEW s \in Side, NEW t, Sound(s, t), NEW id \in Ids,
         ~mySideConnectionId(s, id), id < RoomFor(s, t, id).allocated, ~Live(t, id)
  PROVE  LET u == Accept(s, t, id)
             g == RoomFor(s, t, id)
         IN /\ Sound(s, u)
            /\ u.array[id] = Connection("established")
            /\ \A i \in Ids : i # id => (Live(u, i) <=> Live(t, i))
            /\ \A i \in Ids : Live(t, i) => u.array[i] = t.array[i]
            /\ u.control = IF id \in {1, 2} THEN id ELSE t.control
            /\ u.allocated = g.allocated
            /\ g.allocated \in TableSizes
            /\ \/ g.allocated = t.allocated
               \/ g.allocated = Grown(t) /\ id >= t.allocated
<1> DEFINE u == Accept(s, t, id)
           g == RoomFor(s, t, id)
<1>1. t \in Table /\ Entries(s, t) /\ t.allocated \in Nat /\ id \in Nat
  BY IdFacts, TableFields DEF Sound, Entries
<1>2. /\ Sound(s, g) /\ g.control = t.control
      /\ \A i \in Ids : Live(g, i) <=> Live(t, i)
      /\ \A i \in Ids : Live(t, i) => g.array[i] = t.array[i]
      /\ \/ g.allocated = t.allocated
         \/ g.allocated = Grown(t) /\ id >= t.allocated
  <2>1. CASE ~(id >= t.allocated)
    BY <2>1 DEF RoomFor
  <2>2. CASE id >= t.allocated
    <3>1. g = IncreaseSpace(s, t) BY <2>2 DEF RoomFor
    <3>2. IncreaseSpace(s, t).allocated = Grown(t) BY DEF IncreaseSpace, Grown
    <3>3. Grown(t) \in TableSizes
      <4>1. CASE t.allocated = 0 BY <4>1, Sizes DEF Grown
      <4>2. CASE t.allocated \in TableSizes
        <5>1. PICK z \in TableSizes : id < z BY IdFacts
        <5>2. t.allocated < z /\ t.allocated # 0 BY <1>1, <2>2, <4>2, <5>1, Sizes
        <5> QED BY <4>2, <5>2, Sizes DEF Grown
      <4> QED BY <1>1, <4>1, <4>2 DEF Entries
    <3>4. Sound(s, IncreaseSpace(s, t)) BY <1>1, <3>3, IncreaseSpaceSound
    <3>5. /\ IncreaseSpace(s, t).control = t.control
          /\ \A i \in Ids : Live(IncreaseSpace(s, t), i) <=> Live(t, i)
          /\ \A i \in Ids : Live(t, i) => IncreaseSpace(s, t).array[i] = t.array[i]
      BY <1>1, <3>3, IncreaseSpaceFields
    <3> QED BY <2>2, <3>1, <3>2, <3>4, <3>5
  <2> QED BY <2>1, <2>2
<1>3. id < g.allocated OBVIOUS
<1> HIDE DEF g
<1>4. g \in Table /\ Entries(s, g) /\ g.array \in [Ids -> Entry] /\ g.allocated \in {0} \cup TableSizes
  <2>1. g \in Table BY <1>2 DEF Sound, Entries
  <2> QED BY <1>2, <2>1, TableFields DEF Sound, Entries
<1>5. g.allocated \in TableSizes
  BY <1>1, <1>3, <1>4
<1> DEFINE e == Connection("established")
           control == IF id \in {1, 2} THEN id ELSE g.control
<1>6. u = Connected(g, id, e, control)
  BY DEF Accept, Connected, g
<1>7. e \in Entry /\ e.status = "established" /\ e.status # "unused"
  BY EntryTypes
<1>8. control \in {0, 1, 2}
  BY <1>4, TableFields
<1> HIDE DEF u, e, control
<1>9. LET v == Connected(g, id, e, control)
      IN /\ Sound(s, v) /\ v.array[id] = e
         /\ \A i \in Ids : i # id => v.array[i] = g.array[i]
         /\ v.allocated = g.allocated /\ v.control = control
  BY <1>2, <1>3, <1>7, <1>8, ConnectSound
<1>10. /\ Sound(s, u) /\ u.array[id] = e
       /\ \A i \in Ids : i # id => u.array[i] = g.array[i]
       /\ u.allocated = g.allocated /\ u.control = control
  BY <1>6, <1>9
<1>11. \A i \in Ids : i # id => (Live(u, i) <=> Live(t, i))
  BY <1>2, <1>10 DEF Live
<1>12. \A i \in Ids : Live(t, i) => u.array[i] = t.array[i]
  BY <1>2, <1>10
<1> QED BY <1>2, <1>5, <1>10, <1>11, <1>12 DEF u, g, e, control

\* _tunnelConnectionRelease: an id of this side's becomes the head of the list.
LEMMA ReleaseSound ==
  ASSUME NEW s \in Side, NEW t, Sound(s, t), NEW id \in Ids, Live(t, id)
  PROVE  LET u == Release(s, t, id)
         IN /\ Sound(s, u)
            /\ u.array[id].status = "unused"
            /\ \A i \in Ids : i # id => u.array[i] = t.array[i]
            /\ u.allocated = t.allocated /\ u.control = t.control
<1> DEFINE u == Release(s, t, id)
           link == IF mySideConnectionId(s, id) THEN t.free ELSE 0
           free == FreeIds(s, t)
<1>1. t \in Table /\ Entries(s, t) /\ t.array \in [Ids -> Entry] /\ t.free \in Ids
  BY TableFields DEF Sound, Entries
<1>2. link \in Ids BY <1>1, IdFacts
<1>3. /\ u.array = [t.array EXCEPT ![id] = Unused(link)]
      /\ u.free = IF mySideConnectionId(s, id) THEN id ELSE t.free
      /\ u.allocated = t.allocated /\ u.control = t.control
      /\ u = [t EXCEPT !.array = u.array, !.free = u.free]
  BY <1>1 DEF Release, Table
<1> HIDE DEF link, u
<1>4. u.array \in [Ids -> Entry] /\ u.free \in Ids
  BY <1>1, <1>2, <1>3, EntryTypes
<1>5. u \in Table BY <1>1, <1>3, <1>4 DEF Table
<1>6. /\ u.array[id].status = "unused" /\ u.array[id].link = link
      /\ \A i \in Ids : i # id => u.array[i] = t.array[i]
  BY <1>1, <1>2, <1>3, EntryTypes
<1>7. ~Live(u, id) /\ \A i \in Ids : i # id => (Live(u, i) <=> Live(t, i))
  BY <1>6 DEF Live
<1>8. Entries(s, u)
  <2>1. \A i \in Ids : Live(u, i) =>
          /\ i < u.allocated
          /\ mySideConnectionId(s, i) => i \notin Skipped(s)
          /\ ~mySideConnectionId(s, i) => u.array[i].status = "established"
    BY <1>1, <1>3, <1>6, <1>7 DEF Entries
  <2> QED BY <1>1, <1>3, <1>5, <2>1 DEF Entries
<1>9. id \notin free /\ \A i \in free : i \in Ids /\ i > 0 /\ i # id
  BY <1>1, FreeIdFacts
<1>10. CASE ~mySideConnectionId(s, id)
  <2>1. FreeIds(s, u) = free
    BY <1>3, <1>7, <1>10 DEF FreeIds
  <2>2. \A i \in {0} \cup free : Link(u, i) = Link(t, i)
    BY <1>3, <1>6, <1>9, <1>10 DEF Link
  <2>3. Sound(s, u) BY <1>8, <2>1, <2>2, SameList
  <2> QED BY <1>3, <1>6, <2>3 DEF u
<1>11. CASE mySideConnectionId(s, id)
  <2>1. id < t.allocated /\ id \notin Skipped(s)
    BY <1>1, <1>11 DEF Entries
  <2>2. FreeIds(s, u) = free \cup {id}
    BY <1>3, <1>7, <1>11, <2>1 DEF FreeIds
  <2>3. id # 0
    BY <1>11, <2>1 DEF Skipped, mySideConnectionId, Side
  <2>4. /\ Link(u, 0) = id /\ Link(u, id) = t.free /\ Link(t, 0) = t.free
        /\ \A i \in free : i # id /\ i # 0 /\ Link(u, i) = Link(t, i)
    BY <1>3, <1>6, <1>9, <1>11, <2>3 DEF Link, link
  <2>5. \A i \in {0} \cup free : Link(t, i) \in {0} \cup free
    BY DEF Sound, ListSound
  <2> HIDE DEF free
  <2>6. ListSound(s, u)
    <3>1. \A i \in {0} \cup (free \cup {id}) : Link(u, i) \in {0} \cup (free \cup {id})
      BY <2>4, <2>5
    <3>2. \A k \in {0} \cup (free \cup {id}) : Link(u, k) = id => k = 0
      BY <1>9, <2>3, <2>4, <2>5
    <3>3. ASSUME NEW i \in free
          PROVE  \E j \in {0} \cup (free \cup {id}) :
                   Link(u, j) = i /\ \A k \in {0} \cup (free \cup {id}) : Link(u, k) = i => k = j
      <4>1. PICK j \in {0} \cup free : Link(t, j) = i /\ \A k \in {0} \cup free : Link(t, k) = i => k = j
        BY DEF Sound, ListSound, free
      <4>2. Link(u, 0) # i BY <1>9, <2>4
      <4>3. CASE j = 0
        <5>1. Link(u, id) = i BY <2>4, <4>1, <4>3
        <5>2. \A k \in free : Link(u, k) # i BY <2>4, <4>1, <4>3
        <5> QED BY <4>2, <5>1, <5>2
      <4>4. CASE j # 0 BY <2>4, <4>1, <4>2, <4>4
      <4> QED BY <4>3, <4>4
    <3> QED BY <2>2, <2>4, <3>1, <3>2, <3>3 DEF ListSound
  <2>7. ListEnds(s, u)
    <3>1. PICK rank \in [Ids -> Nat] :
            \A i \in free : Link(t, i) # 0 => rank[Link(t, i)] < rank[i]
      BY DEF Sound, ListEnds, free
    <3> DEFINE higher == [rank EXCEPT ![id] = rank[t.free] + 1]
    <3>2. rank[t.free] \in Nat BY <1>1, <3>1
    <3>3. /\ higher \in [Ids -> Nat] /\ higher[id] = rank[t.free] + 1
          /\ \A i \in Ids : i # id => higher[i] = rank[i]
      BY <3>1, <3>2
    <3> HIDE DEF higher
    <3>4. \A i \in free : Link(u, i) # 0 => higher[Link(u, i)] < higher[i]
      BY <1>9, <2>4, <2>5, <3>1, <3>3
    <3>5. Link(u, id) # 0 => higher[Link(u, id)] < higher[id]
      BY <1>1, <1>9, <2>4, <2>5, <3>2, <3>3
    <3> QED BY <2>2, <3>3, <3>4, <3>5 DEF ListEnds
  <2> QED BY <1>3, <1>6, <1>8, <2>6, <2>7 DEF Sound, u
<1> QED BY <1>10, <1>11

-----------------------------------------------------------------------------
(* Packets.                                                                *)

ControlPacket == [op : {"new", "accept", "reject", "close"}, id : Ids]

Fragment ==
  {p \in [op : {"send"}, id : Ids, first : BOOLEAN, last : BOOLEAN, total : Nat \ {0},
          message : Nat \ {0}, from : Nat \ {0}, bytes : Nat \ {0}] :
     p.bytes <= Payload /\ p.from + p.bytes - 1 <= p.total}

AnyPacket == ControlPacket \cup Fragment

Piece   == [message : Nat \ {0}, from : Nat \ {0}, bytes : Nat \ {0}]
Message == [id : Ids, length : Nat \ {0}]

LEMMA PacketFacts ==
  /\ \A p \in AnyPacket : p.id \in Ids /\ p.op \in {"new", "accept", "reject", "close", "send"}
  /\ \A p \in AnyPacket : p.op = "send" => p \in Fragment
  /\ \A p \in AnyPacket : p.op # "send" => p \in ControlPacket
  /\ \A p \in Fragment :
       /\ p.first \in BOOLEAN /\ p.last \in BOOLEAN /\ p.total \in Nat \ {0}
       /\ p.message \in Nat \ {0} /\ p.from \in Nat \ {0} /\ p.bytes \in Nat \ {0}
       /\ p.bytes <= Payload /\ p.from + p.bytes - 1 <= p.total
BY DEF AnyPacket, ControlPacket, Fragment

LEMMA ControlFacts ==
  ASSUME NEW op \in {"new", "accept", "reject", "close"}, NEW id \in Ids
  PROVE  /\ Control(op, id) \in AnyPacket /\ Control(op, id).op = op
         /\ Control(op, id).id = id
BY DEF Control, AnyPacket, ControlPacket

\* A message needs at least one packet, and the last one is not empty.
LEMMA PartsFacts ==
  ASSUME NEW length \in Nat \ {0}
  PROVE  /\ Parts(length) \in Nat \ {0} /\ Payload \in Nat \ {0}
         /\ (Parts(length) - 1) * Payload \in Nat
         /\ (Parts(length) - 1) * Payload < length
         /\ length <= (Parts(length) - 1) * Payload + Payload
<1> DEFINE n == Parts(length)
           a == length + Payload - 1
<1>1. Payload \in Nat \ {0} /\ a \in Nat BY ConnectionsAssumption
<1>2. n = a \div Payload BY DEF Parts
<1> HIDE DEF a, n
<1>3. n \in Nat /\ Payload * n <= a /\ a < Payload * n + Payload
  BY <1>1, <1>2
<1>4. n # 0
  <2>1. Payload * 0 = 0 BY <1>1
  <2> QED BY <1>1, <1>3, <2>1 DEF a
<1>5. (n - 1) * Payload \in Nat /\ Payload * n = (n - 1) * Payload + Payload
  <2> DEFINE k == n - 1
  <2>1. k \in Nat /\ n = k + 1 BY <1>3, <1>4
  <2>2. Payload * n = n * Payload BY <1>1, <1>3
  <2> HIDE DEF k
  <2>3. k * Payload \in Nat /\ (k + 1) * Payload = k * Payload + Payload
    BY <1>1, <2>1
  <2>4. Payload * n = k * Payload + Payload BY <2>1, <2>2, <2>3
  <2> QED BY <2>3, <2>4 DEF k
<1> QED BY <1>1, <1>3, <1>4, <1>5 DEF a, n

\* The fragments of a message: each begins where the one before it ends, and the
\* last one ends the message.
LEMMA FragmentsFacts ==
  ASSUME NEW id \in Ids, NEW message \in Nat \ {0}, NEW length \in Nat \ {0}
  PROVE  LET f == Fragments(id, message, length)
             n == Parts(length)
         IN /\ n \in Nat \ {0} /\ f \in Seq(AnyPacket) /\ Len(f) = n
            /\ \A k \in 1..n :
                 /\ f[k] \in Fragment
                 /\ f[k].op = "send" /\ f[k].id = id /\ f[k].message = message
                 /\ f[k].total = length
                 /\ f[k].first = (k = 1) /\ f[k].last = (k = n)
                 /\ f[k].first = (f[k].from = 1)
                 /\ f[k].last = (f[k].from + f[k].bytes - 1 = length)
            /\ \A k \in 2..n : f[k - 1].from + f[k - 1].bytes = f[k].from
<1> DEFINE f == Fragments(id, message, length)
           n == Parts(length)
<1>1. /\ n \in Nat \ {0} /\ Payload \in Nat \ {0} /\ (n - 1) * Payload \in Nat
      /\ (n - 1) * Payload < length /\ length <= (n - 1) * Payload + Payload
  BY PartsFacts
<1>2. f = [k \in 1..n |->
            [op |-> "send", id |-> id, first |-> k = 1, last |-> k = n,
             total |-> length, message |-> message, from |-> (k - 1) * Payload + 1,
             bytes |-> IF k < n THEN Payload ELSE length - (k - 1) * Payload]]
  BY DEF Fragments
<1> HIDE DEF n, f
<1>3. ASSUME NEW k \in 1..n
      PROVE  /\ (k - 1) * Payload \in Nat
             /\ k = 1 <=> (k - 1) * Payload = 0
             /\ k < n => (k - 1) * Payload + Payload < length
             /\ k > 1 => (k - 2) * Payload + Payload = (k - 1) * Payload
  <2>1. k - 1 \in Nat /\ k \in Nat BY <1>1
  <2>2. (k - 1) * Payload \in Nat BY <1>1, <2>1
  <2>3. k = 1 => (k - 1) * Payload = 0 BY <1>1
  <2>4. k > 1 => (k - 1) * Payload >= Payload /\ (k - 2) * Payload + Payload = (k - 1) * Payload
    <3> SUFFICES ASSUME k > 1
                 PROVE  (k - 1) * Payload >= Payload
                        /\ (k - 2) * Payload + Payload = (k - 1) * Payload
      OBVIOUS
    <3>1. k - 2 \in Nat BY <2>1
    <3>2. (k - 2) * Payload \in Nat /\ (k - 2) * Payload + Payload = (k - 1) * Payload
      BY <1>1, <3>1
    <3> QED BY <1>1, <2>2, <3>2
  <2>5. k < n => (k - 1) * Payload + Payload < length
    <3> SUFFICES ASSUME k < n PROVE (k - 1) * Payload + Payload < length
      OBVIOUS
    <3>1. (k - 1) * Payload + Payload = k * Payload BY <1>1, <2>1
    <3>2. k <= n - 1 /\ n - 1 \in Nat BY <1>1, <2>1
    <3>3. k * Payload <= (n - 1) * Payload BY <1>1, <2>1, <3>2
    <3>4. k * Payload \in Nat BY <1>1, <2>1
    <3> QED BY <1>1, <3>1, <3>3, <3>4
  <2> QED BY <1>1, <2>1, <2>2, <2>3, <2>4, <2>5
<1>4. ASSUME NEW k \in 1..n
      PROVE  /\ f[k] \in Fragment
             /\ f[k].op = "send" /\ f[k].id = id /\ f[k].message = message
             /\ f[k].total = length
             /\ f[k].first = (k = 1) /\ f[k].last = (k = n)
             /\ f[k].first = (f[k].from = 1)
             /\ f[k].last = (f[k].from + f[k].bytes - 1 = length)
             /\ f[k].from = (k - 1) * Payload + 1
             /\ k < n => f[k].bytes = Payload
  <2> DEFINE from == (k - 1) * Payload
             bytes == IF k < n THEN Payload ELSE length - from
  <2>1. k \in Nat /\ k <= n BY <1>1
  <2>2. /\ from \in Nat /\ (k = 1 <=> from = 0) /\ (k < n => from + Payload < length)
    BY <1>3
  <2>3. k = n => from < length /\ length <= from + Payload
    BY <1>1
  <2>4. f[k] = [op |-> "send", id |-> id, first |-> k = 1, last |-> k = n, total |-> length,
                message |-> message, from |-> from + 1, bytes |-> bytes]
    BY <1>2
  <2> HIDE DEF from
  <2>5. bytes \in Nat \ {0} /\ bytes <= Payload /\ from + 1 + bytes - 1 <= length
        /\ (k = n <=> from + 1 + bytes - 1 = length)
    BY <1>1, <2>1, <2>2, <2>3
  <2>6. k < n => bytes = Payload OBVIOUS
  <2> HIDE DEF bytes
  <2>7. f[k] \in Fragment BY <2>2, <2>4, <2>5 DEF Fragment
  <2> QED BY <2>2, <2>4, <2>5, <2>6, <2>7 DEF from
<1>5. \A k \in 2..n : f[k - 1].from + f[k - 1].bytes = f[k].from
  <2> TAKE k \in 2..n
  <2>1. k \in 1..n /\ k - 1 \in 1..n /\ k - 1 < n /\ k > 1 BY <1>1
  <2>2. f[k - 1].from = (k - 1 - 1) * Payload + 1 /\ f[k - 1].bytes = Payload
        /\ f[k].from = (k - 1) * Payload + 1
    BY <1>4, <2>1
  <2>3. k - 1 - 1 = k - 2 BY <2>1
  <2>4. (k - 2) * Payload + Payload = (k - 1) * Payload BY <1>3, <2>1
  <2>5. k - 2 \in Nat /\ (k - 2) * Payload \in Nat BY <1>1, <2>1
  <2> QED BY <1>1, <2>2, <2>3, <2>4, <2>5
<1>6. f \in Seq(AnyPacket) /\ Len(f) = n
  <2>1. f \in [1..n -> AnyPacket]
    BY <1>2, <1>4 DEF AnyPacket
  <2> QED BY <1>1, <2>1, IsASeq
<1> QED BY <1>1, <1>4, <1>5, <1>6 DEF f, n

-----------------------------------------------------------------------------
(* The system.  What each action does to the state, of which TablesInv holds. *)

Received == [id : Ids, pieces : Seq(Piece)]

TablesInv ==
  /\ table \in [Side -> Table]
  /\ channel \in [Side -> Seq(AnyPacket)]
  /\ opened \in [Side -> Nat] /\ \A s \in Side : opened[s] <= MaxOpened[s]
  /\ calls \in [Side -> Seq(Message)]
  /\ handled \in [Side -> Seq(Received)]
  /\ closed \in [Side -> SUBSET Ids]
  /\ \A s \in Side : Sound(s, table[s])

\* What TablesInv says of the packet that arrives.
LEMMA ArrivesFacts ==
  ASSUME TablesInv, NEW s \in Side, NEW op, Arrives(s, op)
  PROVE  /\ channel[Peer(s)] # <<>> /\ channel[Peer(s)] \in Seq(AnyPacket)
         /\ Head(channel[Peer(s)]) \in AnyPacket /\ Head(channel[Peer(s)]).id \in Ids
         /\ Tail(channel[Peer(s)]) \in Seq(AnyPacket)
         /\ Head(channel[Peer(s)]).op = op
         /\ Acceptable(s, Head(channel[Peer(s)]))
<1>1. channel[Peer(s)] # <<>> /\ channel[Peer(s)] \in Seq(AnyPacket)
  BY Sides DEF TablesInv, Arrives
<1>2. Head(channel[Peer(s)]) \in AnyPacket /\ Tail(channel[Peer(s)]) \in Seq(AnyPacket)
  BY <1>1, HeadTailProperties
<1> QED BY <1>1, <1>2, PacketFacts DEF Arrives

LEMMA TableIn ==
  ASSUME TablesInv, NEW s \in Side
  PROVE  /\ table[s] \in Table /\ Sound(s, table[s]) /\ Entries(s, table[s])
         /\ \A i \in Ids : table[s].array[i] \in Entry
BY TableFields DEF TablesInv, Sound

LEMMA NewConnectionEffect ==
  ASSUME TablesInv, NEW s \in Side, NewConnection(s)
  PROVE  \E id \in Ids :
           /\ id > 0 /\ id % 2 = s /\ ~Live(table[s], id)
           /\ Sound(s, table'[s]) /\ id < table'[s].allocated
           /\ table'[s].array[id] = Connection("initiated")
           /\ \A i \in Ids : i # id => (Live(table'[s], i) <=> Live(table[s], i))
           /\ \A i \in Ids : Live(table[s], i) => table'[s].array[i] = table[s].array[i]
           /\ table'[s].control = table[s].control
           /\ \/ table'[s].allocated = table[s].allocated
              \/ table'[s].allocated = Grown(table[s]) /\ id > table[s].allocated
           /\ channel'[s] = Append(channel[s], Control("new", id))
           /\ closed'[s] = closed[s] \ {id}
           /\ table'[Peer(s)] = table[Peer(s)] /\ channel'[Peer(s)] = channel[Peer(s)]
           /\ closed'[Peer(s)] = closed[Peer(s)]
           /\ calls' = calls /\ handled' = handled
           /\ TablesInv'
<1> DEFINE a == Allocate(s, table[s])
           id == a.id
<1>1. /\ a.table.allocated \in TableSizes
      /\ table' = [table EXCEPT ![s] = a.table]
      /\ channel' = [channel EXCEPT ![s] = @ \o <<Control("new", id)>>]
      /\ closed' = [closed EXCEPT ![s] = @ \ {id}]
      /\ opened' = [opened EXCEPT ![s] = @ + 1] /\ opened[s] < MaxOpened[s]
      /\ calls' = calls /\ handled' = handled
  BY DEF NewConnection, tunnelOut
<1>2. /\ Sound(s, a.table)
      /\ id \in Ids /\ id > 0 /\ id % 2 = s /\ id < a.table.allocated /\ ~Live(table[s], id)
      /\ a.table.array[id] = Connection("initiated")
      /\ \A i \in Ids : i # id => (Live(a.table, i) <=> Live(table[s], i))
      /\ \A i \in Ids : Live(table[s], i) => a.table.array[i] = table[s].array[i]
      /\ a.table.control = table[s].control
      /\ \/ a.table.allocated = table[s].allocated
         \/ a.table.allocated = Grown(table[s]) /\ id > table[s].allocated
  BY <1>1, TableIn, AllocateSound
<1> HIDE DEF a, id
<1>3. /\ table'[s] = a.table /\ table'[Peer(s)] = table[Peer(s)]
      /\ closed'[s] = closed[s] \ {id} /\ closed'[Peer(s)] = closed[Peer(s)]
      /\ channel'[Peer(s)] = channel[Peer(s)]
  BY <1>1, Sides DEF TablesInv
<1>4. channel'[s] = Append(channel[s], Control("new", id)) /\ channel'[s] \in Seq(AnyPacket)
  <2>1. channel[s] \in Seq(AnyPacket) /\ Control("new", id) \in AnyPacket
    BY <1>2, ControlFacts DEF TablesInv
  <2>2. channel'[s] = channel[s] \o <<Control("new", id)>>
    BY <1>1 DEF TablesInv
  <2> QED BY <2>1, <2>2
<1>5. TablesInv'
  <2>1. a.table \in Table BY <1>2 DEF Sound, Entries
  <2>2. \A r \in Side : Sound(r, table'[r])
    BY <1>2, <1>3, Sides DEF TablesInv
  <2>3. channel' \in [Side -> Seq(AnyPacket)]
    BY <1>1, <1>4 DEF TablesInv
  <2>4. opened' \in [Side -> Nat] /\ \A r \in Side : opened'[r] <= MaxOpened[r]
    <3>1. MaxOpened \in [Side -> Nat] BY ConnectionsAssumption
    <3>2. opened' = [opened EXCEPT ![s] = @ + 1] /\ opened[s] < MaxOpened[s]
          /\ opened \in [Side -> Nat] /\ \A r \in Side : opened[r] <= MaxOpened[r]
      BY <1>1 DEF TablesInv
    <3>3. opened[s] + 1 <= MaxOpened[s] /\ opened[s] + 1 \in Nat BY <3>1, <3>2
    <3> QED BY <3>2, <3>3
  <2> QED BY <1>1, <2>1, <2>2, <2>3, <2>4 DEF TablesInv
<1> QED BY <1>1, <1>2, <1>3, <1>4, <1>5

LEMMA CallEffect ==
  ASSUME TablesInv, NEW s \in Side, NEW id \in Ids, Call(s, id)
  PROVE  LET message == Len(calls[s]) + 1
             length == Lengths[message]
         IN /\ Live(table[s], id) /\ id \notin closed[s]
            /\ message \in Nat \ {0} /\ length \in Nat \ {0}
            /\ calls'[s] = Append(calls[s], [id |-> id, length |-> length])
            /\ channel'[s] = channel[s] \o Fragments(id, message, length)
            /\ channel'[Peer(s)] = channel[Peer(s)] /\ calls'[Peer(s)] = calls[Peer(s)]
            /\ table' = table /\ closed' = closed /\ handled' = handled
            /\ TablesInv'
<1> DEFINE message == Len(calls[s]) + 1
           length == Lengths[message]
<1>1. /\ Len(calls[s]) < MaxCalls[s] /\ Live(table[s], id) /\ id \notin closed[s]
      /\ calls' = [calls EXCEPT ![s] = Append(@, [id |-> id, length |-> length])]
      /\ channel' = [channel EXCEPT ![s] = @ \o Fragments(id, message, length)]
      /\ table' = table /\ opened' = opened /\ closed' = closed /\ handled' = handled
  BY DEF Call, tunnelOut
<1>2. calls[s] \in Seq(Message) BY DEF TablesInv
<1>3. message \in Nat \ {0} /\ length \in Nat \ {0}
  <2>1. MaxCalls[s] \in 0..Len(Lengths) /\ Lengths \in Seq(Nat \ {0})
    BY ConnectionsAssumption
  <2>2. Len(calls[s]) \in Nat BY <1>2
  <2>3. message \in 1..Len(Lengths) BY <1>1, <2>1, <2>2
  <2> QED BY <2>1, <2>2, <2>3
<1> HIDE DEF message, length
<1>4. Fragments(id, message, length) \in Seq(AnyPacket)
  BY <1>3, FragmentsFacts
<1>5. /\ calls'[s] = Append(calls[s], [id |-> id, length |-> length])
      /\ channel'[s] = channel[s] \o Fragments(id, message, length)
      /\ channel'[Peer(s)] = channel[Peer(s)] /\ calls'[Peer(s)] = calls[Peer(s)]
  BY <1>1, Sides DEF TablesInv
<1>6. TablesInv'
  <2>1. [id |-> id, length |-> length] \in Message BY <1>3 DEF Message
  <2>2. calls' \in [Side -> Seq(Message)]
    BY <1>1, <1>2, <2>1 DEF TablesInv
  <2>3. channel' \in [Side -> Seq(AnyPacket)]
    <3>1. channel[s] \in Seq(AnyPacket) BY DEF TablesInv
    <3>2. channel[s] \o Fragments(id, message, length) \in Seq(AnyPacket)
      BY <1>4, <3>1, ConcatProperties
    <3> QED BY <1>1, <3>2 DEF TablesInv
  <2> QED BY <1>1, <2>2, <2>3 DEF TablesInv
<1> QED BY <1>1, <1>3, <1>5, <1>6 DEF message, length

\* closeConnection and rejectConnection differ in whose ids they are for.
LEMMA GiveUpEffect ==
  ASSUME TablesInv, NEW s \in Side, NEW id \in Ids, NEW op \in {"close", "reject"},
         \/ op = "close" /\ Close(s, id)
         \/ op = "reject" /\ Reject(s, id)
  PROVE  /\ Live(table[s], id) /\ id \notin closed[s]
         /\ op = "close" <=> id % 2 = s
         /\ closed'[s] = closed[s] \cup {id}
         /\ channel'[s] = Append(channel[s], Control(op, id))
         /\ closed'[Peer(s)] = closed[Peer(s)] /\ channel'[Peer(s)] = channel[Peer(s)]
         /\ table' = table /\ calls' = calls /\ handled' = handled
         /\ TablesInv'
<1>1. /\ Live(table[s], id) /\ id \notin closed[s]
      /\ op = "close" <=> id % 2 = s
      /\ closed' = [closed EXCEPT ![s] = @ \cup {id}]
      /\ channel' = [channel EXCEPT ![s] = @ \o <<Control(op, id)>>]
      /\ table' = table /\ opened' = opened /\ calls' = calls /\ handled' = handled
  BY DEF Close, Reject, tunnelOut, mySideConnectionId
<1>2. channel[s] \in Seq(AnyPacket) /\ Control(op, id) \in AnyPacket
  BY ControlFacts DEF TablesInv
<1>3. channel'[s] = Append(channel[s], Control(op, id)) /\ channel'[s] \in Seq(AnyPacket)
  <2>1. channel'[s] = channel[s] \o <<Control(op, id)>>
    BY <1>1 DEF TablesInv
  <2> QED BY <1>2, <2>1
<1>4. /\ closed'[s] = closed[s] \cup {id} /\ closed'[Peer(s)] = closed[Peer(s)]
      /\ channel'[Peer(s)] = channel[Peer(s)]
  BY <1>1, Sides DEF TablesInv
<1>5. TablesInv'
  <2>1. channel' \in [Side -> Seq(AnyPacket)]
    BY <1>1, <1>3 DEF TablesInv
  <2> QED BY <1>1, <2>1 DEF TablesInv
<1> QED BY <1>1, <1>3, <1>4, <1>5

LEMMA ProcessNewEffect ==
  ASSUME TablesInv, NEW s \in Side, ProcessNew(s)
  PROVE  LET id == Head(channel[Peer(s)]).id
             g == RoomFor(s, table[s], id)
         IN /\ Arrives(s, "new") /\ id % 2 = Peer(s) /\ ~Live(table[s], id)
            /\ IF id \in {1, 2} THEN table[s].control = 0 ELSE table[s].control # 0
            /\ Sound(s, table'[s])
            /\ table'[s].array[id] = Connection("established")
            /\ \A i \in Ids : i # id => (Live(table'[s], i) <=> Live(table[s], i))
            /\ \A i \in Ids : Live(table[s], i) => table'[s].array[i] = table[s].array[i]
            /\ table'[s].control = IF id \in {1, 2} THEN id ELSE table[s].control
            /\ table'[s].allocated = g.allocated /\ id < g.allocated
            /\ \/ g.allocated = table[s].allocated
               \/ g.allocated = Grown(table[s]) /\ id >= table[s].allocated
            /\ channel'[Peer(s)] = Tail(channel[Peer(s)])
            /\ channel'[s] = Append(channel[s], Control("accept", id))
            /\ closed'[s] = closed[s] \ {id}
            /\ table'[Peer(s)] = table[Peer(s)] /\ closed'[Peer(s)] = closed[Peer(s)]
            /\ calls' = calls /\ handled' = handled
            /\ TablesInv'
<1> DEFINE p == Head(channel[Peer(s)])
           id == p.id
<1>1. /\ Arrives(s, "new")
      /\ table' = [table EXCEPT ![s] = Accept(s, @, id)]
      /\ channel' = [channel EXCEPT ![Peer(s)] = Tail(@),
                                    ![s] = Append(@, Control("accept", id))]
      /\ closed' = [closed EXCEPT ![s] = @ \ {id}]
      /\ opened' = opened /\ calls' = calls /\ handled' = handled
  BY DEF ProcessNew
<1>2. /\ id \in Ids /\ p.op = "new" /\ Acceptable(s, p)
      /\ Tail(channel[Peer(s)]) \in Seq(AnyPacket)
  BY <1>1, ArrivesFacts
<1>3. /\ ~mySideConnectionId(s, id) /\ id < RoomFor(s, table[s], id).allocated
      /\ ~Live(table[s], id)
      /\ IF id \in {1, 2} THEN table[s].control = 0 ELSE table[s].control # 0
  BY <1>2 DEF Acceptable
<1> HIDE DEF p, id
<1>4. LET u == Accept(s, table[s], id)
          g == RoomFor(s, table[s], id)
      IN /\ Sound(s, u)
         /\ u.array[id] = Connection("established")
         /\ \A i \in Ids : i # id => (Live(u, i) <=> Live(table[s], i))
         /\ \A i \in Ids : Live(table[s], i) => u.array[i] = table[s].array[i]
         /\ u.control = IF id \in {1, 2} THEN id ELSE table[s].control
         /\ u.allocated = g.allocated
         /\ \/ g.allocated = table[s].allocated
            \/ g.allocated = Grown(table[s]) /\ id >= table[s].allocated
  BY <1>2, <1>3, TableIn, AcceptSound
<1>5. /\ table'[s] = Accept(s, table[s], id) /\ table'[Peer(s)] = table[Peer(s)]
      /\ closed'[s] = closed[s] \ {id} /\ closed'[Peer(s)] = closed[Peer(s)]
      /\ channel'[Peer(s)] = Tail(channel[Peer(s)])
      /\ channel'[s] = Append(channel[s], Control("accept", id))
  BY <1>1, Sides DEF TablesInv
<1>6. id % 2 = Peer(s)
  BY <1>2, <1>3, IdFacts DEF mySideConnectionId, Peer, Side
<1>7. TablesInv'
  <2>1. Accept(s, table[s], id) \in Table BY <1>4 DEF Sound, Entries
  <2>2. \A r \in Side : Sound(r, table'[r])
    BY <1>4, <1>5, Sides DEF TablesInv
  <2>3. Append(channel[s], Control("accept", id)) \in Seq(AnyPacket)
    BY <1>2, ControlFacts DEF TablesInv
  <2>4. channel' \in [Side -> Seq(AnyPacket)]
    BY <1>1, <1>2, <2>3, Sides DEF TablesInv
  <2> QED BY <1>1, <2>1, <2>2, <2>4 DEF TablesInv
<1> QED BY <1>1, <1>3, <1>4, <1>5, <1>6, <1>7 DEF p, id

LEMMA ProcessAcceptEffect ==
  ASSUME TablesInv, NEW s \in Side, ProcessAccept(s)
  PROVE  LET id == Head(channel[Peer(s)]).id
         IN /\ Arrives(s, "accept") /\ table[s].array[id].status = "initiated"
            /\ id % 2 = s
            /\ Sound(s, table'[s])
            /\ table'[s].array[id].status = "established"
            /\ table'[s].array[id].inPacket = table[s].array[id].inPacket
            /\ \A i \in Ids : i # id => table'[s].array[i] = table[s].array[i]
            /\ table'[s].allocated = table[s].allocated
            /\ table'[s].control = table[s].control
            /\ channel'[Peer(s)] = Tail(channel[Peer(s)]) /\ channel'[s] = channel[s]
            /\ table'[Peer(s)] = table[Peer(s)]
            /\ closed' = closed /\ calls' = calls /\ handled' = handled
            /\ TablesInv'
<1> DEFINE p == Head(channel[Peer(s)])
           id == p.id
           t == table[s]
           e == [t.array[id] EXCEPT !.status = "established"]
<1>1. /\ Arrives(s, "accept")
      /\ table' = [table EXCEPT ![s].array[id].status = "established"]
      /\ channel' = [channel EXCEPT ![Peer(s)] = Tail(@)]
      /\ opened' = opened /\ closed' = closed /\ calls' = calls /\ handled' = handled
  BY DEF ProcessAccept
<1>2. /\ id \in Ids /\ p.op = "accept" /\ Acceptable(s, p)
      /\ Tail(channel[Peer(s)]) \in Seq(AnyPacket)
  BY <1>1, ArrivesFacts
<1>3. t.array[id].status = "initiated"
  BY <1>2 DEF Acceptable
<1> HIDE DEF p, id
<1>4. t \in Table /\ Sound(s, t) /\ Entries(s, t) /\ t.array[id] \in Entry
      /\ t.control \in {0, 1, 2} /\ t.array \in [Ids -> Entry]
  BY <1>2, TableIn, TableFields
<1>5. Live(t, id) /\ mySideConnectionId(s, id)
  BY <1>2, <1>3, <1>4 DEF Live, Entries
<1>6. /\ e \in Entry /\ e.status = "established" /\ e.status # "unused"
      /\ e.inPacket = t.array[id].inPacket
  BY <1>4 DEF Entry
<1>7. table'[s] = Connected(t, id, e, t.control) /\ table'[Peer(s)] = table[Peer(s)]
  <2>1. table'[s] = [t EXCEPT !.array[id] = e]
    BY <1>1 DEF TablesInv
  <2>2. [t EXCEPT !.array[id] = e] = Connected(t, id, e, t.control)
    BY <1>4 DEF Table, Connected
  <2> QED BY <1>1, <2>1, <2>2, Sides DEF TablesInv
<1> HIDE DEF e
<1>8. LET u == Connected(t, id, e, t.control)
      IN /\ Sound(s, u) /\ u.array[id] = e
         /\ \A i \in Ids : i # id => u.array[i] = t.array[i]
         /\ u.allocated = t.allocated /\ u.control = t.control
  BY <1>2, <1>4, <1>5, <1>6, ConnectSound
<1>9. channel'[Peer(s)] = Tail(channel[Peer(s)]) /\ channel'[s] = channel[s]
  BY <1>1, Sides DEF TablesInv
<1>10. TablesInv'
  <2>1. table'[s] \in Table BY <1>7, <1>8 DEF Sound, Entries
  <2>2. table' \in [Side -> Table] BY <1>1, <2>1 DEF TablesInv
  <2>3. \A r \in Side : Sound(r, table'[r])
    BY <1>7, <1>8, Sides DEF TablesInv
  <2>4. channel' \in [Side -> Seq(AnyPacket)]
    BY <1>1, <1>2 DEF TablesInv
  <2> QED BY <1>1, <2>2, <2>3, <2>4 DEF TablesInv
<1> QED BY <1>1, <1>3, <1>5, <1>6, <1>7, <1>8, <1>9, <1>10 DEF p, id, mySideConnectionId

LEMMA ProcessReleaseEffect ==
  ASSUME TablesInv, NEW s \in Side, ProcessRelease(s)
  PROVE  LET id == Head(channel[Peer(s)]).id
         IN /\ Arrives(s, "reject") \/ Arrives(s, "close")
            /\ Live(table[s], id)
            /\ Sound(s, table'[s])
            /\ table'[s].array[id].status = "unused"
            /\ \A i \in Ids : i # id => table'[s].array[i] = table[s].array[i]
            /\ table'[s].allocated = table[s].allocated
            /\ table'[s].control = table[s].control
            /\ channel'[Peer(s)] = Tail(channel[Peer(s)]) /\ channel'[s] = channel[s]
            /\ table'[Peer(s)] = table[Peer(s)]
            /\ closed' = closed /\ calls' = calls /\ handled' = handled
            /\ TablesInv'
<1> DEFINE p == Head(channel[Peer(s)])
           id == p.id
           t == table[s]
           u == Release(s, t, id)
<1>1. /\ Arrives(s, "reject") \/ Arrives(s, "close")
      /\ table' = [table EXCEPT ![s] = Release(s, @, id)]
      /\ channel' = [channel EXCEPT ![Peer(s)] = Tail(@)]
      /\ opened' = opened /\ closed' = closed /\ calls' = calls /\ handled' = handled
  BY DEF ProcessRelease
<1>2. /\ id \in Ids /\ p.op \in {"reject", "close"} /\ Acceptable(s, p)
      /\ Tail(channel[Peer(s)]) \in Seq(AnyPacket)
  <2>1. CASE Arrives(s, "reject") BY <2>1, ArrivesFacts
  <2>2. CASE Arrives(s, "close") BY <2>2, ArrivesFacts
  <2> QED BY <1>1, <2>1, <2>2
<1>3. Live(t, id)
  BY <1>2 DEF Acceptable
<1> HIDE DEF p, id
<1>4. /\ Sound(s, u) /\ u.array[id].status = "unused"
      /\ \A i \in Ids : i # id => u.array[i] = t.array[i]
      /\ u.allocated = t.allocated /\ u.control = t.control
  BY <1>2, <1>3, TableIn, ReleaseSound
<1> HIDE DEF u
<1>5. /\ table'[s] = u /\ table'[Peer(s)] = table[Peer(s)]
      /\ channel'[Peer(s)] = Tail(channel[Peer(s)]) /\ channel'[s] = channel[s]
  BY <1>1, Sides DEF TablesInv, u
<1>6. TablesInv'
  <2>1. u \in Table BY <1>4 DEF Sound, Entries
  <2>2. table' \in [Side -> Table] BY <1>1, <2>1 DEF TablesInv, u
  <2>3. \A r \in Side : Sound(r, table'[r])
    BY <1>4, <1>5, Sides DEF TablesInv
  <2>4. channel' \in [Side -> Seq(AnyPacket)]
    BY <1>1, <1>2 DEF TablesInv
  <2> QED BY <1>1, <2>2, <2>3, <2>4 DEF TablesInv
<1> QED BY <1>1, <1>3, <1>4, <1>5, <1>6 DEF p, id

LEMMA ProcessSendEffect ==
  ASSUME TablesInv, NEW s \in Side, ProcessSend(s)
  PROVE  LET p == Head(channel[Peer(s)])
             pieces == Assembled(table[s].array[p.id], p)
         IN /\ Arrives(s, "send") /\ p \in Fragment /\ Live(table[s], p.id)
            /\ ~p.first => table[s].array[p.id].inPacket # NoPacket
            /\ pieces \in Seq(Piece)
            /\ Sound(s, table'[s])
            /\ table'[s].array[p.id].status = table[s].array[p.id].status
            /\ table'[s].array[p.id].inPacket = IF p.last THEN NoPacket ELSE pieces
            /\ \A i \in Ids : i # p.id => table'[s].array[i] = table[s].array[i]
            /\ table'[s].allocated = table[s].allocated
            /\ table'[s].control = table[s].control
            /\ p.last => handled'[s] = Append(handled[s], [id |-> p.id, pieces |-> pieces])
            /\ ~p.last => handled'[s] = handled[s]
            /\ handled'[Peer(s)] = handled[Peer(s)]
            /\ channel'[Peer(s)] = Tail(channel[Peer(s)]) /\ channel'[s] = channel[s]
            /\ table'[Peer(s)] = table[Peer(s)]
            /\ closed' = closed /\ calls' = calls
            /\ TablesInv'
<1> DEFINE p == Head(channel[Peer(s)])
           id == p.id
           t == table[s]
           pieces == Assembled(t.array[id], p)
           inPacket == IF p.last THEN NoPacket ELSE pieces
           e == [t.array[id] EXCEPT !.inPacket = inPacket]
<1>1. /\ Arrives(s, "send")
      /\ table' = [table EXCEPT ![s].array[id].inPacket = inPacket]
      /\ handled' = IF p.last
                    THEN [handled EXCEPT ![s] = Append(@, [id |-> id, pieces |-> pieces])]
                    ELSE handled
      /\ channel' = [channel EXCEPT ![Peer(s)] = Tail(@)]
      /\ opened' = opened /\ closed' = closed /\ calls' = calls
  BY DEF ProcessSend
<1>2. /\ id \in Ids /\ p \in AnyPacket /\ p.op = "send" /\ Acceptable(s, p)
      /\ Tail(channel[Peer(s)]) \in Seq(AnyPacket)
  BY <1>1, ArrivesFacts
<1>3. Live(t, id) /\ (~p.first => t.array[id].inPacket # NoPacket)
  BY <1>2 DEF Acceptable
<1>4. p \in Fragment /\ p.last \in BOOLEAN
      /\ p.message \in Nat \ {0} /\ p.from \in Nat \ {0} /\ p.bytes \in Nat \ {0}
  BY <1>2, PacketFacts
<1>5. t \in Table /\ Sound(s, t) /\ Entries(s, t) /\ t.array[id] \in Entry
      /\ t.control \in {0, 1, 2} /\ t.array \in [Ids -> Entry]
  BY <1>2, TableIn, TableFields
<1>6. t.array[id].inPacket \in Seq(Piece) BY <1>5 DEF Entry, Piece
<1>7. pieces \in Seq(Piece)
  <2>1. [message |-> p.message, from |-> p.from, bytes |-> p.bytes] \in Piece
    BY <1>4 DEF Piece
  <2> DEFINE piece == [message |-> p.message, from |-> p.from, bytes |-> p.bytes]
             before == IF p.first THEN <<>> ELSE t.array[id].inPacket
  <2>2. pieces = Append(before, piece) BY DEF Assembled
  <2>3. before \in Seq(Piece) BY <1>6
  <2> HIDE DEF pieces, before, piece
  <2> QED BY <2>1, <2>2, <2>3 DEF piece
<1> HIDE DEF pieces
<1>8. inPacket \in Seq(Piece) BY <1>7 DEF NoPacket
<1> HIDE DEF inPacket
<1>9. /\ e \in Entry /\ e.status = t.array[id].status /\ e.status # "unused"
      /\ e.inPacket = inPacket
      /\ (~mySideConnectionId(s, id) => id < t.allocated /\ e.status = "established")
  BY <1>2, <1>3, <1>5, <1>8 DEF Entry, Piece, Live, Entries
<1>10. table'[s] = Connected(t, id, e, t.control) /\ table'[Peer(s)] = table[Peer(s)]
  <2>1. table'[s] = [t EXCEPT !.array[id] = e]
    BY <1>1 DEF TablesInv
  <2>2. [t EXCEPT !.array[id] = e] = Connected(t, id, e, t.control)
    BY <1>5 DEF Table, Connected
  <2> QED BY <1>1, <2>1, <2>2, Sides DEF TablesInv
<1> HIDE DEF e
<1>11. LET u == Connected(t, id, e, t.control)
       IN /\ Sound(s, u) /\ u.array[id] = e
          /\ \A i \in Ids : i # id => u.array[i] = t.array[i]
          /\ u.allocated = t.allocated /\ u.control = t.control
  <2>1. id \in Ids /\ Live(t, id) /\ Sound(s, t) /\ t.control \in {0, 1, 2}
    BY <1>2, <1>3, <1>5
  <2>2. e \in Entry /\ e.status # "unused"
        /\ (~mySideConnectionId(s, id) => id < t.allocated /\ e.status = "established")
    BY <1>9
  <2> HIDE DEF id, t
  <2> QED BY <2>1, <2>2, ConnectSound
<1>12. /\ channel'[Peer(s)] = Tail(channel[Peer(s)]) /\ channel'[s] = channel[s]
       /\ p.last => handled'[s] = Append(handled[s], [id |-> id, pieces |-> pieces])
       /\ ~p.last => handled'[s] = handled[s]
       /\ handled'[Peer(s)] = handled[Peer(s)]
  BY <1>1, Sides DEF TablesInv
<1>13. TablesInv'
  <2>1. table'[s] \in Table BY <1>10, <1>11 DEF Sound, Entries
  <2>2. table' \in [Side -> Table] BY <1>1, <2>1 DEF TablesInv
  <2>3. \A r \in Side : Sound(r, table'[r])
    BY <1>10, <1>11, Sides DEF TablesInv
  <2>4. channel' \in [Side -> Seq(AnyPacket)]
    BY <1>1, <1>2 DEF TablesInv
  <2>5. handled' \in [Side -> Seq(Received)]
    <3>1. [id |-> id, pieces |-> pieces] \in Received BY <1>2, <1>7 DEF Received
    <3> HIDE DEF id, p
    <3>2. handled \in [Side -> Seq(Received)] BY DEF TablesInv
    <3>3. CASE p.last
      <4>1. handled' = [handled EXCEPT ![s] = Append(@, [id |-> id, pieces |-> pieces])]
        BY <1>1, <3>3
      <4> QED BY <3>1, <3>2, <4>1
    <3>4. CASE ~p.last BY <1>1, <3>2, <3>4
    <3> QED BY <3>3, <3>4
  <2> QED BY <1>1, <2>2, <2>3, <2>4, <2>5 DEF TablesInv
<1> QED BY <1>1, <1>3, <1>4, <1>7, <1>9, <1>10, <1>11, <1>12, <1>13 DEF inPacket, pieces

-----------------------------------------------------------------------------
(* The invariant and the theorems.                                         *)

LEMMA TablesInvInit == Init => TablesInv
<1> SUFFICES ASSUME Init PROVE TablesInv
  OBVIOUS
<1>1. NewTable \in Table
  <2>1. \A i \in Ids : Unused(0) \in Entry BY IdFacts, EntryTypes
  <2> QED BY <2>1, IdFacts DEF NewTable, Table
<1>2. ASSUME NEW s \in Side PROVE Sound(s, NewTable)
  <2>1. \A i \in Ids : ~Live(NewTable, i)
    BY DEF NewTable, Live, Unused
  <2>2. Entries(s, NewTable)
    BY <1>1, <2>1 DEF Entries, NewTable
  <2>3. FreeIds(s, NewTable) = {}
    BY IdFacts DEF FreeIds, NewTable
  <2>4. Link(NewTable, 0) = 0
    BY DEF Link, NewTable
  <2>5. ListSound(s, NewTable) BY <2>3, <2>4 DEF ListSound
  <2>6. [i \in Ids |-> 0] \in [Ids -> Nat] OBVIOUS
  <2>7. ListEnds(s, NewTable) BY <2>3, <2>6 DEF ListEnds
  <2> QED BY <2>2, <2>5, <2>7 DEF Sound
<1>3. /\ table \in [Side -> Table] /\ \A s \in Side : Sound(s, table[s])
      /\ channel \in [Side -> Seq(AnyPacket)] /\ calls \in [Side -> Seq(Message)]
      /\ handled \in [Side -> Seq(Received)] /\ closed \in [Side -> SUBSET Ids]
      /\ opened \in [Side -> Nat]
  BY <1>1, <1>2 DEF Init
<1>4. \A s \in Side : opened[s] <= MaxOpened[s]
  <2>1. MaxOpened \in [Side -> Nat] BY ConnectionsAssumption
  <2> QED BY <2>1 DEF Init
<1> QED BY <1>3, <1>4 DEF TablesInv

LEMMA TablesInvStep == TablesInv /\ [Next]_vars => TablesInv'
<1> SUFFICES ASSUME TablesInv, [Next]_vars PROVE TablesInv'
  OBVIOUS
<1>1. ASSUME NEW s \in Side, NewConnection(s) PROVE TablesInv'
  BY <1>1, NewConnectionEffect
<1>2. ASSUME NEW s \in Side, NEW id \in Ids, Call(s, id) PROVE TablesInv'
  BY <1>2, CallEffect
<1>3. ASSUME NEW s \in Side, NEW id \in Ids, Close(s, id) PROVE TablesInv'
  BY <1>3, GiveUpEffect
<1>4. ASSUME NEW s \in Side, NEW id \in Ids, Reject(s, id) PROVE TablesInv'
  BY <1>4, GiveUpEffect
<1>5. ASSUME NEW s \in Side, ProcessNew(s) PROVE TablesInv'
  BY <1>5, ProcessNewEffect
<1>6. ASSUME NEW s \in Side, ProcessAccept(s) PROVE TablesInv'
  BY <1>6, ProcessAcceptEffect
<1>7. ASSUME NEW s \in Side, ProcessRelease(s) PROVE TablesInv'
  BY <1>7, ProcessReleaseEffect
<1>8. ASSUME NEW s \in Side, ProcessSend(s) PROVE TablesInv'
  BY <1>8, ProcessSendEffect
<1>9. CASE UNCHANGED vars
  BY <1>9 DEF vars, TablesInv
<1> QED BY <1>1, <1>2, <1>3, <1>4, <1>5, <1>6, <1>7, <1>8, <1>9 DEF Next

\* TablesInv is an invariant.
THEOREM TablesAlways == Spec => []TablesInv
<1> QED BY TablesInvInit, TablesInvStep, PTL DEF Spec

\* Tables, packets and counters keep their types, and a packet of a message
\* carries at least one byte and none past the end of the message, for any sizes
\* of tables, packets and messages.
THEOREM TypeCorrect == Spec => []TypeOK
<1>1. ASSUME TablesInv PROVE TypeOK
  <2>1. \A s \in Side : opened[s] \in 0..MaxOpened[s]
    <3>1. MaxOpened \in [Side -> Nat] BY ConnectionsAssumption
    <3> QED BY <1>1, <3>1 DEF TablesInv
  <2>2. ASSUME NEW s \in Side, NEW k \in 1..Len(channel[s])
        PROVE  LET p == channel[s][k] IN
                 /\ p.id \in Ids
                 /\ p.op = "send" => p.bytes \in 1..Payload /\ p.from + p.bytes - 1 <= p.total
    <3>1. channel[s] \in Seq(AnyPacket) BY <1>1 DEF TablesInv
    <3>2. channel[s][k] \in AnyPacket BY <3>1
    <3>3. Payload \in Nat BY ConnectionsAssumption
    <3> QED BY <3>2, <3>3, PacketFacts
  <2> QED BY <1>1, <2>1, <2>2 DEF TypeOK, TablesInv
<1> QED BY <1>1, TablesAlways, PTL

\* The free list of each side is sound whatever the order of growth, allocation
\* and release (_tunnelConnectionIncreaseSpace, tunnelConnectionAllocate and
\* _tunnelConnectionRelease): each free id of the side is pointed to once, and
\* nothing on the list is in use or the other side's.
THEOREM FreeListStaysSound == Spec => []FreeListSound
<1>1. TablesInv => FreeListSound
  BY DEF TablesInv, Sound, ListSound, FreeListSound
<1> QED BY <1>1, TablesAlways, PTL

\* Each link of a free list leads downwards in some ranking of the ids, so
\* following the list never comes back to an id: with FreeListSound, the list
\* goes from its head through every free id of the side, once, to 0.
THEOREM FreeListEnds == Spec => [](\A s \in Side : ListEnds(s, table[s]))
<1>1. TablesInv => \A s \in Side : ListEnds(s, table[s])
  BY DEF TablesInv, Sound
<1> QED BY <1>1, TablesAlways, PTL

\* newConnection gets an id of its side's that is not in use, and no connection
\* of the side is lost by it, whether the table has to grow
\* (_tunnelConnectionIncreaseSpace copies the old one) or not.
THEOREM AllocationIsFresh ==
  Spec => [][\A s \in Side : NewConnection(s) =>
               \E id \in Ids : /\ id % 2 = s /\ ~Live(table[s], id) /\ Live(table[s], id)'
                               /\ \A i \in Ids : Live(table[s], i) => Live(table[s], i)']_vars
<1>1. TablesInv /\ [Next]_vars =>
        [\A s \in Side : NewConnection(s) =>
           \E id \in Ids : /\ id % 2 = s /\ ~Live(table[s], id) /\ Live(table[s], id)'
                           /\ \A i \in Ids : Live(table[s], i) => Live(table[s], i)']_vars
  <2> SUFFICES ASSUME TablesInv, NEW s \in Side, NewConnection(s)
               PROVE  \E id \in Ids :
                        /\ id % 2 = s /\ ~Live(table[s], id) /\ Live(table[s], id)'
                        /\ \A i \in Ids : Live(table[s], i) => Live(table[s], i)'
    OBVIOUS
  <2>1. PICK id \in Ids :
          /\ id % 2 = s /\ ~Live(table[s], id)
          /\ table'[s].array[id] = Connection("initiated")
          /\ \A i \in Ids : Live(table[s], i) => table'[s].array[i] = table[s].array[i]
    BY NewConnectionEffect
  <2>2. Live(table[s], id)' BY <2>1, EntryTypes DEF Live
  <2>3. \A i \in Ids : Live(table[s], i) => Live(table[s], i)'
    BY <2>1 DEF Live
  <2> QED BY <2>1, <2>2, <2>3
<1> QED BY <1>1, TablesAlways, PTL DEF Spec
=============================================================================
