-------------------- MODULE TunnelConnectionsSafetyProofs --------------------
(***************************************************************************)
(* That the two sides of TunnelConnections agree: a packet finds what its  *)
(* handler asserts (HandlersAccept), messages arrive whole                 *)
(* (WholeMessages), and no half of a connection is left when nothing is in *)
(* flight (QuietAgreement), for any number of connections and messages,    *)
(* any sizes, and ids that are reused without bound.                       *)
(*                                                                         *)
(* The inductive invariant has four parts: what may be in flight about     *)
(* each id, given what the two sides have of it (Conversations); that the  *)
(* control connection is requested once (ControlOnce); that the table of   *)
(* the receiver of a request is large enough, or will be when the request  *)
(* arrives (RoomInv); and what the fragments in flight say of the messages *)
(* not yet handled (StreamInv).                                            *)
(***************************************************************************)
EXTENDS TunnelConnectionsProofs

-----------------------------------------------------------------------------
(* The conversation about an id, between its owner, whose entry has status *)
(* st, and the other side, whose entry has status other.  mine and theirs  *)
(* are the ids that the owner has closed and the other side has refused.   *)
(* The rest are the places of the packets about it: N of its requests, C   *)
(* of its closes and S of its fragments on the way from the owner; A of    *)
(* the answers, R of the refusals and B of all packets on the way to it.   *)

\* A request in flight is the only one, and nothing of the id is on its way back.
Requested(id, st, other, theirs, N, B) ==
  \A k \in N : st = "initiated" /\ (other = "unused" \/ id \in theirs) /\ (\A j \in N : j = k) /\ B = {}

\* What the owner sends finds a connection, or one that a request will have made.
OnConnection(other, N, C, S) ==
  \A k \in C \cup S :
    /\ other # "unused" \/ \E i \in N : i < k
    /\ \A j \in C : j < k => \E i \in N : j < i /\ i < k

\* So will what the owner sends from now on.
Usable(id, st, mine, other, N, C) ==
  st # "unused" /\ id \notin mine => /\ other # "unused" \/ N # {}
                            /\ \A j \in C : \E i \in N : j < i

\* An id may be requested again only when nothing of it is in the way.
Given(id, st, other, theirs, N, B) ==
  st = "unused" => (other = "unused" \/ id \in theirs) /\ B = {} /\ N = {}

\* A refusal is the last packet, an answer the first.
Refusals(id, theirs, R, B) == \A k \in R : id \in theirs /\ \A j \in B : j <= k

Acceptances(st, N, A, B) ==
  /\ \A k \in A : st = "initiated" /\ \A j \in B : k <= j
  /\ st = "initiated" => N # {} \/ A # {}

\* Neither side is left with a connection that the other has given up.
GivenUp(id, st, mine, other, theirs, N, C, R) ==
  /\ id \in theirs => st = "unused" \/ R # {} \/ N # {}
  /\ id \in mine /\ st # "unused" => /\ other = "unused" \/ C # {}
                              /\ \A i \in N : \E j \in C : i < j

Conversation(id, st, mine, other, theirs, N, C, S, A, R, B) ==
  /\ Requested(id, st, other, theirs, N, B)
  /\ OnConnection(other, N, C, S)
  /\ Usable(id, st, mine, other, N, C)
  /\ Given(id, st, other, theirs, N, B)
  /\ Refusals(id, theirs, R, B)
  /\ Acceptances(st, N, A, B)
  /\ GivenUp(id, st, mine, other, theirs, N, C, R)

\* They are places, and those of an answer or a refusal are on the way back.
Fits(N, C, S, A, R, B) ==
  /\ N \in SUBSET Nat /\ C \in SUBSET Nat /\ S \in SUBSET Nat /\ B \in SUBSET Nat
  /\ A \subseteq B /\ R \subseteq B

\* X with M; X with n; X without 1.
Both(X, M) == X \cup M
Plus(X, n) == X \cup {n}
Rest(X) == X \ {1}

\* The elements of X are less than n; none of them is less than 1.
Below(X, n) == \A k \in X : k < n
AllBelow(X, M) == \A m \in M : \A k \in X : k < m
Positive(X) == \A k \in X : 1 <= k

\* Y has the elements of X, each less by h.
Shifted(h, X, Y) == (\A k \in X : k - h \in Y) /\ (\A k \in Y : k + h \in X)

\* Only the order of the packets on each channel matters.
LEMMA ConversationShifted ==
  ASSUME NEW id, NEW st, NEW mine, NEW other, NEW theirs,
         NEW N, NEW C, NEW S, NEW A, NEW R, NEW B,
         NEW N2, NEW C2, NEW S2, NEW A2, NEW R2, NEW B2,
         NEW g, NEW h, g \in Nat, h \in Nat,
         Fits(N2, C2, S2, A2, R2, B2),
         Fits(N, C, S, A, R, B),
         Conversation(id, st, mine, other, theirs, N, C, S, A, R, B),
         Shifted(g, N, N2),
         Shifted(g, C, C2),
         Shifted(g, S, S2),
         Shifted(h, A, A2),
         Shifted(h, R, R2),
         Shifted(h, B, B2)
  PROVE  Conversation(id, st, mine, other, theirs, N2, C2, S2, A2, R2, B2)
<1> USE DEF Fits
<1>0. /\ N2 = {} <=> N = {}
      /\ A2 = {} <=> A = {}
      /\ C2 = {} <=> C = {}
      /\ R2 = {} <=> R = {}
  BY DEF Shifted
<1>1. Requested(id, st, other, theirs, N2, B2)
  BY DEF Conversation, Requested, Shifted
<1>2. OnConnection(other, N2, C2, S2)
  BY DEF Conversation, OnConnection, Shifted
<1>3. Usable(id, st, mine, other, N2, C2)
  <2>1. Usable(id, st, mine, other, N, C) BY DEF Conversation
  <2>2. st # "unused" /\ id \notin mine => other # "unused" \/ N2 # {} BY <1>0, <2>1 DEF Usable
  <2>3. ASSUME st # "unused", id \notin mine, NEW j \in C2 PROVE \E i \in N2 : j < i
    <3>1. j + g \in C BY DEF Shifted
    <3>2. PICK i \in N : j + g < i BY <2>1, <2>3, <3>1 DEF Usable
    <3>3. i - g \in N2 /\ j < i - g BY <3>2 DEF Shifted
    <3> QED BY <3>3
  <2> QED BY <2>2, <2>3 DEF Usable
<1>4. Given(id, st, other, theirs, N2, B2)
  BY DEF Conversation, Given, Shifted
<1>5. Refusals(id, theirs, R2, B2)
  BY DEF Conversation, Refusals, Shifted
<1>6. Acceptances(st, N2, A2, B2)
  <2>1. Acceptances(st, N, A, B) BY DEF Conversation
  <2>2. st = "initiated" => N2 # {} \/ A2 # {} BY <1>0, <2>1 DEF Acceptances
  <2>3. ASSUME NEW k \in A2 PROVE st = "initiated" /\ \A j \in B2 : k <= j
    <3>1. k + h \in A /\ \A j \in B2 : j + h \in B BY DEF Shifted
    <3>2. st = "initiated" /\ \A j \in B : k + h <= j BY <2>1, <3>1 DEF Acceptances
    <3> QED BY <3>1, <3>2
  <2> QED BY <2>2, <2>3 DEF Acceptances
<1>7. GivenUp(id, st, mine, other, theirs, N2, C2, R2)
  <2>1. GivenUp(id, st, mine, other, theirs, N, C, R) BY DEF Conversation
  <2>2. /\ id \in theirs => st = "unused" \/ R2 # {} \/ N2 # {}
        /\ id \in mine /\ st # "unused" => other = "unused" \/ C2 # {}
    BY <1>0, <2>1 DEF GivenUp
  <2>3. ASSUME id \in mine, st # "unused", NEW i \in N2 PROVE \E j \in C2 : i < j
    <3>1. i + g \in N BY DEF Shifted
    <3>2. PICK j \in C : i + g < j BY <2>1, <2>3, <3>1 DEF GivenUp
    <3>3. j - g \in C2 /\ i < j - g BY <3>2 DEF Shifted
    <3> QED BY <3>3
  <2> QED BY <2>2, <2>3 DEF GivenUp
<1> QED BY <1>1, <1>2, <1>3, <1>4, <1>5, <1>6, <1>7 DEF Conversation

\* newConnection takes the id.
LEMMA OwnerOpens ==
  ASSUME NEW id, NEW st, NEW mine, NEW other, NEW theirs, NEW mine2,
         NEW N, NEW C, NEW S, NEW A, NEW R, NEW B,
         NEW n, n \in Nat,
         Fits(N, C, S, A, R, B),
         Conversation(id, st, mine, other, theirs, N, C, S, A, R, B),
         id \notin mine2,
         st = "unused",
         Below(N, n), Below(C, n), Below(S, n)
  PROVE  Conversation(id, "initiated", mine2, other, theirs, Plus(N, n), C, S, A, R, B)
<1> USE DEF Conversation, Requested, OnConnection, Usable, Given, Refusals, Acceptances, GivenUp,
            Fits, Below, AllBelow, Positive, Plus, Both, Rest
<1>1. Requested(id, "initiated", other, theirs, Plus(N, n), B)
  OBVIOUS
<1>2. OnConnection(other, Plus(N, n), C, S)
  OBVIOUS
<1>3. Usable(id, "initiated", mine2, other, Plus(N, n), C)
  OBVIOUS
<1>4. Given(id, "initiated", other, theirs, Plus(N, n), B)
  OBVIOUS
<1>5. Refusals(id, theirs, R, B)
  OBVIOUS
<1>6. Acceptances("initiated", Plus(N, n), A, B)
  OBVIOUS
<1>7. GivenUp(id, "initiated", mine2, other, theirs, Plus(N, n), C, R)
  OBVIOUS
<1> QED BY <1>1, <1>2, <1>3, <1>4, <1>5, <1>6, <1>7

\* The owner sends a message.
LEMMA OwnerSends ==
  ASSUME NEW id, NEW st, NEW mine, NEW other, NEW theirs,
         NEW N, NEW C, NEW S, NEW A, NEW R, NEW B,
         NEW M, M \in SUBSET Nat,
         Fits(N, C, S, A, R, B),
         Conversation(id, st, mine, other, theirs, N, C, S, A, R, B),
         st # "unused",
         id \notin mine,
         AllBelow(N, M), AllBelow(C, M), AllBelow(S, M)
  PROVE  Conversation(id, st, mine, other, theirs, N, C, Both(S, M), A, R, B)
<1> USE DEF Conversation, Requested, OnConnection, Usable, Given, Refusals, Acceptances, GivenUp,
            Fits, Below, AllBelow, Positive, Plus, Both, Rest
<1>1. Requested(id, st, other, theirs, N, B)
  OBVIOUS
<1>2. OnConnection(other, N, C, Both(S, M))
  OBVIOUS
<1>3. Usable(id, st, mine, other, N, C)
  OBVIOUS
<1>4. Given(id, st, other, theirs, N, B)
  OBVIOUS
<1>5. Refusals(id, theirs, R, B)
  OBVIOUS
<1>6. Acceptances(st, N, A, B)
  OBVIOUS
<1>7. GivenUp(id, st, mine, other, theirs, N, C, R)
  OBVIOUS
<1> QED BY <1>1, <1>2, <1>3, <1>4, <1>5, <1>6, <1>7

\* closeConnection.
LEMMA OwnerCloses ==
  ASSUME NEW id, NEW st, NEW mine, NEW other, NEW theirs, NEW mine2,
         NEW N, NEW C, NEW S, NEW A, NEW R, NEW B,
         NEW n, n \in Nat,
         Fits(N, C, S, A, R, B),
         Conversation(id, st, mine, other, theirs, N, C, S, A, R, B),
         id \in mine2,
         st # "unused",
         id \notin mine,
         Below(N, n), Below(C, n), Below(S, n)
  PROVE  Conversation(id, st, mine2, other, theirs, N, Plus(C, n), S, A, R, B)
<1> USE DEF Conversation, Requested, OnConnection, Usable, Given, Refusals, Acceptances, GivenUp,
            Fits, Below, AllBelow, Positive, Plus, Both, Rest
<1>1. Requested(id, st, other, theirs, N, B)
  OBVIOUS
<1>2. OnConnection(other, N, Plus(C, n), S)
  <2>1. other # "unused" \/ \E i \in N : i < n
    BY DEF Conversation, Usable, Below, AllBelow, Positive, Plus, Both, Rest
  <2>2. \A j \in C : \E i \in N : j < i /\ i < n
    BY DEF Conversation, Usable, Below, AllBelow, Positive, Plus, Both, Rest
  <2>3. \A k \in C \cup S : k < n /\ ~(n < k)
    BY DEF Below, Plus
  <2>4. \A k \in C \cup S : other # "unused" \/ \E i \in N : i < k
    BY DEF Conversation, OnConnection
  <2>5. \A k \in Plus(C, n) \cup S : other # "unused" \/ \E i \in N : i < k
    BY <2>1, <2>4 DEF Plus
  <2>6. ASSUME NEW k \in Plus(C, n) \cup S, NEW j \in Plus(C, n), j < k
        PROVE  \E i \in N : j < i /\ i < k
    <3>1. CASE k = n
      <4>1. j \in C BY <2>6, <3>1 DEF Plus
      <4> QED BY <2>2, <3>1, <4>1
    <3>2. CASE k \in C \cup S
      <4>1. j \in C BY <2>3, <2>6, <3>2 DEF Plus
      <4> QED BY <2>6, <3>2, <4>1 DEF Conversation, OnConnection
    <3> QED BY <3>1, <3>2 DEF Plus
  <2> QED BY <2>5, <2>6 DEF OnConnection
<1>3. Usable(id, st, mine2, other, N, Plus(C, n))
  OBVIOUS
<1>4. Given(id, st, other, theirs, N, B)
  OBVIOUS
<1>5. Refusals(id, theirs, R, B)
  OBVIOUS
<1>6. Acceptances(st, N, A, B)
  OBVIOUS
<1>7. GivenUp(id, st, mine2, other, theirs, N, Plus(C, n), R)
  OBVIOUS
<1> QED BY <1>1, <1>2, <1>3, <1>4, <1>5, <1>6, <1>7

\* The answer to the request arrives.
LEMMA OwnerIsAccepted ==
  ASSUME NEW id, NEW st, NEW mine, NEW other, NEW theirs,
         NEW N, NEW C, NEW S, NEW A, NEW R, NEW B,
         Fits(N, C, S, A, R, B),
         Conversation(id, st, mine, other, theirs, N, C, S, A, R, B),
         Positive(B),
         1 \in A,
         1 \notin R
  PROVE  Conversation(id, "established", mine, other, theirs, N, C, S, Rest(A), R, Rest(B))
<1> USE DEF Conversation, Requested, OnConnection, Usable, Given, Refusals, Acceptances, GivenUp,
            Fits, Below, AllBelow, Positive, Plus, Both, Rest
<1>1. Requested(id, "established", other, theirs, N, Rest(B))
  OBVIOUS
<1>2. OnConnection(other, N, C, S)
  OBVIOUS
<1>3. Usable(id, "established", mine, other, N, C)
  OBVIOUS
<1>4. Given(id, "established", other, theirs, N, Rest(B))
  OBVIOUS
<1>5. Refusals(id, theirs, R, Rest(B))
  OBVIOUS
<1>6. Acceptances("established", N, Rest(A), Rest(B))
  OBVIOUS
<1>7. GivenUp(id, "established", mine, other, theirs, N, C, R)
  OBVIOUS
<1> QED BY <1>1, <1>2, <1>3, <1>4, <1>5, <1>6, <1>7

\* A refusal arrives.
LEMMA OwnerIsRefused ==
  ASSUME NEW id, NEW st, NEW mine, NEW other, NEW theirs,
         NEW N, NEW C, NEW S, NEW A, NEW R, NEW B,
         Fits(N, C, S, A, R, B),
         Conversation(id, st, mine, other, theirs, N, C, S, A, R, B),
         Positive(B),
         1 \in R,
         1 \notin A
  PROVE  Conversation(id, "unused", mine, other, theirs, N, C, S, A, Rest(R), Rest(B))
<1> USE DEF Conversation, Requested, OnConnection, Usable, Given, Refusals, Acceptances, GivenUp,
            Fits, Below, AllBelow, Positive, Plus, Both, Rest
<1>1. Requested(id, "unused", other, theirs, N, Rest(B))
  OBVIOUS
<1>2. OnConnection(other, N, C, S)
  OBVIOUS
<1>3. Usable(id, "unused", mine, other, N, C)
  OBVIOUS
<1>4. Given(id, "unused", other, theirs, N, Rest(B))
  OBVIOUS
<1>5. Refusals(id, theirs, Rest(R), Rest(B))
  OBVIOUS
<1>6. Acceptances("unused", N, A, Rest(B))
  OBVIOUS
<1>7. GivenUp(id, "unused", mine, other, theirs, N, C, Rest(R))
  OBVIOUS
<1> QED BY <1>1, <1>2, <1>3, <1>4, <1>5, <1>6, <1>7

\* A fragment arrives at the owner.
LEMMA OwnerReceives ==
  ASSUME NEW id, NEW st, NEW mine, NEW other, NEW theirs,
         NEW N, NEW C, NEW S, NEW A, NEW R, NEW B,
         Fits(N, C, S, A, R, B),
         Conversation(id, st, mine, other, theirs, N, C, S, A, R, B),
         Positive(B),
         1 \in B,
         1 \notin A,
         1 \notin R
  PROVE  Conversation(id, st, mine, other, theirs, N, C, S, A, R, Rest(B))
<1> USE DEF Conversation, Requested, OnConnection, Usable, Given, Refusals, Acceptances, GivenUp,
            Fits, Below, AllBelow, Positive, Plus, Both, Rest
<1>1. Requested(id, st, other, theirs, N, Rest(B))
  OBVIOUS
<1>2. OnConnection(other, N, C, S)
  OBVIOUS
<1>3. Usable(id, st, mine, other, N, C)
  OBVIOUS
<1>4. Given(id, st, other, theirs, N, Rest(B))
  OBVIOUS
<1>5. Refusals(id, theirs, R, Rest(B))
  OBVIOUS
<1>6. Acceptances(st, N, A, Rest(B))
  OBVIOUS
<1>7. GivenUp(id, st, mine, other, theirs, N, C, R)
  OBVIOUS
<1> QED BY <1>1, <1>2, <1>3, <1>4, <1>5, <1>6, <1>7

\* The request arrives, and is answered.
LEMMA OtherAccepts ==
  ASSUME NEW id, NEW st, NEW mine, NEW other, NEW theirs, NEW other2, NEW theirs2,
         NEW N, NEW C, NEW S, NEW A, NEW R, NEW B,
         NEW n, n \in Nat,
         Fits(N, C, S, A, R, B),
         Conversation(id, st, mine, other, theirs, N, C, S, A, R, B),
         other2 # "unused", id \notin theirs2,
         Positive(N), Positive(C), Positive(S),
         1 \in N,
         1 \notin C,
         1 \notin S
  PROVE  Conversation(id, st, mine, other2, theirs2, Rest(N), C, S, Plus(A, n), R, Plus(B, n))
<1> USE DEF Conversation, Requested, OnConnection, Usable, Given, Refusals, Acceptances, GivenUp,
            Fits, Below, AllBelow, Positive, Plus, Both, Rest
<1>1. Requested(id, st, other2, theirs2, Rest(N), Plus(B, n))
  OBVIOUS
<1>2. OnConnection(other2, Rest(N), C, S)
  OBVIOUS
<1>3. Usable(id, st, mine, other2, Rest(N), C)
  OBVIOUS
<1>4. Given(id, st, other2, theirs2, Rest(N), Plus(B, n))
  OBVIOUS
<1>5. Refusals(id, theirs2, R, Plus(B, n))
  OBVIOUS
<1>6. Acceptances(st, Rest(N), Plus(A, n), Plus(B, n))
  OBVIOUS
<1>7. GivenUp(id, st, mine, other2, theirs2, Rest(N), C, R)
  OBVIOUS
<1> QED BY <1>1, <1>2, <1>3, <1>4, <1>5, <1>6, <1>7

\* The other side sends a message.
LEMMA OtherSends ==
  ASSUME NEW id, NEW st, NEW mine, NEW other, NEW theirs,
         NEW N, NEW C, NEW S, NEW A, NEW R, NEW B,
         NEW M, M \in SUBSET Nat,
         Fits(N, C, S, A, R, B),
         Conversation(id, st, mine, other, theirs, N, C, S, A, R, B),
         other # "unused", id \notin theirs,
         AllBelow(B, M)
  PROVE  Conversation(id, st, mine, other, theirs, N, C, S, A, R, Both(B, M))
<1> USE DEF Conversation, Requested, OnConnection, Usable, Given, Refusals, Acceptances, GivenUp,
            Fits, Below, AllBelow, Positive, Plus, Both, Rest
<1>1. Requested(id, st, other, theirs, N, Both(B, M))
  OBVIOUS
<1>2. OnConnection(other, N, C, S)
  OBVIOUS
<1>3. Usable(id, st, mine, other, N, C)
  OBVIOUS
<1>4. Given(id, st, other, theirs, N, Both(B, M))
  OBVIOUS
<1>5. Refusals(id, theirs, R, Both(B, M))
  OBVIOUS
<1>6. Acceptances(st, N, A, Both(B, M))
  OBVIOUS
<1>7. GivenUp(id, st, mine, other, theirs, N, C, R)
  OBVIOUS
<1> QED BY <1>1, <1>2, <1>3, <1>4, <1>5, <1>6, <1>7

\* rejectConnection.
LEMMA OtherRefuses ==
  ASSUME NEW id, NEW st, NEW mine, NEW other, NEW theirs, NEW theirs2,
         NEW N, NEW C, NEW S, NEW A, NEW R, NEW B,
         NEW n, n \in Nat,
         Fits(N, C, S, A, R, B),
         Conversation(id, st, mine, other, theirs, N, C, S, A, R, B),
         id \in theirs2,
         other # "unused", id \notin theirs,
         Below(B, n)
  PROVE  Conversation(id, st, mine, other, theirs2, N, C, S, A, Plus(R, n), Plus(B, n))
<1> USE DEF Conversation, Requested, OnConnection, Usable, Given, Refusals, Acceptances, GivenUp,
            Fits, Below, AllBelow, Positive, Plus, Both, Rest
<1>1. Requested(id, st, other, theirs2, N, Plus(B, n))
  OBVIOUS
<1>2. OnConnection(other, N, C, S)
  OBVIOUS
<1>3. Usable(id, st, mine, other, N, C)
  OBVIOUS
<1>4. Given(id, st, other, theirs2, N, Plus(B, n))
  OBVIOUS
<1>5. Refusals(id, theirs2, Plus(R, n), Plus(B, n))
  OBVIOUS
<1>6. Acceptances(st, N, A, Plus(B, n))
  OBVIOUS
<1>7. GivenUp(id, st, mine, other, theirs2, N, C, Plus(R, n))
  OBVIOUS
<1> QED BY <1>1, <1>2, <1>3, <1>4, <1>5, <1>6, <1>7

\* A close arrives.
LEMMA OtherIsClosed ==
  ASSUME NEW id, NEW st, NEW mine, NEW other, NEW theirs, NEW other2,
         NEW N, NEW C, NEW S, NEW A, NEW R, NEW B,
         Fits(N, C, S, A, R, B),
         Conversation(id, st, mine, other, theirs, N, C, S, A, R, B),
         other2 = "unused",
         Positive(N), Positive(C), Positive(S),
         1 \in C,
         1 \notin N,
         1 \notin S
  PROVE  Conversation(id, st, mine, other2, theirs, N, Rest(C), S, A, R, B)
<1> USE DEF Conversation, Requested, OnConnection, Usable, Given, Refusals, Acceptances, GivenUp,
            Fits, Below, AllBelow, Positive, Plus, Both, Rest
<1>1. Requested(id, st, other2, theirs, N, B)
  OBVIOUS
<1>2. OnConnection(other2, N, Rest(C), S)
  OBVIOUS
<1>3. Usable(id, st, mine, other2, N, Rest(C))
  OBVIOUS
<1>4. Given(id, st, other2, theirs, N, B)
  OBVIOUS
<1>5. Refusals(id, theirs, R, B)
  OBVIOUS
<1>6. Acceptances(st, N, A, B)
  OBVIOUS
<1>7. GivenUp(id, st, mine, other2, theirs, N, Rest(C), R)
  OBVIOUS
<1> QED BY <1>1, <1>2, <1>3, <1>4, <1>5, <1>6, <1>7

\* A fragment arrives at the other side.
LEMMA OtherReceives ==
  ASSUME NEW id, NEW st, NEW mine, NEW other, NEW theirs,
         NEW N, NEW C, NEW S, NEW A, NEW R, NEW B,
         Fits(N, C, S, A, R, B),
         Conversation(id, st, mine, other, theirs, N, C, S, A, R, B),
         Positive(N), Positive(C), Positive(S),
         1 \in S,
         1 \notin N,
         1 \notin C
  PROVE  Conversation(id, st, mine, other, theirs, N, C, Rest(S), A, R, B)
<1> USE DEF Conversation, Requested, OnConnection, Usable, Given, Refusals, Acceptances, GivenUp,
            Fits, Below, AllBelow, Positive, Plus, Both, Rest
<1>1. Requested(id, st, other, theirs, N, B)
  OBVIOUS
<1>2. OnConnection(other, N, C, Rest(S))
  OBVIOUS
<1>3. Usable(id, st, mine, other, N, C)
  OBVIOUS
<1>4. Given(id, st, other, theirs, N, B)
  OBVIOUS
<1>5. Refusals(id, theirs, R, B)
  OBVIOUS
<1>6. Acceptances(st, N, A, B)
  OBVIOUS
<1>7. GivenUp(id, st, mine, other, theirs, N, C, R)
  OBVIOUS
<1> QED BY <1>1, <1>2, <1>3, <1>4, <1>5, <1>6, <1>7

-----------------------------------------------------------------------------
(* Channels.                                                               *)

Ops == {"new", "accept", "reject", "close", "send"}

\* The places in channel c of the packets about id, and of those of one kind.
Of(c, id)     == {k \in 1..Len(c) : c[k].id = id}
At(c, op, id) == {k \in 1..Len(c) : c[k].op = op /\ c[k].id = id}

\* The owner of an id asks, sends and closes; the other side answers, sends and
\* refuses.
Directed(id, out, back) ==
  /\ Of(out, id) \subseteq At(out, "new", id) \cup At(out, "close", id) \cup At(out, "send", id)
  /\ Of(back, id) \subseteq At(back, "accept", id) \cup At(back, "reject", id)
                              \cup At(back, "send", id)

Talk(id, st, mine, other, theirs, out, back) ==
  /\ Directed(id, out, back)
  /\ Conversation(id, st, mine, other, theirs,
                  At(out, "new", id), At(out, "close", id), At(out, "send", id),
                  At(back, "accept", id), At(back, "reject", id), Of(back, id))

LEMMA Places ==
  ASSUME NEW c \in Seq(AnyPacket), NEW id \in Ids
  PROVE  /\ Of(c, id) \in SUBSET Nat /\ Len(c) \in Nat
         /\ \A k \in Of(c, id) : 1 <= k /\ k <= Len(c)
         /\ \A op \in Ops : At(c, op, id) \in SUBSET Nat /\ At(c, op, id) \subseteq Of(c, id)
BY DEF Of, At

LEMMA PlacesPushed ==
  ASSUME NEW c \in Seq(AnyPacket), NEW x \in AnyPacket, NEW id \in Ids
  PROVE  LET d == Append(c, x)
             n == Len(c) + 1
         IN /\ n \in Nat /\ \A k \in Of(c, id) : k < n
            /\ x.id = id => /\ Of(d, id) = Plus(Of(c, id), n)
                            /\ At(d, x.op, id) = Plus(At(c, x.op, id), n)
                            /\ \A op \in Ops : op # x.op => At(d, op, id) = At(c, op, id)
            /\ x.id # id => /\ Of(d, id) = Of(c, id)
                            /\ \A op \in Ops : At(d, op, id) = At(c, op, id)
<1> DEFINE d == Append(c, x)
           n == Len(c) + 1
<1>1. Len(c) \in Nat /\ Len(d) = n /\ d[n] = x /\ \A k \in 1..Len(c) : d[k] = c[k]
  BY AppendProperties
<1>2. \A k : k \in 1..n <=> k \in 1..Len(c) \/ k = n
  BY <1>1
<1> HIDE DEF d
<1> QED BY <1>1, <1>2 DEF Of, At, d, Plus

\* f is a sequence of fragments for i.
Sends(f, i) == \A k \in 1..Len(f) : f[k].op = "send" /\ f[k].id = i

LEMMA PlacesSent ==
  ASSUME NEW c \in Seq(AnyPacket), NEW f \in Seq(AnyPacket), NEW i \in Ids, NEW id \in Ids, Sends(f, i)
  PROVE  /\ \E M \in SUBSET Nat :
              /\ \A m \in M : \A k \in Of(c, id) : k < m
              /\ i = id => /\ Of(c \o f, id) = Both(Of(c, id), M)
                           /\ At(c \o f, "send", id) = Both(At(c, "send", id), M)
         /\ i = id => \A op \in Ops : op # "send" => At(c \o f, op, id) = At(c, op, id)
         /\ i # id => /\ Of(c \o f, id) = Of(c, id)
                      /\ \A op \in Ops : At(c \o f, op, id) = At(c, op, id)
<1> DEFINE d == c \o f
           M == (Len(c) + 1)..(Len(c) + Len(f))
<1>1. /\ Len(c) \in Nat /\ Len(f) \in Nat /\ Len(d) = Len(c) + Len(f)
      /\ \A k \in 1..Len(c) : d[k] = c[k]
      /\ \A k \in M : d[k] = f[k - Len(c)]
  BY ConcatProperties
<1>2. \A k \in M : k - Len(c) \in 1..Len(f)
  BY <1>1
<1>3. \A k \in M : d[k].op = "send" /\ d[k].id = i
  BY <1>1, <1>2 DEF Sends
<1>4. \A k : k \in 1..Len(d) <=> k \in 1..Len(c) \/ k \in M
  BY <1>1
<1>5. M \in SUBSET Nat /\ \A m \in M : \A k \in 1..Len(c) : k < m
  BY <1>1
<1> HIDE DEF d, M
<1>6. /\ \A m \in M : \A k \in Of(c, id) : k < m
      /\ i = id => /\ Of(d, id) = Both(Of(c, id), M)
                   /\ At(d, "send", id) = Both(At(c, "send", id), M)
                   /\ \A op \in Ops : op # "send" => At(d, op, id) = At(c, op, id)
  BY <1>1, <1>3, <1>4, <1>5 DEF Of, At, Both
<1>7. i # id => /\ Of(d, id) = Of(c, id)
                /\ \A op \in Ops : At(d, op, id) = At(c, op, id)
  BY <1>1, <1>3, <1>4 DEF Of, At
<1> QED BY <1>5, <1>6, <1>7 DEF d

LEMMA PlacesPopped ==
  ASSUME NEW c \in Seq(AnyPacket), c # <<>>, NEW id \in Ids
  PROVE  LET d == Tail(c)
         IN /\ Shifted(1, Rest(Of(c, id)), Of(d, id))
            /\ \A op \in Ops : Shifted(1, Rest(At(c, op, id)), At(d, op, id))
            /\ 1 \in Of(c, id) <=> Head(c).id = id
            /\ \A op \in Ops : 1 \in At(c, op, id) <=> Head(c).id = id /\ Head(c).op = op
<1> DEFINE d == Tail(c)
<1>1. Len(c) \in Nat /\ Len(c) >= 1 /\ Head(c) = c[1]
  BY EmptySeq
<1>2. Len(d) = Len(c) - 1 /\ \A k \in 1..Len(d) : d[k] = c[k + 1]
  BY HeadTailProperties
<1> HIDE DEF d
<1>3. \A k \in 1..Len(d) : k + 1 \in 1..Len(c) /\ k + 1 # 1 /\ c[k + 1] = d[k]
  BY <1>1, <1>2
<1>4. \A k \in (1..Len(c)) \ {1} : k - 1 \in 1..Len(d) /\ d[k - 1] = c[k]
  BY <1>1, <1>2
<1>5. Shifted(1, Rest(Of(c, id)), Of(d, id))
  BY <1>3, <1>4 DEF Shifted, Of, Rest
<1>6. \A op \in Ops : Shifted(1, Rest(At(c, op, id)), At(d, op, id))
  BY <1>3, <1>4 DEF Shifted, At, Rest
<1>7. /\ 1 \in Of(c, id) <=> Head(c).id = id
      /\ \A op \in Ops : 1 \in At(c, op, id) <=> Head(c).id = id /\ Head(c).op = op
  BY <1>1 DEF Of, At
<1> QED BY <1>5, <1>6, <1>7 DEF d

\* The packets about id are the same, in the same order.
SameOf(id, c, d) ==
  \E h \in {0, 1} : Shifted(h, Of(c, id), Of(d, id))
                    /\ \A op \in Ops : Shifted(h, At(c, op, id), At(d, op, id))

LEMMA SameOfOthers ==
  ASSUME NEW c \in Seq(AnyPacket), NEW id \in Ids
  PROVE  /\ SameOf(id, c, c)
         /\ \A x \in AnyPacket : x.id # id => SameOf(id, c, Append(c, x))
         /\ c # <<>> /\ Head(c).id # id => SameOf(id, c, Tail(c))
<1>1. \A X \in SUBSET Nat : Shifted(0, X, X)
  BY DEF Shifted
<1>2. Of(c, id) \in SUBSET Nat /\ \A op \in Ops : At(c, op, id) \in SUBSET Nat
  BY Places
<1>3. SameOf(id, c, c)
  BY <1>1, <1>2 DEF SameOf
<1>4. ASSUME NEW x \in AnyPacket, x.id # id PROVE SameOf(id, c, Append(c, x))
  <2>1. Of(Append(c, x), id) = Of(c, id) /\ \A op \in Ops : At(Append(c, x), op, id) = At(c, op, id)
    BY <1>4, PlacesPushed
  <2> QED BY <1>1, <1>2, <2>1 DEF SameOf
<1>5. ASSUME c # <<>>, Head(c).id # id PROVE SameOf(id, c, Tail(c))
  <2>1. /\ Shifted(1, Rest(Of(c, id)), Of(Tail(c), id)) /\ 1 \notin Of(c, id)
        /\ \A op \in Ops : Shifted(1, Rest(At(c, op, id)), At(Tail(c), op, id)) /\ 1 \notin At(c, op, id)
    BY <1>5, PlacesPopped
  <2>2. \A X : 1 \notin X => Rest(X) = X
    BY DEF Rest
  <2>3. /\ Shifted(1, Of(c, id), Of(Tail(c), id))
        /\ \A op \in Ops : Shifted(1, At(c, op, id), At(Tail(c), op, id))
    BY <2>1, <2>2
  <2> QED BY <2>3 DEF SameOf
<1> QED BY <1>3, <1>4, <1>5

LEMMA SameOfSent ==
  ASSUME NEW c \in Seq(AnyPacket), NEW f \in Seq(AnyPacket), NEW i \in Ids, NEW id \in Ids, i # id,
         Sends(f, i)
  PROVE  SameOf(id, c, c \o f)
<1>1. Of(c \o f, id) = Of(c, id) /\ \A op \in Ops : At(c \o f, op, id) = At(c, op, id)
  BY PlacesSent
<1>2. Of(c, id) \in SUBSET Nat /\ \A op \in Ops : At(c, op, id) \in SUBSET Nat
  BY Places
<1>3. \A X \in SUBSET Nat : Shifted(0, X, X)
  BY DEF Shifted
<1> QED BY <1>1, <1>2, <1>3 DEF SameOf

\* A packet about another id leaves the conversation as it is.
LEMMA TalkSame ==
  ASSUME NEW id \in Ids, NEW st, NEW mine, NEW other, NEW theirs,
         NEW out \in Seq(AnyPacket), NEW back \in Seq(AnyPacket),
         NEW out2 \in Seq(AnyPacket), NEW back2 \in Seq(AnyPacket),
         SameOf(id, out, out2), SameOf(id, back, back2),
         Talk(id, st, mine, other, theirs, out, back)
  PROVE  Talk(id, st, mine, other, theirs, out2, back2)
<1>1. PICK g \in {0, 1} : Shifted(g, Of(out, id), Of(out2, id))
                          /\ \A op \in Ops : Shifted(g, At(out, op, id), At(out2, op, id))
  BY DEF SameOf
<1>2. PICK h \in {0, 1} : Shifted(h, Of(back, id), Of(back2, id))
                          /\ \A op \in Ops : Shifted(h, At(back, op, id), At(back2, op, id))
  BY DEF SameOf
<1>3. Directed(id, out2, back2)
  <2>1. ASSUME NEW k \in Of(out2, id)
        PROVE  k \in At(out2, "new", id) \cup At(out2, "close", id) \cup At(out2, "send", id)
    <3>1. k + g \in Of(out, id) /\ k \in Nat BY <1>1, Places DEF Shifted
    <3>2. PICK op \in {"new", "close", "send"} : k + g \in At(out, op, id)
      BY <3>1 DEF Talk, Directed
    <3>3. Shifted(g, At(out, op, id), At(out2, op, id)) BY <1>1 DEF Ops
    <3> QED BY <3>1, <3>2, <3>3 DEF Shifted
  <2>2. ASSUME NEW k \in Of(back2, id)
        PROVE  k \in At(back2, "accept", id) \cup At(back2, "reject", id)
                     \cup At(back2, "send", id)
    <3>1. k + h \in Of(back, id) /\ k \in Nat BY <1>2, Places DEF Shifted
    <3>2. PICK op \in {"accept", "reject", "send"} : k + h \in At(back, op, id)
      BY <3>1 DEF Talk, Directed
    <3>3. Shifted(h, At(back, op, id), At(back2, op, id)) BY <1>2 DEF Ops
    <3> QED BY <3>1, <3>2, <3>3 DEF Shifted
  <2> QED BY <2>1, <2>2 DEF Directed
<1>4. g \in Nat /\ h \in Nat
  OBVIOUS
<1>5. /\ \A op \in Ops : At(out, op, id) \in SUBSET Nat /\ At(out2, op, id) \in SUBSET Nat
      /\ \A op \in Ops : At(back, op, id) \in SUBSET Nat /\ At(back2, op, id) \in SUBSET Nat
      /\ \A op \in Ops : At(back, op, id) \subseteq Of(back, id)
      /\ \A op \in Ops : At(back2, op, id) \subseteq Of(back2, id)
      /\ Of(back, id) \in SUBSET Nat /\ Of(back2, id) \in SUBSET Nat
  BY Places
<1>6. Conversation(id, st, mine, other, theirs,
                   At(out2, "new", id), At(out2, "close", id), At(out2, "send", id),
                   At(back2, "accept", id), At(back2, "reject", id), Of(back2, id))
  <2> DEFINE N == At(out, "new", id)
             C == At(out, "close", id)
             S == At(out, "send", id)
             A == At(back, "accept", id)
             R == At(back, "reject", id)
             B == Of(back, id)
             N2 == At(out2, "new", id)
             C2 == At(out2, "close", id)
             S2 == At(out2, "send", id)
             A2 == At(back2, "accept", id)
             R2 == At(back2, "reject", id)
             B2 == Of(back2, id)
  <2>1. /\ N \in SUBSET Nat /\ C \in SUBSET Nat /\ S \in SUBSET Nat
        /\ A \in SUBSET Nat /\ R \in SUBSET Nat /\ B \in SUBSET Nat
        /\ N2 \in SUBSET Nat /\ C2 \in SUBSET Nat /\ S2 \in SUBSET Nat
        /\ A2 \in SUBSET Nat /\ R2 \in SUBSET Nat /\ B2 \in SUBSET Nat
        /\ Fits(N, C, S, A, R, B) /\ Fits(N2, C2, S2, A2, R2, B2)
    BY <1>5 DEF Ops, Fits
  <2>2. /\ Shifted(g, N, N2) /\ Shifted(g, C, C2) /\ Shifted(g, S, S2)
        /\ Shifted(h, A, A2) /\ Shifted(h, R, R2) /\ Shifted(h, B, B2)
    BY <1>1, <1>2 DEF Ops
  <2>3. Conversation(id, st, mine, other, theirs, N, C, S, A, R, B)
    BY DEF Talk
  <2> HIDE DEF N, C, S, A, R, B, N2, C2, S2, A2, R2, B2
  <2>4. Conversation(id, st, mine, other, theirs, N2, C2, S2, A2, R2, B2)
    BY <1>4, <2>1, <2>2, <2>3, ConversationShifted
  <2> QED BY <2>4 DEF N2, C2, S2, A2, R2, B2
<1> QED BY <1>3, <1>6 DEF Talk

-----------------------------------------------------------------------------
(* The conversation when a packet about the id is sent or arrives.         *)

\* The head of the way out, or of the way back, is gone.
LEMMA TalkOutPopped ==
  ASSUME NEW id \in Ids, NEW st, NEW mine, NEW other, NEW theirs,
         NEW out \in Seq(AnyPacket), NEW back \in Seq(AnyPacket), out # <<>>,
         Directed(id, out, back),
         Conversation(id, st, mine, other, theirs,
                      Rest(At(out, "new", id)), Rest(At(out, "close", id)),
                      Rest(At(out, "send", id)),
                      At(back, "accept", id), At(back, "reject", id), Of(back, id))
  PROVE  Talk(id, st, mine, other, theirs, Tail(out), back)
<1> DEFINE out2 == Tail(out)
<1>1. /\ Shifted(1, Rest(Of(out, id)), Of(out2, id))
      /\ \A op \in Ops : Shifted(1, Rest(At(out, op, id)), At(out2, op, id))
  BY PlacesPopped
<1>2. out2 \in Seq(AnyPacket)
  BY HeadTailProperties
<1> HIDE DEF out2
<1>3. /\ \A op \in Ops : Rest(At(out, op, id)) \in SUBSET Nat /\ At(out2, op, id) \in SUBSET Nat
      /\ \A op \in Ops : At(back, op, id) \in SUBSET Nat /\ At(back, op, id) \subseteq Of(back, id)
      /\ Of(back, id) \in SUBSET Nat
  BY <1>2, Places DEF Rest
<1>4. \A X \in SUBSET Nat : Shifted(0, X, X)
  BY DEF Shifted
<1>5. Directed(id, out2, back)
  <2>1. ASSUME NEW k \in Of(out2, id)
        PROVE  k \in At(out2, "new", id) \cup At(out2, "close", id) \cup At(out2, "send", id)
    <3>1. k + 1 \in Rest(Of(out, id)) /\ k \in Nat BY <1>1, <1>2, Places DEF Shifted
    <3>2. PICK op \in {"new", "close", "send"} : k + 1 \in Rest(At(out, op, id))
      BY <3>1 DEF Directed, Rest
    <3>3. Shifted(1, Rest(At(out, op, id)), At(out2, op, id)) BY <1>1 DEF Ops
    <3> QED BY <3>1, <3>2, <3>3 DEF Shifted
  <2> QED BY <2>1 DEF Directed
<1>6. Conversation(id, st, mine, other, theirs,
                   At(out2, "new", id), At(out2, "close", id), At(out2, "send", id),
                   At(back, "accept", id), At(back, "reject", id), Of(back, id))
  <2> DEFINE N == Rest(At(out, "new", id))
             C == Rest(At(out, "close", id))
             S == Rest(At(out, "send", id))
             A == At(back, "accept", id)
             R == At(back, "reject", id)
             B == Of(back, id)
             N2 == At(out2, "new", id)
             C2 == At(out2, "close", id)
             S2 == At(out2, "send", id)
  <2>1. /\ N \in SUBSET Nat /\ C \in SUBSET Nat /\ S \in SUBSET Nat
        /\ N2 \in SUBSET Nat /\ C2 \in SUBSET Nat /\ S2 \in SUBSET Nat
        /\ A \in SUBSET Nat /\ R \in SUBSET Nat /\ B \in SUBSET Nat
        /\ Fits(N, C, S, A, R, B) /\ Fits(N2, C2, S2, A, R, B)
        /\ Shifted(1, N, N2) /\ Shifted(1, C, C2) /\ Shifted(1, S, S2)
    BY <1>1, <1>3 DEF Ops, Fits
  <2>2. Shifted(0, A, A) /\ Shifted(0, R, R) /\ Shifted(0, B, B)
    BY <1>4, <2>1
  <2>3. Conversation(id, st, mine, other, theirs, N, C, S, A, R, B)
    OBVIOUS
  <2> HIDE DEF N, C, S, A, R, B, N2, C2, S2
  <2>4. 0 \in Nat /\ 1 \in Nat OBVIOUS
  <2>5. Conversation(id, st, mine, other, theirs, N2, C2, S2, A, R, B)
    BY <2>1, <2>2, <2>3, <2>4, ConversationShifted
  <2> QED BY <2>5 DEF N2, C2, S2, A, R, B
<1> QED BY <1>5, <1>6 DEF Talk, out2

LEMMA TalkBackPopped ==
  ASSUME NEW id \in Ids, NEW st, NEW mine, NEW other, NEW theirs,
         NEW out \in Seq(AnyPacket), NEW back \in Seq(AnyPacket), back # <<>>,
         Directed(id, out, back),
         Conversation(id, st, mine, other, theirs,
                      At(out, "new", id), At(out, "close", id), At(out, "send", id),
                      Rest(At(back, "accept", id)), Rest(At(back, "reject", id)),
                      Rest(Of(back, id)))
  PROVE  Talk(id, st, mine, other, theirs, out, Tail(back))
<1> DEFINE back2 == Tail(back)
<1>1. /\ Shifted(1, Rest(Of(back, id)), Of(back2, id))
      /\ \A op \in Ops : Shifted(1, Rest(At(back, op, id)), At(back2, op, id))
  BY PlacesPopped
<1>2. back2 \in Seq(AnyPacket)
  BY HeadTailProperties
<1> HIDE DEF back2
<1>3. /\ \A op \in Ops : Rest(At(back, op, id)) \in SUBSET Nat /\ At(back2, op, id) \in SUBSET Nat
      /\ \A op \in Ops : At(out, op, id) \in SUBSET Nat
      /\ \A op \in Ops : Rest(At(back, op, id)) \subseteq Rest(Of(back, id))
      /\ \A op \in Ops : At(back2, op, id) \subseteq Of(back2, id)
      /\ Rest(Of(back, id)) \in SUBSET Nat /\ Of(back2, id) \in SUBSET Nat
  BY <1>2, Places DEF Rest
<1>4. \A X \in SUBSET Nat : Shifted(0, X, X)
  BY DEF Shifted
<1>5. Directed(id, out, back2)
  <2>1. ASSUME NEW k \in Of(back2, id)
        PROVE  k \in At(back2, "accept", id) \cup At(back2, "reject", id)
                     \cup At(back2, "send", id)
    <3>1. k + 1 \in Rest(Of(back, id)) /\ k \in Nat BY <1>1, <1>2, Places DEF Shifted
    <3>2. PICK op \in {"accept", "reject", "send"} : k + 1 \in Rest(At(back, op, id))
      BY <3>1 DEF Directed, Rest
    <3>3. Shifted(1, Rest(At(back, op, id)), At(back2, op, id)) BY <1>1 DEF Ops
    <3> QED BY <3>1, <3>2, <3>3 DEF Shifted
  <2> QED BY <2>1 DEF Directed
<1>6. Conversation(id, st, mine, other, theirs,
                   At(out, "new", id), At(out, "close", id), At(out, "send", id),
                   At(back2, "accept", id), At(back2, "reject", id), Of(back2, id))
  <2> DEFINE N == At(out, "new", id)
             C == At(out, "close", id)
             S == At(out, "send", id)
             A == Rest(At(back, "accept", id))
             R == Rest(At(back, "reject", id))
             B == Rest(Of(back, id))
             A2 == At(back2, "accept", id)
             R2 == At(back2, "reject", id)
             B2 == Of(back2, id)
  <2>1. /\ N \in SUBSET Nat /\ C \in SUBSET Nat /\ S \in SUBSET Nat
        /\ A2 \in SUBSET Nat /\ R2 \in SUBSET Nat /\ B2 \in SUBSET Nat
        /\ A \in SUBSET Nat /\ R \in SUBSET Nat /\ B \in SUBSET Nat
        /\ Fits(N, C, S, A, R, B) /\ Fits(N, C, S, A2, R2, B2)
        /\ Shifted(1, A, A2) /\ Shifted(1, R, R2) /\ Shifted(1, B, B2)
    BY <1>1, <1>3 DEF Ops, Fits
  <2>2. Shifted(0, N, N) /\ Shifted(0, C, C) /\ Shifted(0, S, S)
    BY <1>4, <2>1
  <2>3. Conversation(id, st, mine, other, theirs, N, C, S, A, R, B)
    OBVIOUS
  <2> HIDE DEF N, C, S, A, R, B, A2, R2, B2
  <2>4. 0 \in Nat /\ 1 \in Nat OBVIOUS
  <2>5. Conversation(id, st, mine, other, theirs, N, C, S, A2, R2, B2)
    BY <2>1, <2>2, <2>3, <2>4, ConversationShifted
  <2> QED BY <2>5 DEF N, C, S, A2, R2, B2
<1> QED BY <1>5, <1>6 DEF Talk, back2

\* newConnection takes the id.
LEMMA TalkOpens ==
  ASSUME NEW id \in Ids, NEW st, NEW mine, NEW other, NEW theirs, NEW mine2,
         NEW out \in Seq(AnyPacket), NEW back \in Seq(AnyPacket),
         Talk(id, st, mine, other, theirs, out, back),
         id \notin mine2,
         NEW x \in AnyPacket, x.op = "new", x.id = id,
         st = "unused"
  PROVE  Talk(id, "initiated", mine2, other, theirs, Append(out, x), back)
<1> DEFINE N == At(out, "new", id)
           C == At(out, "close", id)
           S == At(out, "send", id)
           A == At(back, "accept", id)
           R == At(back, "reject", id)
           B == Of(back, id)
           n == Len(out) + 1
           d == Append(out, x)
<1>1. /\ N \in SUBSET Nat /\ C \in SUBSET Nat /\ S \in SUBSET Nat
      /\ A \in SUBSET Nat /\ R \in SUBSET Nat /\ B \in SUBSET Nat
      /\ A \subseteq B /\ R \subseteq B
      /\ Fits(N, C, S, A, R, B)
      /\ n \in Nat /\ Below(N, n) /\ Below(C, n) /\ Below(S, n)
  BY Places, PlacesPushed DEF Ops, Fits, Below
<1>2. /\ At(d, "new", id) = Plus(N, n)
      /\ At(d, "close", id) = C
      /\ At(d, "send", id) = S
      /\ Of(d, id) = Plus(Of(out, id), n)
  BY PlacesPushed DEF Ops
<1>3. Directed(id, out, back) /\ Conversation(id, st, mine, other, theirs, N, C, S, A, R, B)
  BY DEF Talk
<1>4. Directed(id, d, back)
  BY <1>2, <1>3 DEF Directed, Plus
<1> HIDE DEF N, C, S, A, R, B, n, d
<1>5. Conversation(id, "initiated", mine2, other, theirs, Plus(N, n), C, S, A, R, B)
  BY <1>1, <1>3, OwnerOpens
<1>6. Talk(id, "initiated", mine2, other, theirs, d, back)
  BY <1>2, <1>4, <1>5 DEF Talk, N, C, S, A, R, B
<1> QED BY <1>6 DEF d

\* A message on the connection, from its owner and from the other side.
LEMMA TalkSends ==
  ASSUME NEW id \in Ids, NEW st, NEW mine, NEW other, NEW theirs,
         NEW out \in Seq(AnyPacket), NEW back \in Seq(AnyPacket),
         Talk(id, st, mine, other, theirs, out, back),
         NEW f \in Seq(AnyPacket), Sends(f, id),
         st # "unused",
         id \notin mine
  PROVE  Talk(id, st, mine, other, theirs, out \o f, back)
<1> DEFINE N == At(out, "new", id)
           C == At(out, "close", id)
           S == At(out, "send", id)
           A == At(back, "accept", id)
           R == At(back, "reject", id)
           B == Of(back, id)
           d == out \o f
<1>1. /\ N \in SUBSET Nat /\ C \in SUBSET Nat /\ S \in SUBSET Nat
      /\ A \in SUBSET Nat /\ R \in SUBSET Nat /\ B \in SUBSET Nat
      /\ A \subseteq B /\ R \subseteq B
      /\ Fits(N, C, S, A, R, B)
      /\ \A op \in Ops : At(out, op, id) \subseteq Of(out, id)
  BY Places DEF Ops, Fits
<1>2. PICK M \in SUBSET Nat :
        /\ \A m \in M : \A k \in Of(out, id) : k < m
        /\ Of(d, id) = Both(Of(out, id), M) /\ At(d, "send", id) = Both(At(out, "send", id), M)
  BY PlacesSent DEF Ops
<1>3. At(d, "new", id) = At(out, "new", id) /\ At(d, "close", id) = At(out, "close", id)
  BY PlacesSent DEF Ops
<1>4. Directed(id, out, back) /\ Conversation(id, st, mine, other, theirs, N, C, S, A, R, B)
  BY DEF Talk
<1>5. Directed(id, d, back)
  BY <1>2, <1>3, <1>4 DEF Directed, Both
<1>6. AllBelow(N, M) /\ AllBelow(C, M) /\ AllBelow(S, M)
  BY <1>1, <1>2 DEF Ops, AllBelow
<1> HIDE DEF N, C, S, A, R, B, d
<1>7. Conversation(id, st, mine, other, theirs, N, C, Both(S, M), A, R, B)
  BY <1>1, <1>2, <1>4, <1>6, OwnerSends
<1>8. Talk(id, st, mine, other, theirs, d, back)
  BY <1>2, <1>3, <1>5, <1>7 DEF Talk, N, C, S, A, R, B
<1> QED BY <1>8 DEF d

LEMMA TalkAnswers ==
  ASSUME NEW id \in Ids, NEW st, NEW mine, NEW other, NEW theirs,
         NEW out \in Seq(AnyPacket), NEW back \in Seq(AnyPacket),
         Talk(id, st, mine, other, theirs, out, back),
         NEW f \in Seq(AnyPacket), Sends(f, id),
         other # "unused",
         id \notin theirs
  PROVE  Talk(id, st, mine, other, theirs, out, back \o f)
<1> DEFINE N == At(out, "new", id)
           C == At(out, "close", id)
           S == At(out, "send", id)
           A == At(back, "accept", id)
           R == At(back, "reject", id)
           B == Of(back, id)
           d == back \o f
<1>1. /\ N \in SUBSET Nat /\ C \in SUBSET Nat /\ S \in SUBSET Nat
      /\ A \in SUBSET Nat /\ R \in SUBSET Nat /\ B \in SUBSET Nat
      /\ A \subseteq B /\ R \subseteq B
      /\ Fits(N, C, S, A, R, B)
      /\ \A op \in Ops : At(back, op, id) \subseteq Of(back, id)
  BY Places DEF Ops, Fits
<1>2. PICK M \in SUBSET Nat :
        /\ \A m \in M : \A k \in Of(back, id) : k < m
        /\ Of(d, id) = Both(Of(back, id), M) /\ At(d, "send", id) = Both(At(back, "send", id), M)
  BY PlacesSent DEF Ops
<1>3. At(d, "accept", id) = At(back, "accept", id) /\ At(d, "reject", id) = At(back, "reject", id)
  BY PlacesSent DEF Ops
<1>4. Directed(id, out, back) /\ Conversation(id, st, mine, other, theirs, N, C, S, A, R, B)
  BY DEF Talk
<1>5. Directed(id, out, d)
  BY <1>2, <1>3, <1>4 DEF Directed, Both
<1>6. AllBelow(B, M)
  BY <1>1, <1>2 DEF Ops, AllBelow
<1> HIDE DEF N, C, S, A, R, B, d
<1>7. Conversation(id, st, mine, other, theirs, N, C, S, A, R, Both(B, M))
  BY <1>1, <1>2, <1>4, <1>6, OtherSends
<1>8. Talk(id, st, mine, other, theirs, out, d)
  BY <1>2, <1>3, <1>5, <1>7 DEF Talk, N, C, S, A, R, B
<1> QED BY <1>8 DEF d

\* closeConnection and rejectConnection.
LEMMA TalkCloses ==
  ASSUME NEW id \in Ids, NEW st, NEW mine, NEW other, NEW theirs, NEW mine2,
         NEW out \in Seq(AnyPacket), NEW back \in Seq(AnyPacket),
         Talk(id, st, mine, other, theirs, out, back),
         id \in mine2,
         NEW x \in AnyPacket, x.op = "close", x.id = id,
         st # "unused",
         id \notin mine
  PROVE  Talk(id, st, mine2, other, theirs, Append(out, x), back)
<1> DEFINE N == At(out, "new", id)
           C == At(out, "close", id)
           S == At(out, "send", id)
           A == At(back, "accept", id)
           R == At(back, "reject", id)
           B == Of(back, id)
           n == Len(out) + 1
           d == Append(out, x)
<1>1. /\ N \in SUBSET Nat /\ C \in SUBSET Nat /\ S \in SUBSET Nat
      /\ A \in SUBSET Nat /\ R \in SUBSET Nat /\ B \in SUBSET Nat
      /\ A \subseteq B /\ R \subseteq B
      /\ Fits(N, C, S, A, R, B)
      /\ n \in Nat /\ Below(N, n) /\ Below(C, n) /\ Below(S, n)
  BY Places, PlacesPushed DEF Ops, Fits, Below
<1>2. /\ At(d, "new", id) = N
      /\ At(d, "close", id) = Plus(C, n)
      /\ At(d, "send", id) = S
      /\ Of(d, id) = Plus(Of(out, id), n)
  BY PlacesPushed DEF Ops
<1>3. Directed(id, out, back) /\ Conversation(id, st, mine, other, theirs, N, C, S, A, R, B)
  BY DEF Talk
<1>4. Directed(id, d, back)
  BY <1>2, <1>3 DEF Directed, Plus
<1> HIDE DEF N, C, S, A, R, B, n, d
<1>5. Conversation(id, st, mine2, other, theirs, N, Plus(C, n), S, A, R, B)
  BY <1>1, <1>3, OwnerCloses
<1>6. Talk(id, st, mine2, other, theirs, d, back)
  BY <1>2, <1>4, <1>5 DEF Talk, N, C, S, A, R, B
<1> QED BY <1>6 DEF d

LEMMA TalkRefuses ==
  ASSUME NEW id \in Ids, NEW st, NEW mine, NEW other, NEW theirs, NEW theirs2,
         NEW out \in Seq(AnyPacket), NEW back \in Seq(AnyPacket),
         Talk(id, st, mine, other, theirs, out, back),
         id \in theirs2,
         NEW x \in AnyPacket, x.op = "reject", x.id = id,
         other # "unused",
         id \notin theirs
  PROVE  Talk(id, st, mine, other, theirs2, out, Append(back, x))
<1> DEFINE N == At(out, "new", id)
           C == At(out, "close", id)
           S == At(out, "send", id)
           A == At(back, "accept", id)
           R == At(back, "reject", id)
           B == Of(back, id)
           n == Len(back) + 1
           d == Append(back, x)
<1>1. /\ N \in SUBSET Nat /\ C \in SUBSET Nat /\ S \in SUBSET Nat
      /\ A \in SUBSET Nat /\ R \in SUBSET Nat /\ B \in SUBSET Nat
      /\ A \subseteq B /\ R \subseteq B
      /\ Fits(N, C, S, A, R, B)
      /\ n \in Nat /\ Below(B, n)
  BY Places, PlacesPushed DEF Ops, Fits, Below
<1>2. /\ At(d, "accept", id) = A
      /\ At(d, "reject", id) = Plus(R, n)
      /\ At(d, "send", id) = At(back, "send", id)
      /\ Of(d, id) = Plus(B, n)
  BY PlacesPushed DEF Ops
<1>3. Directed(id, out, back) /\ Conversation(id, st, mine, other, theirs, N, C, S, A, R, B)
  BY DEF Talk
<1>4. Directed(id, out, d)
  BY <1>2, <1>3 DEF Directed, Plus
<1> HIDE DEF N, C, S, A, R, B, n, d
<1>5. Conversation(id, st, mine, other, theirs2, N, C, S, A, Plus(R, n), Plus(B, n))
  BY <1>1, <1>3, OtherRefuses
<1>6. Talk(id, st, mine, other, theirs2, out, d)
  BY <1>2, <1>4, <1>5 DEF Talk, N, C, S, A, R, B
<1> QED BY <1>6 DEF d

\* The answer, a refusal and a fragment arrive at the owner.
LEMMA TalkIsAccepted ==
  ASSUME NEW id \in Ids, NEW st, NEW mine, NEW other, NEW theirs,
         NEW out \in Seq(AnyPacket), NEW back \in Seq(AnyPacket),
         Talk(id, st, mine, other, theirs, out, back),
         back # <<>>, Head(back).op = "accept", Head(back).id = id
  PROVE  Talk(id, "established", mine, other, theirs, out, Tail(back))
<1> DEFINE N == At(out, "new", id)
           C == At(out, "close", id)
           S == At(out, "send", id)
           A == At(back, "accept", id)
           R == At(back, "reject", id)
           B == Of(back, id)
<1>1. /\ N \in SUBSET Nat /\ C \in SUBSET Nat /\ S \in SUBSET Nat
      /\ A \in SUBSET Nat /\ R \in SUBSET Nat /\ B \in SUBSET Nat
      /\ A \subseteq B /\ R \subseteq B
      /\ Fits(N, C, S, A, R, B)
      /\ Positive(B)
  BY Places DEF Ops, Fits, Positive
<1>2. 1 \in B /\ 1 \in A /\ 1 \notin R
  BY PlacesPopped DEF Ops
<1>3. Directed(id, out, back) /\ Conversation(id, st, mine, other, theirs, N, C, S, A, R, B)
  BY DEF Talk
<1> HIDE DEF N, C, S, A, R, B
<1>4. Rest(R) = R
  BY <1>2 DEF Rest
<1>5. Conversation(id, "established", mine, other, theirs, N, C, S, Rest(A), Rest(R), Rest(B))
  BY <1>1, <1>2, <1>3, <1>4, OwnerIsAccepted
<1> QED BY <1>3, <1>5, TalkBackPopped DEF N, C, S, A, R, B

LEMMA TalkIsRefused ==
  ASSUME NEW id \in Ids, NEW st, NEW mine, NEW other, NEW theirs,
         NEW out \in Seq(AnyPacket), NEW back \in Seq(AnyPacket),
         Talk(id, st, mine, other, theirs, out, back),
         back # <<>>, Head(back).op = "reject", Head(back).id = id
  PROVE  Talk(id, "unused", mine, other, theirs, out, Tail(back))
<1> DEFINE N == At(out, "new", id)
           C == At(out, "close", id)
           S == At(out, "send", id)
           A == At(back, "accept", id)
           R == At(back, "reject", id)
           B == Of(back, id)
<1>1. /\ N \in SUBSET Nat /\ C \in SUBSET Nat /\ S \in SUBSET Nat
      /\ A \in SUBSET Nat /\ R \in SUBSET Nat /\ B \in SUBSET Nat
      /\ A \subseteq B /\ R \subseteq B
      /\ Fits(N, C, S, A, R, B)
      /\ Positive(B)
  BY Places DEF Ops, Fits, Positive
<1>2. 1 \in B /\ 1 \notin A /\ 1 \in R
  BY PlacesPopped DEF Ops
<1>3. Directed(id, out, back) /\ Conversation(id, st, mine, other, theirs, N, C, S, A, R, B)
  BY DEF Talk
<1> HIDE DEF N, C, S, A, R, B
<1>4. Rest(A) = A
  BY <1>2 DEF Rest
<1>5. Conversation(id, "unused", mine, other, theirs, N, C, S, Rest(A), Rest(R), Rest(B))
  BY <1>1, <1>2, <1>3, <1>4, OwnerIsRefused
<1> QED BY <1>3, <1>5, TalkBackPopped DEF N, C, S, A, R, B

LEMMA TalkReceives ==
  ASSUME NEW id \in Ids, NEW st, NEW mine, NEW other, NEW theirs,
         NEW out \in Seq(AnyPacket), NEW back \in Seq(AnyPacket),
         Talk(id, st, mine, other, theirs, out, back),
         back # <<>>, Head(back).op = "send", Head(back).id = id
  PROVE  Talk(id, st, mine, other, theirs, out, Tail(back))
<1> DEFINE N == At(out, "new", id)
           C == At(out, "close", id)
           S == At(out, "send", id)
           A == At(back, "accept", id)
           R == At(back, "reject", id)
           B == Of(back, id)
<1>1. /\ N \in SUBSET Nat /\ C \in SUBSET Nat /\ S \in SUBSET Nat
      /\ A \in SUBSET Nat /\ R \in SUBSET Nat /\ B \in SUBSET Nat
      /\ A \subseteq B /\ R \subseteq B
      /\ Fits(N, C, S, A, R, B)
      /\ Positive(B)
  BY Places DEF Ops, Fits, Positive
<1>2. 1 \in B /\ 1 \notin A /\ 1 \notin R
  BY PlacesPopped DEF Ops
<1>3. Directed(id, out, back) /\ Conversation(id, st, mine, other, theirs, N, C, S, A, R, B)
  BY DEF Talk
<1> HIDE DEF N, C, S, A, R, B
<1>4. Rest(A) = A /\ Rest(R) = R
  BY <1>2 DEF Rest
<1>5. Conversation(id, st, mine, other, theirs, N, C, S, Rest(A), Rest(R), Rest(B))
  BY <1>1, <1>2, <1>3, <1>4, OwnerReceives
<1> QED BY <1>3, <1>5, TalkBackPopped DEF N, C, S, A, R, B

\* A close and a fragment arrive at the other side.
LEMMA TalkIsClosed ==
  ASSUME NEW id \in Ids, NEW st, NEW mine, NEW other, NEW theirs, NEW other2,
         NEW out \in Seq(AnyPacket), NEW back \in Seq(AnyPacket),
         Talk(id, st, mine, other, theirs, out, back),
         other2 = "unused",
         out # <<>>, Head(out).op = "close", Head(out).id = id
  PROVE  Talk(id, st, mine, other2, theirs, Tail(out), back)
<1> DEFINE N == At(out, "new", id)
           C == At(out, "close", id)
           S == At(out, "send", id)
           A == At(back, "accept", id)
           R == At(back, "reject", id)
           B == Of(back, id)
<1>1. /\ N \in SUBSET Nat /\ C \in SUBSET Nat /\ S \in SUBSET Nat
      /\ A \in SUBSET Nat /\ R \in SUBSET Nat /\ B \in SUBSET Nat
      /\ A \subseteq B /\ R \subseteq B
      /\ Fits(N, C, S, A, R, B)
      /\ Positive(N) /\ Positive(C) /\ Positive(S)
  BY Places DEF Ops, Fits, Positive
<1>2. 1 \in C /\ 1 \notin N /\ 1 \notin S
  BY PlacesPopped DEF Ops
<1>3. Directed(id, out, back) /\ Conversation(id, st, mine, other, theirs, N, C, S, A, R, B)
  BY DEF Talk
<1> HIDE DEF N, C, S, A, R, B
<1>4. Rest(N) = N /\ Rest(S) = S
  BY <1>2 DEF Rest
<1>5. Conversation(id, st, mine, other2, theirs, Rest(N), Rest(C), Rest(S), A, R, B)
  BY <1>1, <1>2, <1>3, <1>4, OtherIsClosed
<1> QED BY <1>3, <1>5, TalkOutPopped DEF N, C, S, A, R, B

LEMMA TalkOtherReceives ==
  ASSUME NEW id \in Ids, NEW st, NEW mine, NEW other, NEW theirs,
         NEW out \in Seq(AnyPacket), NEW back \in Seq(AnyPacket),
         Talk(id, st, mine, other, theirs, out, back),
         out # <<>>, Head(out).op = "send", Head(out).id = id
  PROVE  Talk(id, st, mine, other, theirs, Tail(out), back)
<1> DEFINE N == At(out, "new", id)
           C == At(out, "close", id)
           S == At(out, "send", id)
           A == At(back, "accept", id)
           R == At(back, "reject", id)
           B == Of(back, id)
<1>1. /\ N \in SUBSET Nat /\ C \in SUBSET Nat /\ S \in SUBSET Nat
      /\ A \in SUBSET Nat /\ R \in SUBSET Nat /\ B \in SUBSET Nat
      /\ A \subseteq B /\ R \subseteq B
      /\ Fits(N, C, S, A, R, B)
      /\ Positive(N) /\ Positive(C) /\ Positive(S)
  BY Places DEF Ops, Fits, Positive
<1>2. 1 \in S /\ 1 \notin N /\ 1 \notin C
  BY PlacesPopped DEF Ops
<1>3. Directed(id, out, back) /\ Conversation(id, st, mine, other, theirs, N, C, S, A, R, B)
  BY DEF Talk
<1> HIDE DEF N, C, S, A, R, B
<1>4. Rest(N) = N /\ Rest(C) = C
  BY <1>2 DEF Rest
<1>5. Conversation(id, st, mine, other, theirs, Rest(N), Rest(C), Rest(S), A, R, B)
  BY <1>1, <1>2, <1>3, <1>4, OtherReceives
<1> QED BY <1>3, <1>5, TalkOutPopped DEF N, C, S, A, R, B

\* The request arrives, and is answered.
LEMMA TalkAccepts ==
  ASSUME NEW id \in Ids, NEW st, NEW mine, NEW other, NEW theirs, NEW other2, NEW theirs2,
         NEW out \in Seq(AnyPacket), NEW back \in Seq(AnyPacket),
         Talk(id, st, mine, other, theirs, out, back),
         other2 # "unused", id \notin theirs2,
         out # <<>>, Head(out).op = "new", Head(out).id = id,
         NEW x \in AnyPacket, x.op = "accept", x.id = id
  PROVE  Talk(id, st, mine, other2, theirs2, Tail(out), Append(back, x))
<1> DEFINE N == At(out, "new", id)
           C == At(out, "close", id)
           S == At(out, "send", id)
           A == At(back, "accept", id)
           R == At(back, "reject", id)
           B == Of(back, id)
           n == Len(back) + 1
           d == Append(back, x)
<1>1. /\ N \in SUBSET Nat /\ C \in SUBSET Nat /\ S \in SUBSET Nat
      /\ A \in SUBSET Nat /\ R \in SUBSET Nat /\ B \in SUBSET Nat
      /\ A \subseteq B /\ R \subseteq B
      /\ Fits(N, C, S, A, R, B)
      /\ Positive(N) /\ Positive(C) /\ Positive(S)
      /\ n \in Nat
  BY Places, PlacesPushed DEF Ops, Fits, Positive
<1>2. 1 \in N /\ 1 \notin C /\ 1 \notin S
  BY PlacesPopped DEF Ops
<1>3. /\ At(d, "accept", id) = Plus(A, n) /\ At(d, "reject", id) = R
      /\ At(d, "send", id) = At(back, "send", id)
      /\ Of(d, id) = Plus(B, n)
  BY PlacesPushed DEF Ops
<1>4. Directed(id, out, back) /\ Conversation(id, st, mine, other, theirs, N, C, S, A, R, B)
  BY DEF Talk
<1>5. Directed(id, out, d)
  BY <1>3, <1>4 DEF Directed, Plus
<1>6. d \in Seq(AnyPacket)
  BY AppendProperties
<1> HIDE DEF N, C, S, A, R, B, n, d
<1>7. Rest(C) = C /\ Rest(S) = S
  BY <1>2 DEF Rest
<1>8. Conversation(id, st, mine, other2, theirs2, Rest(N), Rest(C), Rest(S), Plus(A, n), R, Plus(B, n))
  BY <1>1, <1>2, <1>4, <1>7, OtherAccepts
<1>9. Talk(id, st, mine, other2, theirs2, Tail(out), d)
  BY <1>3, <1>5, <1>6, <1>8, TalkOutPopped DEF N, C, S
<1> QED BY <1>9 DEF d

-----------------------------------------------------------------------------
(* The conversations of a state.                                           *)

Status(s, id) == table[s].array[id].status

TalkBetween(o, p, id) ==
  Talk(id, Status(o, id), closed[o], Status(p, id), closed[p], channel[o], channel[p])

Conversations ==
  \A s \in Side : \A id \in Ids : mySideConnectionId(s, id) => TalkBetween(s, Peer(s), id)

\* Only what the ids that are given up say of this one matters, and whether the
\* other side has a connection.
LEMMA TalkFlags ==
  ASSUME NEW id, NEW st, NEW mine, NEW other, NEW theirs, NEW out, NEW back,
         NEW mine2, NEW other2, NEW theirs2,
         Talk(id, st, mine, other, theirs, out, back),
         id \in mine2 <=> id \in mine,
         id \in theirs2 <=> id \in theirs,
         other2 = "unused" <=> other = "unused"
  PROVE  Talk(id, st, mine2, other2, theirs2, out, back)
<1> DEFINE N == At(out, "new", id)
           C == At(out, "close", id)
           S == At(out, "send", id)
           A == At(back, "accept", id)
           R == At(back, "reject", id)
           B == Of(back, id)
<1>1. Directed(id, out, back) /\ Conversation(id, st, mine, other, theirs, N, C, S, A, R, B)
  BY DEF Talk
<1> HIDE DEF N, C, S, A, R, B
<1>2. Conversation(id, st, mine2, other2, theirs2, N, C, S, A, R, B)
  BY <1>1 DEF Conversation, Requested, OnConnection, Usable, Given, Refusals, Acceptances, GivenUp
<1> QED BY <1>1, <1>2 DEF Talk, N, C, S, A, R, B

\* A step that is about id i only.
StepAbout(i) ==
  \A r \in Side : \A id \in Ids : id # i =>
    /\ SameOf(id, channel[r], channel'[r])
    /\ Status(r, id)' = Status(r, id)
    /\ id \in closed'[r] <=> id \in closed[r]

LEMMA ConversationsKept ==
  ASSUME TablesInv, TablesInv', Conversations, NEW i \in Ids, StepAbout(i),
         \A s \in Side : mySideConnectionId(s, i) => TalkBetween(s, Peer(s), i)'
  PROVE  Conversations'
<1> SUFFICES ASSUME NEW o \in Side, NEW id \in Ids, mySideConnectionId(o, id)
             PROVE  TalkBetween(o, Peer(o), id)'
  BY DEF Conversations
<1> DEFINE p == Peer(o)
<1>1. p \in Side /\ TalkBetween(o, p, id)
  BY Sides DEF Conversations
<1> HIDE DEF p
<1>2. CASE id # i
  <2>1. /\ SameOf(id, channel[o], channel'[o]) /\ SameOf(id, channel[p], channel'[p])
        /\ Status(o, id)' = Status(o, id) /\ Status(p, id)' = Status(p, id)
        /\ id \in closed'[o] <=> id \in closed[o]
        /\ id \in closed'[p] <=> id \in closed[p]
    BY <1>1, <1>2 DEF StepAbout
  <2>2. /\ channel[o] \in Seq(AnyPacket) /\ channel[p] \in Seq(AnyPacket)
        /\ channel'[o] \in Seq(AnyPacket) /\ channel'[p] \in Seq(AnyPacket)
    BY <1>1 DEF TablesInv
  <2>3. Talk(id, Status(o, id), closed[o], Status(p, id), closed[p], channel'[o], channel'[p])
    BY <1>1, <2>1, <2>2, TalkSame DEF TalkBetween
  <2>4. Talk(id, Status(o, id)', closed'[o], Status(p, id)', closed'[p], channel'[o], channel'[p])
    BY <2>1, <2>3, TalkFlags
  <2> QED BY <2>4 DEF TalkBetween, p
<1>3. CASE id = i
  BY <1>3 DEF p
<1> QED BY <1>2, <1>3

\* The channel of a side gains packets about i, or loses one.
LEMMA SamePackets ==
  ASSUME TablesInv, NEW r \in Side, NEW i \in Ids, NEW id \in Ids, id # i,
         \/ channel'[r] = channel[r]
         \/ \E x \in AnyPacket : x.id = i /\ channel'[r] = Append(channel[r], x)
         \/ /\ channel[r] # <<>> /\ Head(channel[r]).id = i
            /\ channel'[r] = Tail(channel[r])
  PROVE  SameOf(id, channel[r], channel'[r])
<1>1. channel[r] \in Seq(AnyPacket)
  BY DEF TablesInv
<1>2. /\ SameOf(id, channel[r], channel[r])
      /\ \A x \in AnyPacket : x.id # id => SameOf(id, channel[r], Append(channel[r], x))
      /\ channel[r] # <<>> /\ Head(channel[r]).id # id => SameOf(id, channel[r], Tail(channel[r]))
  BY <1>1, SameOfOthers
<1>3. CASE channel'[r] = channel[r]
  BY <1>2, <1>3
<1>4. CASE \E x \in AnyPacket : x.id = i /\ channel'[r] = Append(channel[r], x)
  BY <1>2, <1>4
<1>5. CASE /\ channel[r] # <<>> /\ Head(channel[r]).id = i
           /\ channel'[r] = Tail(channel[r])
  BY <1>2, <1>5
<1> QED BY <1>3, <1>4, <1>5

-----------------------------------------------------------------------------
(* The control connection.                                                 *)

\* A side that has a control connection is not asked for another on the same id,
\* unless it has refused the first.
ControlSettled(s, id) ==
  table[Peer(s)].control # 0 =>
    \/ id \in closed[Peer(s)]
    \/ Status(s, id) # "unused" /\ At(channel[s], "new", id) = {}

ControlOnce ==
  \A s \in Side : \A id \in {1, 2} : mySideConnectionId(s, id) => ControlSettled(s, id)

LEMMA NoRequest ==
  ASSUME NEW c \in Seq(AnyPacket), NEW id \in Ids, At(c, "new", id) = {}
  PROVE  /\ \A d : SameOf(id, c, d) => At(d, "new", id) = {}
         /\ c # <<>> => At(Tail(c), "new", id) = {}
         /\ \A x \in AnyPacket : x.op # "new" => At(Append(c, x), "new", id) = {}
         /\ \A f \in Seq(AnyPacket) : Sends(f, id) => At(c \o f, "new", id) = {}
<1>1. \A d : SameOf(id, c, d) => At(d, "new", id) = {}
  BY DEF SameOf, Shifted, Ops
<1>2. ASSUME c # <<>> PROVE At(Tail(c), "new", id) = {}
  <2>1. Shifted(1, Rest(At(c, "new", id)), At(Tail(c), "new", id))
    BY <1>2, PlacesPopped DEF Ops
  <2> QED BY <2>1 DEF Shifted, Rest
<1>3. ASSUME NEW x \in AnyPacket, x.op # "new" PROVE At(Append(c, x), "new", id) = {}
  BY <1>3, PlacesPushed DEF Ops
<1>4. ASSUME NEW f \in Seq(AnyPacket), Sends(f, id) PROVE At(c \o f, "new", id) = {}
  BY <1>4, PlacesSent DEF Ops
<1> QED BY <1>1, <1>2, <1>3, <1>4

\* A step about i sets the control connection of the other side at most.
ControlOnlyBy(i) ==
  \A q \in Side : table'[q].control = table[q].control \/ (i \in {1, 2} /\ i % 2 = Peer(q))

SettledFor(i) ==
  \A q \in Side : mySideConnectionId(q, i) /\ i \in {1, 2} => ControlSettled(q, i)

LEMMA ControlKept ==
  ASSUME TablesInv, TablesInv', ControlOnce, NEW i \in Ids, StepAbout(i),
         ControlOnlyBy(i), SettledFor(i)'
  PROVE  ControlOnce'
<1> SUFFICES ASSUME NEW s \in Side, NEW id \in {1, 2}, mySideConnectionId(s, id), id # i
             PROVE  ControlSettled(s, id)'
  BY DEF ControlOnce, SettledFor
<1> DEFINE p == Peer(s)
<1>1. p \in Side /\ Peer(p) = s /\ p # s /\ id \in Ids
  BY Sides, IdFacts
<1>2. table'[p].control = table[p].control
  <2>1. i \in {1, 2} => i % 2 # s
    BY DEF mySideConnectionId, Side
  <2> QED BY <1>1, <2>1 DEF ControlOnlyBy
<1>3. ControlSettled(s, id)
  BY DEF ControlOnce
<1>4. /\ SameOf(id, channel[s], channel'[s]) /\ Status(s, id)' = Status(s, id)
      /\ id \in closed'[p] <=> id \in closed[p]
  BY <1>1 DEF StepAbout
<1>5. At(channel[s], "new", id) = {} => At(channel'[s], "new", id) = {}
  <2>1. channel[s] \in Seq(AnyPacket)
    BY DEF TablesInv
  <2> QED BY <1>1, <1>4, <2>1, NoRequest
<1> QED BY <1>2, <1>3, <1>4, <1>5 DEF ControlSettled

-----------------------------------------------------------------------------
(* Each action keeps the conversations and the control connection.         *)

LEMMA ConversationsNew ==
  ASSUME TablesInv, Conversations, ControlOnce, NEW s \in Side, NewConnection(s)
  PROVE  Conversations' /\ ControlOnce'
<1> DEFINE r == Peer(s)
<1>1. PICK id \in Ids :
        /\ id % 2 = s /\ ~Live(table[s], id)
        /\ table'[s].array[id] = Connection("initiated")
        /\ \A i \in Ids : i # id => (Live(table'[s], i) <=> Live(table[s], i))
        /\ \A i \in Ids : Live(table[s], i) => table'[s].array[i] = table[s].array[i]
        /\ channel'[s] = Append(channel[s], Control("new", id))
        /\ closed'[s] = closed[s] \ {id} /\ table'[s].control = table[s].control
        /\ table'[r] = table[r] /\ channel'[r] = channel[r] /\ closed'[r] = closed[r]
        /\ TablesInv'
  BY NewConnectionEffect
<1>2. r \in Side /\ \A q \in Side : q = s \/ q = r
  BY Sides
<1>3. /\ Control("new", id) \in AnyPacket /\ Control("new", id).op = "new"
      /\ Control("new", id).id = id
  BY ControlFacts
<1> DEFINE x == Control("new", id)
<1> HIDE DEF r, x
<1>4. StepAbout(id)
  <2> SUFFICES ASSUME NEW q \in Side, NEW i \in Ids, i # id
               PROVE  /\ SameOf(i, channel[q], channel'[q])
                      /\ Status(q, i)' = Status(q, i)
                      /\ i \in closed'[q] <=> i \in closed[q]
    BY DEF StepAbout
  <2>1. SameOf(i, channel[q], channel'[q])
    BY <1>1, <1>2, <1>3, SamePackets
  <2>2. Status(q, i)' = Status(q, i)
    BY <1>1, <1>2 DEF Status, Live
  <2>3. i \in closed'[q] <=> i \in closed[q]
    BY <1>1, <1>2
  <2> QED BY <2>1, <2>2, <2>3
<1>5. Status(s, id) = "unused" /\ Status(s, id)' = "initiated" /\ Status(r, id)' = Status(r, id)
  BY <1>1, EntryTypes DEF Status, Live
<1>6. Talk(id, Status(s, id), closed[s], Status(r, id), closed[r], channel[s], channel[r])
  BY <1>1 DEF Conversations, TalkBetween, r, mySideConnectionId
<1>7. id \notin closed'[s] /\ channel[s] \in Seq(AnyPacket) /\ channel[r] \in Seq(AnyPacket)
  BY <1>1, <1>2 DEF TablesInv
<1>8. Talk(id, "initiated", closed'[s], Status(r, id), closed[r], Append(channel[s], x), channel[r])
  BY <1>3, <1>5, <1>6, <1>7, TalkOpens DEF x
<1>9. TalkBetween(s, r, id)'
  BY <1>1, <1>5, <1>8 DEF TalkBetween, x
<1>10. \A q \in Side : mySideConnectionId(q, id) => TalkBetween(q, Peer(q), id)'
  BY <1>1, <1>9 DEF mySideConnectionId, r
<1>11. \A q \in Side : mySideConnectionId(q, id) /\ id \in {1, 2} => ControlSettled(q, id)'
  <2> SUFFICES ASSUME id \in {1, 2} PROVE ControlSettled(s, id)'
    BY <1>1 DEF mySideConnectionId
  <2>1. ControlSettled(s, id)
    BY <1>1 DEF ControlOnce, mySideConnectionId
  <2> QED BY <1>1, <1>5, <2>1 DEF ControlSettled, r
<1>12. Conversations'
  BY <1>1, <1>4, <1>10, ConversationsKept
<1>13. SettledFor(id)' /\ ControlOnlyBy(id)
  BY <1>1, <1>2, <1>4, <1>11 DEF SettledFor, ControlOnlyBy
<1>14. ControlOnce'
  BY <1>1, <1>2, <1>4, <1>13, ControlKept
<1> QED BY <1>12, <1>14

LEMMA FragmentsSend ==
  ASSUME NEW id \in Ids, NEW message \in Nat \ {0}, NEW length \in Nat \ {0}
  PROVE  /\ Fragments(id, message, length) \in Seq(AnyPacket)
         /\ Sends(Fragments(id, message, length), id)
<1> DEFINE f == Fragments(id, message, length)
<1>1. f \in Seq(AnyPacket) /\ \A k \in 1..Len(f) : f[k].op = "send" /\ f[k].id = id
  BY FragmentsFacts
<1> HIDE DEF f
<1>2. Sends(f, id)
  BY <1>1 DEF Sends
<1> QED BY <1>1, <1>2 DEF f

LEMMA ConversationsCall ==
  ASSUME TablesInv, Conversations, ControlOnce, NEW s \in Side, NEW id \in Ids, Call(s, id)
  PROVE  Conversations' /\ ControlOnce'
<1> DEFINE r == Peer(s)
           message == Len(calls[s]) + 1
           length == Lengths[message]
           f == Fragments(id, message, length)
<1>1. /\ Live(table[s], id) /\ id \notin closed[s]
      /\ f \in Seq(AnyPacket) /\ Sends(f, id)
      /\ channel'[s] = channel[s] \o f
      /\ channel'[r] = channel[r] /\ table' = table /\ closed' = closed
      /\ TablesInv'
  BY CallEffect, FragmentsSend
<1>2. r \in Side /\ \A q \in Side : q = s \/ q = r
  BY Sides
<1>3. channel[s] \in Seq(AnyPacket) /\ channel[r] \in Seq(AnyPacket)
  BY <1>2 DEF TablesInv
<1> HIDE DEF f
<1>4. StepAbout(id)
  <2> SUFFICES ASSUME NEW q \in Side, NEW i \in Ids, i # id
               PROVE  SameOf(i, channel[q], channel'[q])
    BY <1>1 DEF StepAbout, Status
  <2>1. SameOf(i, channel[s], channel[s] \o f)
    BY <1>1, <1>3, SameOfSent
  <2>2. SameOf(i, channel[r], channel[r])
    BY <1>3, SameOfOthers
  <2> QED BY <1>1, <1>2, <2>1, <2>2
<1>5. ASSUME mySideConnectionId(s, id) PROVE TalkBetween(s, r, id)'
  <2>1. Talk(id, Status(s, id), closed[s], Status(r, id), closed[r], channel[s], channel[r])
    BY <1>5 DEF Conversations, TalkBetween
  <2>2. Talk(id, Status(s, id), closed[s], Status(r, id), closed[r], channel[s] \o f, channel[r])
    BY <1>1, <1>3, <2>1, TalkSends DEF Live, Status
  <2> QED BY <1>1, <2>2 DEF TalkBetween, Status
<1>6. ASSUME mySideConnectionId(r, id) PROVE TalkBetween(r, s, id)'
  <2>1. Talk(id, Status(r, id), closed[r], Status(s, id), closed[s], channel[r], channel[s])
    BY <1>2, <1>6, Sides DEF Conversations, TalkBetween
  <2>2. Talk(id, Status(r, id), closed[r], Status(s, id), closed[s], channel[r], channel[s] \o f)
    BY <1>1, <1>3, <2>1, TalkAnswers DEF Live, Status
  <2> QED BY <1>1, <2>2 DEF TalkBetween, Status
<1>7. \A q \in Side : mySideConnectionId(q, id) => TalkBetween(q, Peer(q), id)'
  BY <1>2, <1>5, <1>6, Sides
<1>8. ASSUME NEW q \in Side, mySideConnectionId(q, id), id \in {1, 2} PROVE ControlSettled(q, id)'
  <2>1. ControlSettled(q, id) /\ channel[q] \in Seq(AnyPacket)
    BY <1>8 DEF ControlOnce, TablesInv
  <2>2. channel'[q] = channel[q] \/ channel'[q] = channel[q] \o f
    BY <1>1, <1>2
  <2>3. At(channel[q], "new", id) = {} => At(channel'[q], "new", id) = {}
    BY <1>1, <2>1, <2>2, NoRequest
  <2> QED BY <1>1, <2>1, <2>3 DEF ControlSettled, Status
<1>9. Conversations'
  BY <1>1, <1>4, <1>7, ConversationsKept
<1>10. SettledFor(id)' /\ ControlOnlyBy(id)
  BY <1>1, <1>4, <1>8 DEF SettledFor, ControlOnlyBy
<1>11. ControlOnce'
  BY <1>1, <1>4, <1>10, ControlKept
<1> QED BY <1>9, <1>11

LEMMA ConversationsGiveUp ==
  ASSUME TablesInv, Conversations, ControlOnce, NEW s \in Side, NEW id \in Ids, NEW op \in {"close", "reject"},
         \/ op = "close" /\ Close(s, id)
         \/ op = "reject" /\ Reject(s, id)
  PROVE  Conversations' /\ ControlOnce'
<1> DEFINE r == Peer(s)
           x == Control(op, id)
<1>1. /\ Live(table[s], id) /\ id \notin closed[s]
      /\ op = "close" <=> id % 2 = s
      /\ closed'[s] = closed[s] \cup {id}
      /\ channel'[s] = Append(channel[s], x)
      /\ closed'[r] = closed[r] /\ channel'[r] = channel[r]
      /\ table' = table /\ TablesInv'
  BY GiveUpEffect
<1>2. r \in Side /\ \A q \in Side : q = s \/ q = r
  BY Sides
<1>3. channel[s] \in Seq(AnyPacket) /\ channel[r] \in Seq(AnyPacket) /\ id \in closed'[s]
  BY <1>1, <1>2 DEF TablesInv
<1>4. x \in AnyPacket /\ x.op = op /\ x.id = id
  BY ControlFacts
<1> HIDE DEF x, r
<1>5. StepAbout(id)
  <2> SUFFICES ASSUME NEW q \in Side, NEW i \in Ids, i # id
               PROVE  /\ SameOf(i, channel[q], channel'[q])
                      /\ i \in closed'[q] <=> i \in closed[q]
    BY <1>1 DEF StepAbout, Status
  <2>1. SameOf(i, channel[q], channel'[q])
    BY <1>1, <1>2, <1>4, SamePackets
  <2>2. i \in closed'[q] <=> i \in closed[q]
    BY <1>1, <1>2
  <2> QED BY <2>1, <2>2
<1>6. ASSUME id % 2 = s PROVE TalkBetween(s, r, id)'
  <2>1. Talk(id, Status(s, id), closed[s], Status(r, id), closed[r], channel[s], channel[r])
    BY <1>6 DEF Conversations, TalkBetween, mySideConnectionId, r
  <2>2. x.op = "close"
    BY <1>1, <1>4, <1>6
  <2>3. Talk(id, Status(s, id), closed'[s], Status(r, id), closed[r], Append(channel[s], x), channel[r])
    BY <1>1, <1>3, <1>4, <2>1, <2>2, TalkCloses DEF Live, Status
  <2> QED BY <1>1, <2>3 DEF TalkBetween, Status
<1>7. ASSUME id % 2 = r PROVE TalkBetween(r, s, id)'
  <2>1. Talk(id, Status(r, id), closed[r], Status(s, id), closed[s], channel[r], channel[s])
    BY <1>2, <1>7, Sides DEF Conversations, TalkBetween, mySideConnectionId, r
  <2>2. x.op = "reject"
    BY <1>1, <1>4, <1>7, Sides DEF r
  <2>3. Talk(id, Status(r, id), closed[r], Status(s, id), closed'[s], channel[r], Append(channel[s], x))
    BY <1>1, <1>3, <1>4, <2>1, <2>2, TalkRefuses DEF Live, Status
  <2> QED BY <1>1, <2>3 DEF TalkBetween, Status
<1>8. \A q \in Side : mySideConnectionId(q, id) => TalkBetween(q, Peer(q), id)'
  BY <1>2, <1>6, <1>7, Sides DEF mySideConnectionId, r
<1>9. ASSUME NEW q \in Side, mySideConnectionId(q, id), id \in {1, 2} PROVE ControlSettled(q, id)'
  <2>1. ControlSettled(q, id) /\ channel[q] \in Seq(AnyPacket) /\ Peer(q) \in Side
    BY <1>9, Sides DEF ControlOnce, TablesInv
  <2>2. channel'[q] = channel[q] \/ channel'[q] = Append(channel[q], x)
    BY <1>1, <1>2
  <2>3. At(channel[q], "new", id) = {} => At(channel'[q], "new", id) = {}
    BY <1>4, <2>1, <2>2, NoRequest
  <2>4. id \in closed[Peer(q)] => id \in closed'[Peer(q)]
    BY <1>1, <1>2, <2>1
  <2> QED BY <1>1, <2>1, <2>3, <2>4 DEF ControlSettled, Status
<1>10. Conversations'
  BY <1>1, <1>5, <1>8, ConversationsKept
<1>11. SettledFor(id)' /\ ControlOnlyBy(id)
  BY <1>1, <1>5, <1>9 DEF SettledFor, ControlOnlyBy
<1>12. ControlOnce'
  BY <1>1, <1>5, <1>11, ControlKept
<1> QED BY <1>10, <1>12

LEMMA AnsweredOnce ==
  ASSUME NEW id, NEW st, NEW mine, NEW other, NEW theirs, NEW out, NEW back, NEW x,
         id \in Ids, back \in Seq(AnyPacket), x \in AnyPacket, x.id = id,
         Talk(id, st, mine, other, theirs, out, Append(back, x))
  PROVE  st # "unused" /\ At(out, "new", id) = {}
<1>1. Of(Append(back, x), id) = Plus(Of(back, id), Len(back) + 1)
  BY PlacesPushed
<1>2. Len(back) + 1 \in Of(Append(back, x), id)
  BY <1>1 DEF Plus
<1> QED BY <1>2 DEF Talk, Conversation, Requested, Given

LEMMA ConversationsProcessNew ==
  ASSUME TablesInv, Conversations, ControlOnce, NEW s \in Side, ProcessNew(s)
  PROVE  Conversations' /\ ControlOnce'
<1> DEFINE r == Peer(s)
<1>0. PICK id : id = Head(channel[r]).id
  OBVIOUS
<1> DEFINE x == Control("accept", id)
<1>1. /\ Arrives(s, "new") /\ id % 2 = r /\ ~Live(table[s], id)
      /\ table'[s].array[id] = Connection("established")
      /\ \A i \in Ids : i # id => (Live(table'[s], i) <=> Live(table[s], i))
      /\ \A i \in Ids : Live(table[s], i) => table'[s].array[i] = table[s].array[i]
      /\ table'[s].control = IF id \in {1, 2} THEN id ELSE table[s].control
      /\ channel'[r] = Tail(channel[r])
      /\ channel'[s] = Append(channel[s], x)
      /\ closed'[s] = closed[s] \ {id}
      /\ table'[r] = table[r] /\ closed'[r] = closed[r]
      /\ TablesInv'
  BY <1>0, ProcessNewEffect
<1>2. r \in Side /\ Peer(r) = s /\ \A q \in Side : q = s \/ q = r
  BY Sides
<1>3. /\ channel[r] # <<>> /\ Head(channel[r]).op = "new" /\ id \in Ids
  BY <1>0, <1>1, ArrivesFacts
<1>4. /\ channel[s] \in Seq(AnyPacket) /\ channel[r] \in Seq(AnyPacket)
  BY <1>2 DEF TablesInv
<1>5. x \in AnyPacket /\ x.op = "accept" /\ x.id = id
  BY <1>3, ControlFacts
<1>6. Head(channel[r]).id = id
  BY <1>0
<1> HIDE DEF x, r
<1>7. StepAbout(id)
  <2> SUFFICES ASSUME NEW q \in Side, NEW i \in Ids, i # id
               PROVE  /\ SameOf(i, channel[q], channel'[q])
                      /\ Status(q, i)' = Status(q, i)
                      /\ i \in closed'[q] <=> i \in closed[q]
    BY DEF StepAbout
  <2>1. SameOf(i, channel[q], channel'[q])
    BY <1>1, <1>2, <1>3, <1>5, <1>6, SamePackets
  <2>2. Status(q, i)' = Status(q, i)
    BY <1>1, <1>2 DEF Status, Live
  <2>3. i \in closed'[q] <=> i \in closed[q]
    BY <1>1, <1>2
  <2> QED BY <2>1, <2>2, <2>3
<1>8. Status(s, id)' # "unused" /\ Status(r, id)' = Status(r, id) /\ id \notin closed'[s]
  BY <1>1, EntryTypes DEF Status
<1>9. Talk(id, Status(r, id), closed[r], Status(s, id), closed[s], channel[r], channel[s])
  BY <1>1, <1>2, <1>3 DEF Conversations, TalkBetween, mySideConnectionId
<1>10. Talk(id, Status(r, id), closed[r], Status(s, id)', closed'[s],
            Tail(channel[r]), Append(channel[s], x))
  BY <1>3, <1>4, <1>5, <1>6, <1>8, <1>9, TalkAccepts
<1>11. TalkBetween(r, s, id)'
  BY <1>1, <1>8, <1>10 DEF TalkBetween
<1>12. \A q \in Side : mySideConnectionId(q, id) => TalkBetween(q, Peer(q), id)'
  BY <1>1, <1>2, <1>11 DEF mySideConnectionId
<1>13. Status(r, id) # "unused" /\ At(Tail(channel[r]), "new", id) = {}
  BY <1>3, <1>4, <1>5, <1>10, AnsweredOnce
<1>14. \A q \in Side : mySideConnectionId(q, id) /\ id \in {1, 2} => ControlSettled(q, id)'
  BY <1>1, <1>8, <1>13 DEF ControlSettled, mySideConnectionId
<1>15. ControlOnlyBy(id)
  <2>1. \A q \in Side : id % 2 = r => q = r \/ id % 2 = Peer(q)
    BY <1>2, Sides
  <2> QED BY <1>1, <1>2, <2>1 DEF ControlOnlyBy
<1>16. Conversations'
  BY <1>1, <1>3, <1>7, <1>12, ConversationsKept
<1>17. SettledFor(id)'
  BY <1>14 DEF SettledFor
<1>18. ControlOnce'
  BY <1>1, <1>3, <1>7, <1>15, <1>17, ControlKept
<1> QED BY <1>16, <1>18

LEMMA ConversationsProcessAccept ==
  ASSUME TablesInv, Conversations, ControlOnce, NEW s \in Side, ProcessAccept(s)
  PROVE  Conversations' /\ ControlOnce'
<1> DEFINE r == Peer(s)
<1>0. PICK id : id = Head(channel[r]).id
  OBVIOUS
<1>1. /\ Arrives(s, "accept") /\ id % 2 = s
      /\ table'[s].array[id].status = "established"
      /\ \A i \in Ids : i # id => table'[s].array[i] = table[s].array[i]
      /\ channel'[r] = Tail(channel[r]) /\ channel'[s] = channel[s]
      /\ table'[r] = table[r] /\ table'[s].control = table[s].control /\ closed' = closed
      /\ TablesInv'
  BY <1>0, ProcessAcceptEffect
<1>2. r \in Side /\ \A q \in Side : q = s \/ q = r
  BY Sides
<1>3. channel[r] # <<>> /\ Head(channel[r]).op = "accept" /\ id \in Ids
  BY <1>0, <1>1, ArrivesFacts
<1>4. channel[s] \in Seq(AnyPacket) /\ channel[r] \in Seq(AnyPacket)
  BY <1>2 DEF TablesInv
<1>5. Head(channel[r]).id = id
  BY <1>0
<1> HIDE DEF r
<1>6. StepAbout(id)
  <2> SUFFICES ASSUME NEW q \in Side, NEW i \in Ids, i # id
               PROVE  SameOf(i, channel[q], channel'[q]) /\ Status(q, i)' = Status(q, i)
    BY <1>1 DEF StepAbout
  <2>1. SameOf(i, channel[q], channel'[q])
    BY <1>1, <1>2, <1>3, <1>5, SamePackets
  <2>2. Status(q, i)' = Status(q, i)
    BY <1>1, <1>2 DEF Status
  <2> QED BY <2>1, <2>2
<1>7. Talk(id, Status(s, id), closed[s], Status(r, id), closed[r], channel[s], channel[r])
  BY <1>1, <1>3 DEF Conversations, TalkBetween, mySideConnectionId, r
<1>8. Talk(id, "established", closed[s], Status(r, id), closed[r], channel[s], Tail(channel[r]))
  BY <1>3, <1>4, <1>5, <1>7, TalkIsAccepted
<1>9. Status(s, id)' = "established" /\ Status(r, id)' = Status(r, id)
  BY <1>1 DEF Status
<1>10. TalkBetween(s, r, id)'
  BY <1>1, <1>8, <1>9 DEF TalkBetween
<1>11. \A q \in Side : mySideConnectionId(q, id) => TalkBetween(q, Peer(q), id)'
  BY <1>1, <1>10 DEF mySideConnectionId, r
<1>12. ASSUME id \in {1, 2} PROVE ControlSettled(s, id)'
  <2>1. ControlSettled(s, id)
    BY <1>1, <1>12 DEF ControlOnce, mySideConnectionId
  <2>2. Status(s, id) # "unused" => Status(s, id)' # "unused"
    BY <1>9
  <2> QED BY <1>1, <2>1, <2>2 DEF ControlSettled, r
<1>13. \A q \in Side : mySideConnectionId(q, id) /\ id \in {1, 2} => ControlSettled(q, id)'
  BY <1>1, <1>12 DEF mySideConnectionId
<1>14. Conversations'
  BY <1>1, <1>3, <1>6, <1>11, ConversationsKept
<1>15. SettledFor(id)' /\ ControlOnlyBy(id)
  BY <1>1, <1>2, <1>3, <1>6, <1>13 DEF SettledFor, ControlOnlyBy
<1>16. ControlOnce'
  BY <1>1, <1>2, <1>3, <1>6, <1>15, ControlKept
<1> QED BY <1>14, <1>16

\* A refusal is about an id of the receiver, a close about one of the sender.
LEMMA HeadDirection ==
  ASSUME TablesInv, Conversations, NEW s \in Side, channel[Peer(s)] # <<>>
  PROVE  LET p == Head(channel[Peer(s)]) IN
           /\ p.op \in {"accept", "reject"} => p.id % 2 = s
           /\ p.op \in {"new", "close"} => p.id % 2 = Peer(s)
<1> DEFINE r == Peer(s)
           c == channel[r]
           id == Head(c).id
<1>1. r \in Side /\ Peer(r) = s
  BY Sides
<1>2. c \in Seq(AnyPacket) /\ Head(c) = c[1] /\ 1 \in 1..Len(c) /\ c[1] \in AnyPacket
  BY <1>1, EmptySeq DEF TablesInv
<1>3. id \in Ids /\ 1 \in Of(c, id)
  BY <1>2, PacketFacts DEF Of
<1>4. id % 2 = s \/ id % 2 = r
  BY <1>3, IdFacts DEF Side, Peer
<1> HIDE DEF id
<1>5. CASE id % 2 = s
  <2>1. Directed(id, channel[s], c)
    BY <1>3, <1>5 DEF Conversations, TalkBetween, Talk, mySideConnectionId
  <2>2. Head(c).op \in {"accept", "reject", "send"}
    BY <1>2, <1>3, <2>1 DEF Directed, At
  <2> QED BY <1>5, <2>2 DEF id
<1>6. CASE id % 2 = r
  <2>1. Directed(id, c, channel[s])
    BY <1>1, <1>3, <1>6 DEF Conversations, TalkBetween, Talk, mySideConnectionId
  <2>2. Head(c).op \in {"new", "close", "send"}
    BY <1>2, <1>3, <2>1 DEF Directed, At
  <2> QED BY <1>6, <2>2 DEF id
<1> QED BY <1>4, <1>5, <1>6

LEMMA ConversationsProcessRelease ==
  ASSUME TablesInv, Conversations, ControlOnce, NEW s \in Side, ProcessRelease(s)
  PROVE  Conversations' /\ ControlOnce'
<1> DEFINE r == Peer(s)
<1>0. PICK id : id = Head(channel[r]).id
  OBVIOUS
<1>1. /\ Arrives(s, "reject") \/ Arrives(s, "close")
      /\ table'[s].array[id].status = "unused"
      /\ \A i \in Ids : i # id => table'[s].array[i] = table[s].array[i]
      /\ channel'[r] = Tail(channel[r]) /\ channel'[s] = channel[s]
      /\ table'[r] = table[r] /\ table'[s].control = table[s].control /\ closed' = closed
      /\ TablesInv'
  BY <1>0, ProcessReleaseEffect
<1>2. r \in Side /\ Peer(r) = s /\ \A q \in Side : q = s \/ q = r
  BY Sides
<1>3. channel[r] # <<>> /\ id \in Ids /\ Head(channel[r]).op \in {"reject", "close"}
  BY <1>0, <1>1, ArrivesFacts
<1>4. channel[s] \in Seq(AnyPacket) /\ channel[r] \in Seq(AnyPacket)
  BY <1>2 DEF TablesInv
<1>5. Head(channel[r]).id = id
  BY <1>0
<1>6. /\ Head(channel[r]).op = "reject" => id % 2 = s
      /\ Head(channel[r]).op = "close" => id % 2 = r
  BY <1>0, <1>3, HeadDirection
<1>7. StepAbout(id)
  <2> SUFFICES ASSUME NEW q \in Side, NEW i \in Ids, i # id
               PROVE  SameOf(i, channel[q], channel'[q]) /\ Status(q, i)' = Status(q, i)
    BY <1>1 DEF StepAbout
  <2>1. SameOf(i, channel[q], channel'[q])
    BY <1>1, <1>2, <1>3, <1>5, SamePackets
  <2>2. Status(q, i)' = Status(q, i)
    BY <1>1, <1>2 DEF Status
  <2> QED BY <2>1, <2>2
<1>8. Status(s, id)' = "unused" /\ Status(r, id)' = Status(r, id)
  BY <1>1 DEF Status
<1>9. ASSUME Head(channel[r]).op = "reject"
      PROVE  id % 2 = s /\ TalkBetween(s, r, id)'
  <2>1. Talk(id, Status(s, id), closed[s], Status(r, id), closed[r], channel[s], channel[r])
    BY <1>3, <1>6, <1>9 DEF Conversations, TalkBetween, mySideConnectionId
  <2>2. Talk(id, "unused", closed[s], Status(r, id), closed[r], channel[s], Tail(channel[r]))
    BY <1>3, <1>4, <1>5, <1>9, <2>1, TalkIsRefused
  <2> QED BY <1>1, <1>6, <1>8, <1>9, <2>2 DEF TalkBetween
<1>10. ASSUME Head(channel[r]).op = "close"
       PROVE  id % 2 = r /\ TalkBetween(r, s, id)'
  <2>1. Talk(id, Status(r, id), closed[r], Status(s, id), closed[s], channel[r], channel[s])
    BY <1>2, <1>3, <1>6, <1>10 DEF Conversations, TalkBetween, mySideConnectionId
  <2>2. Talk(id, Status(r, id), closed[r], Status(s, id)', closed[s], Tail(channel[r]), channel[s])
    BY <1>3, <1>4, <1>5, <1>8, <1>10, <2>1, TalkIsClosed
  <2> QED BY <1>1, <1>6, <1>8, <1>10, <2>2 DEF TalkBetween
<1>11. \A q \in Side : mySideConnectionId(q, id) => TalkBetween(q, Peer(q), id)'
  BY <1>2, <1>3, <1>9, <1>10 DEF mySideConnectionId
<1>12. ASSUME Head(channel[r]).op = "reject" PROVE id \in closed[r]
  <2>1. Talk(id, Status(s, id), closed[s], Status(r, id), closed[r], channel[s], channel[r])
    BY <1>3, <1>6, <1>12 DEF Conversations, TalkBetween, mySideConnectionId
  <2>2. 1 \in At(channel[r], "reject", id)
    BY <1>3, <1>4, <1>5, <1>12, PlacesPopped DEF Ops
  <2> QED BY <2>1, <2>2 DEF Talk, Conversation, Refusals
<1>13. ASSUME id \in {1, 2}, Head(channel[r]).op = "close" PROVE ControlSettled(r, id)'
  <2>1. ControlSettled(r, id)
    BY <1>2, <1>6, <1>13 DEF ControlOnce, mySideConnectionId
  <2>2. At(channel[r], "new", id) = {} => At(channel'[r], "new", id) = {}
    BY <1>1, <1>3, <1>4, NoRequest
  <2> QED BY <1>1, <1>2, <1>8, <2>1, <2>2 DEF ControlSettled
<1>14. \A q \in Side : mySideConnectionId(q, id) /\ id \in {1, 2} => ControlSettled(q, id)'
  BY <1>1, <1>3, <1>6, <1>12, <1>13 DEF mySideConnectionId, ControlSettled
<1>15. Conversations'
  BY <1>1, <1>3, <1>7, <1>11, ConversationsKept
<1>16. SettledFor(id)' /\ ControlOnlyBy(id)
  BY <1>1, <1>2, <1>3, <1>7, <1>14 DEF SettledFor, ControlOnlyBy
<1>17. ControlOnce'
  BY <1>1, <1>2, <1>3, <1>7, <1>16, ControlKept
<1> QED BY <1>15, <1>17

LEMMA ConversationsProcessSend ==
  ASSUME TablesInv, Conversations, ControlOnce, NEW s \in Side, ProcessSend(s)
  PROVE  Conversations' /\ ControlOnce'
<1> DEFINE r == Peer(s)
<1>0. PICK id : id = Head(channel[r]).id
  OBVIOUS
<1>1. /\ Arrives(s, "send")
      /\ table'[s].array[id].status = table[s].array[id].status
      /\ \A i \in Ids : i # id => table'[s].array[i] = table[s].array[i]
      /\ channel'[r] = Tail(channel[r]) /\ channel'[s] = channel[s]
      /\ table'[r] = table[r] /\ table'[s].control = table[s].control /\ closed' = closed
      /\ TablesInv'
  BY <1>0, ProcessSendEffect
<1>2. r \in Side /\ Peer(r) = s /\ \A q \in Side : q = s \/ q = r
  BY Sides
<1>3. channel[r] # <<>> /\ Head(channel[r]).op = "send" /\ id \in Ids
  BY <1>0, <1>1, ArrivesFacts
<1>4. channel[s] \in Seq(AnyPacket) /\ channel[r] \in Seq(AnyPacket)
  BY <1>2 DEF TablesInv
<1> HIDE DEF r
<1>5. \A q \in Side : \A i \in Ids : Status(q, i)' = Status(q, i)
  BY <1>1, <1>2 DEF Status
<1>6. StepAbout(id)
  <2> SUFFICES ASSUME NEW q \in Side, NEW i \in Ids, i # id
               PROVE  SameOf(i, channel[q], channel'[q])
    BY <1>1, <1>5 DEF StepAbout
  <2> QED BY <1>0, <1>1, <1>2, <1>3, SamePackets
<1>7. ASSUME id % 2 = s PROVE TalkBetween(s, r, id)'
  <2>1. Talk(id, Status(s, id), closed[s], Status(r, id), closed[r], channel[s], channel[r])
    BY <1>3, <1>7 DEF Conversations, TalkBetween, mySideConnectionId, r
  <2>2. Talk(id, Status(s, id), closed[s], Status(r, id), closed[r], channel[s], Tail(channel[r]))
    BY <1>0, <1>3, <1>4, <2>1, TalkReceives
  <2> QED BY <1>1, <1>2, <1>3, <1>5, <2>2 DEF TalkBetween
<1>8. ASSUME id % 2 = r PROVE TalkBetween(r, s, id)'
  <2>1. Talk(id, Status(r, id), closed[r], Status(s, id), closed[s], channel[r], channel[s])
    BY <1>2, <1>3, <1>8 DEF Conversations, TalkBetween, mySideConnectionId
  <2>2. Talk(id, Status(r, id), closed[r], Status(s, id), closed[s], Tail(channel[r]), channel[s])
    BY <1>0, <1>3, <1>4, <2>1, TalkOtherReceives
  <2> QED BY <1>1, <1>2, <1>3, <1>5, <2>2 DEF TalkBetween
<1>9. \A q \in Side : mySideConnectionId(q, id) => TalkBetween(q, Peer(q), id)'
  BY <1>2, <1>7, <1>8 DEF mySideConnectionId, r
<1>10. ASSUME NEW q \in Side, mySideConnectionId(q, id), id \in {1, 2} PROVE ControlSettled(q, id)'
  <2>1. ControlSettled(q, id) /\ channel[q] \in Seq(AnyPacket) /\ Peer(q) \in Side
    BY <1>10, Sides DEF ControlOnce, TablesInv
  <2>2. At(channel[q], "new", id) = {} => At(channel'[q], "new", id) = {}
    BY <1>1, <1>2, <1>3, <2>1, NoRequest
  <2>3. table'[Peer(q)].control = table[Peer(q)].control
    BY <1>1, <1>2, <2>1
  <2> QED BY <1>1, <1>3, <1>5, <2>1, <2>2, <2>3 DEF ControlSettled
<1>11. Conversations'
  BY <1>1, <1>3, <1>6, <1>9, ConversationsKept
<1>12. SettledFor(id)' /\ ControlOnlyBy(id)
  BY <1>1, <1>2, <1>3, <1>6, <1>10 DEF SettledFor, ControlOnlyBy
<1>13. ControlOnce'
  BY <1>1, <1>2, <1>3, <1>6, <1>12, ControlKept
<1> QED BY <1>11, <1>13

LEMMA ConversationsInit ==
  ASSUME Init
  PROVE  Conversations /\ ControlOnce
<1>1. ASSUME NEW s \in Side, NEW id \in Ids PROVE TalkBetween(s, Peer(s), id)
  <2> DEFINE p == Peer(s)
  <2>1. p \in Side
    BY Sides
  <2>2. /\ Status(s, id) = "unused" /\ Status(p, id) = "unused"
        /\ channel[s] = <<>> /\ channel[p] = <<>> /\ closed[s] = {} /\ closed[p] = {}
    BY <2>1, IdFacts, EntryTypes DEF Init, NewTable, Status
  <2> HIDE DEF p
  <2>3. Of(<<>>, id) = {} /\ \A op \in Ops : At(<<>>, op, id) = {}
    BY DEF Of, At
  <2>4. Directed(id, channel[s], channel[p])
    BY <2>2, <2>3 DEF Directed
  <2>5. Conversation(id, "unused", {}, "unused", {}, {}, {}, {}, {}, {}, {})
    BY DEF Conversation, Requested, OnConnection, Usable, Given, Refusals, Acceptances, GivenUp
  <2>6. Talk(id, Status(s, id), closed[s], Status(p, id), closed[p], channel[s], channel[p])
    BY <2>2, <2>3, <2>4, <2>5 DEF Talk, Ops
  <2> QED BY <2>6 DEF TalkBetween, p
<1>2. \A s \in Side : table[Peer(s)].control = 0
  BY Sides DEF Init, NewTable
<1> QED BY <1>1, <1>2 DEF Conversations, ControlOnce, ControlSettled

LEMMA ConversationsNext ==
  ASSUME TablesInv, Conversations, ControlOnce, [Next]_vars
  PROVE  Conversations' /\ ControlOnce'
<1>1. CASE UNCHANGED vars
  BY <1>1 DEF vars, Conversations, TalkBetween, Status, ControlOnce, ControlSettled
<1>2. CASE Next
  <2>1. PICK s \in Side :
          \/ NewConnection(s)
          \/ \E id \in Ids : Call(s, id)
          \/ \E id \in Ids : Close(s, id)
          \/ \E id \in Ids : Reject(s, id)
          \/ ProcessNew(s)
          \/ ProcessAccept(s)
          \/ ProcessRelease(s)
          \/ ProcessSend(s)
    BY <1>2 DEF Next
  <2>2. CASE NewConnection(s)
    BY <2>2, ConversationsNew
  <2>3. ASSUME NEW id \in Ids, Call(s, id) PROVE Conversations' /\ ControlOnce'
    BY <2>3, ConversationsCall
  <2>4. ASSUME NEW id \in Ids, Close(s, id) PROVE Conversations' /\ ControlOnce'
    BY <2>4, ConversationsGiveUp
  <2>5. ASSUME NEW id \in Ids, Reject(s, id) PROVE Conversations' /\ ControlOnce'
    BY <2>5, ConversationsGiveUp
  <2>6. CASE ProcessNew(s)
    BY <2>6, ConversationsProcessNew
  <2>7. CASE ProcessAccept(s)
    BY <2>7, ConversationsProcessAccept
  <2>8. CASE ProcessRelease(s)
    BY <2>8, ConversationsProcessRelease
  <2>9. CASE ProcessSend(s)
    BY <2>9, ConversationsProcessSend
  <2> QED BY <2>1, <2>2, <2>3, <2>4, <2>5, <2>6, <2>7, <2>8, <2>9
<1> QED BY <1>1, <1>2

\* What is in flight about an id always fits what the two sides have of it, however
\* often the id is closed, refused and used again.
THEOREM ConversationsAlways == Spec => [](Conversations /\ ControlOnce)
<1>1. Init => Conversations /\ ControlOnce
  BY ConversationsInit
<1>2. TablesInv /\ Conversations /\ ControlOnce /\ [Next]_vars => Conversations' /\ ControlOnce'
  BY ConversationsNext
<1> QED BY <1>1, <1>2, TablesAlways, PTL DEF Spec

LEMMA QuietAgreementHolds ==
  ASSUME TablesInv, Conversations
  PROVE  QuietAgreement
<1> SUFFICES ASSUME \A s \in Side : channel[s] = <<>>, NEW s \in Side, NEW id \in Ids,
                    Live(table[s], id), id \notin closed[s]
             PROVE  /\ table[s].array[id].status = "established"
                    /\ Live(table[Peer(s)], id) /\ id \notin closed[Peer(s)]
  BY DEF QuietAgreement
<1> DEFINE r == Peer(s)
<1>1. r \in Side /\ Peer(r) = s /\ channel[s] = <<>> /\ channel[r] = <<>>
  BY Sides
<1>2. id % 2 = s \/ id % 2 = r
  BY IdFacts DEF Side, Peer
<1> HIDE DEF r
<1>3. Of(<<>>, id) = {} /\ \A op \in Ops : At(<<>>, op, id) = {}
  BY DEF Of, At
<1>4. /\ Status(s, id) # "unused"
      /\ Status(s, id) \in {"unused", "initiated", "established"}
      /\ Status(r, id) \in {"unused", "initiated", "established"}
  BY <1>1, TableIn, TableFields DEF Live, Status
<1>5. CASE id % 2 = s
  <2>1. Talk(id, Status(s, id), closed[s], Status(r, id), closed[r], <<>>, <<>>)
    BY <1>1, <1>5 DEF Conversations, TalkBetween, mySideConnectionId, r
  <2>2. Conversation(id, Status(s, id), closed[s], Status(r, id), closed[r], {}, {}, {}, {}, {}, {})
    BY <1>3, <2>1 DEF Talk, Ops
  <2>3. Status(r, id) # "unused"
    BY <1>4, <2>2 DEF Conversation, Usable
  <2>4. Status(s, id) = "established"
    BY <1>4, <2>2 DEF Conversation, Acceptances
  <2>5. id \notin closed[r]
    BY <1>4, <2>2 DEF Conversation, GivenUp
  <2> QED BY <2>3, <2>4, <2>5 DEF Live, Status, r
<1>6. CASE id % 2 = r
  <2>1. Talk(id, Status(r, id), closed[r], Status(s, id), closed[s], <<>>, <<>>)
    BY <1>1, <1>6 DEF Conversations, TalkBetween, mySideConnectionId
  <2>2. Conversation(id, Status(r, id), closed[r], Status(s, id), closed[s], {}, {}, {}, {}, {}, {})
    BY <1>3, <2>1 DEF Talk, Ops
  <2>3. Status(r, id) # "unused"
    BY <1>4, <2>2 DEF Conversation, Given
  <2>4. id \notin closed[r]
    BY <1>4, <2>2, <2>3 DEF Conversation, GivenUp
  <2>5. ~mySideConnectionId(s, id)
    BY <1>1, <1>6, Sides DEF mySideConnectionId
  <2>6. Status(s, id) = "established"
    BY <2>5, TableIn DEF Entries, Status
  <2> QED BY <2>3, <2>4, <2>6 DEF Live, Status, r
<1> QED BY <1>2, <1>5, <1>6

\* With nothing in flight the two tables agree: no close, no refusal and no reuse of
\* an id leaves one side with a connection that the other does not have.
THEOREM TablesAgreeWhenQuiet == Spec => []QuietAgreement
<1>1. TablesInv /\ Conversations => QuietAgreement
  BY QuietAgreementHolds
<1> QED BY <1>1, TablesAlways, ConversationsAlways, PTL

-----------------------------------------------------------------------------
(* Room for the requests: a is the size of the requester's table, b that   *)
(* of the table the requests in c will find.  The table of the receiver    *)
(* doubles at most once for each request.                                  *)

Asked(c) == {k \in 1..Len(c) : c[k].op = "new"}

\* The table has size z at least when a request for id has been answered.
Reaches(id, z) == z = FirstAllocation \/ z <= 2 * id

Room(a, b, c) ==
  /\ \A z \in TableSizes : z <= a /\ b < z => \E j \in Asked(c) : Reaches(c[j].id, z)
  /\ \A k \in Asked(c) :
       /\ c[k].id < a
       /\ \A z \in TableSizes : z <= c[k].id /\ b < z
            => \E j \in Asked(c) : j < k /\ Reaches(c[j].id, z)

RoomInv == \A s \in Side : Room(table[s].allocated, table[Peer(s)].allocated, channel[s])

\* The requests of c and d are the same, in the same order.
SameRequests(c, d) ==
  \E h \in {0, 1} : /\ \A k \in Asked(c) : k - h \in Asked(d) /\ d[k - h].id = c[k].id
                    /\ \A k \in Asked(d) : k + h \in Asked(c) /\ d[k].id = c[k + h].id

LEMMA RequestPlaces ==
  ASSUME NEW c \in Seq(AnyPacket)
  PROVE  \A k \in Asked(c) : k \in Nat /\ 1 <= k /\ k <= Len(c) /\ c[k].id \in Ids /\ c[k].id \in Nat
<1>1. \A k \in 1..Len(c) : c[k] \in AnyPacket
  OBVIOUS
<1> QED BY <1>1, PacketFacts, IdFacts DEF Asked

LEMMA SameRequestsOthers ==
  ASSUME NEW c \in Seq(AnyPacket)
  PROVE  /\ SameRequests(c, c)
         /\ \A x \in AnyPacket : x.op # "new" => SameRequests(c, Append(c, x))
         /\ c # <<>> /\ Head(c).op # "new" => SameRequests(c, Tail(c))
         /\ \A f \in Seq(AnyPacket) : \A i \in Ids : Sends(f, i) => SameRequests(c, c \o f)
<1>0. Len(c) \in Nat /\ \A k \in Asked(c) : k \in Nat
  BY RequestPlaces
<1>1. SameRequests(c, c)
  BY <1>0 DEF SameRequests
<1>2. ASSUME NEW x \in AnyPacket, x.op # "new" PROVE SameRequests(c, Append(c, x))
  <2> DEFINE d == Append(c, x)
  <2>1. Len(d) = Len(c) + 1 /\ d[Len(c) + 1] = x /\ \A k \in 1..Len(c) : d[k] = c[k]
    BY AppendProperties
  <2> HIDE DEF d
  <2>2. \A k : k \in 1..Len(d) <=> k \in 1..Len(c) \/ k = Len(c) + 1
    BY <1>0, <2>1
  <2>3. \A k : k \in Asked(d) <=> k \in Asked(c)
    BY <1>2, <2>1, <2>2 DEF Asked
  <2>4. \A k \in Asked(c) : k - 0 = k /\ k + 0 = k /\ d[k] = c[k]
    BY <1>0, <2>1 DEF Asked
  <2> QED BY <2>3, <2>4 DEF SameRequests, d
<1>3. ASSUME c # <<>>, Head(c).op # "new" PROVE SameRequests(c, Tail(c))
  <2> DEFINE d == Tail(c)
  <2>1. Len(d) = Len(c) - 1 /\ (\A k \in 1..Len(d) : d[k] = c[k + 1]) /\ Head(c) = c[1] /\ Len(c) >= 1
    BY <1>3, HeadTailProperties, EmptySeq
  <2> HIDE DEF d
  <2>2. \A k \in 1..Len(d) : k + 1 \in 1..Len(c) /\ c[k + 1] = d[k]
    BY <1>0, <2>1
  <2>3. \A k \in (1..Len(c)) \ {1} : k - 1 \in 1..Len(d) /\ d[k - 1] = c[k]
    BY <1>0, <2>1
  <2>4. \A k \in Asked(c) : k - 1 \in Asked(d) /\ d[k - 1].id = c[k].id
    BY <1>3, <2>1, <2>3 DEF Asked
  <2>5. \A k \in Asked(d) : k + 1 \in Asked(c) /\ d[k].id = c[k + 1].id
    BY <2>2 DEF Asked
  <2> QED BY <2>4, <2>5 DEF SameRequests, d
<1>4. ASSUME NEW f \in Seq(AnyPacket), NEW i \in Ids, Sends(f, i) PROVE SameRequests(c, c \o f)
  <2> DEFINE d == c \o f
  <2>1. /\ Len(f) \in Nat /\ Len(d) = Len(c) + Len(f)
        /\ \A k \in 1..Len(c) : d[k] = c[k]
        /\ \A k \in (Len(c) + 1)..(Len(c) + Len(f)) : d[k] = f[k - Len(c)]
    BY ConcatProperties
  <2> HIDE DEF d
  <2>2. \A k \in (Len(c) + 1)..(Len(c) + Len(f)) : k - Len(c) \in 1..Len(f)
    BY <1>0, <2>1
  <2>3. \A k \in (Len(c) + 1)..(Len(c) + Len(f)) : d[k].op = "send"
    BY <1>4, <2>1, <2>2 DEF Sends
  <2>4. \A k : k \in 1..Len(d) <=> k \in 1..Len(c) \/ k \in (Len(c) + 1)..(Len(c) + Len(f))
    BY <1>0, <2>1
  <2>5. \A k : k \in Asked(d) <=> k \in Asked(c)
    BY <2>1, <2>3, <2>4 DEF Asked
  <2>6. \A k \in Asked(c) : k - 0 = k /\ k + 0 = k /\ d[k] = c[k]
    BY <1>0, <2>1 DEF Asked
  <2> QED BY <2>5, <2>6 DEF SameRequests, d
<1> QED BY <1>1, <1>2, <1>3, <1>4

\* The requester's table grows only to a size the receiver's has, the receiver's
\* may grow, and no request comes or goes.
LEMMA RoomKept ==
  ASSUME NEW a, NEW b, NEW c, NEW a2, NEW b2, NEW d,
         a \in Nat, b \in Nat, a2 \in Nat, b2 \in Nat,
         c \in Seq(AnyPacket), d \in Seq(AnyPacket),
         Room(a, b, c), SameRequests(c, d), b <= b2, a <= a2,
         a2 = a \/ a2 <= b
  PROVE  Room(a2, b2, d)
<1>1. PICK h \in {0, 1} :
        /\ \A k \in Asked(c) : k - h \in Asked(d) /\ d[k - h].id = c[k].id
        /\ \A k \in Asked(d) : k + h \in Asked(c) /\ d[k].id = c[k + h].id
  BY DEF SameRequests
<1>2. /\ \A k \in Asked(c) : k \in Nat /\ c[k].id \in Nat
      /\ \A k \in Asked(d) : k \in Nat /\ d[k].id \in Nat
      /\ \A z \in TableSizes : z \in Nat
  BY RequestPlaces, Sizes
<1>3. ASSUME NEW z \in TableSizes, z <= a2, b2 < z PROVE \E j \in Asked(d) : Reaches(d[j].id, z)
  <2>1. z <= a /\ b < z
    BY <1>2, <1>3
  <2>2. PICK j \in Asked(c) : Reaches(c[j].id, z)
    BY <2>1 DEF Room
  <2> QED BY <1>1, <2>2
<1>4. ASSUME NEW k \in Asked(d) PROVE d[k].id < a2
  <2>1. d[k].id < a
    BY <1>1 DEF Room
  <2> QED BY <1>2, <2>1
<1>5. ASSUME NEW k \in Asked(d), NEW z \in TableSizes, z <= d[k].id, b2 < z
      PROVE  \E j \in Asked(d) : j < k /\ Reaches(d[j].id, z)
  <2>1. k + h \in Asked(c) /\ z <= c[k + h].id /\ b < z
    BY <1>1, <1>2, <1>5
  <2>2. PICK j \in Asked(c) : j < k + h /\ Reaches(c[j].id, z)
    BY <2>1 DEF Room
  <2>3. j - h \in Asked(d) /\ d[j - h].id = c[j].id /\ j - h < k
    BY <1>1, <1>2, <2>2
  <2> QED BY <2>2, <2>3
<1> QED BY <1>3, <1>4, <1>5 DEF Room

\* The sizes above a start at twice a, or at the first size.
LEMMA NextSize ==
  ASSUME NEW a \in {0} \cup TableSizes, NEW z \in TableSizes, a < z
  PROVE  /\ a = 0 => FirstAllocation <= z
         /\ a # 0 => 2 * a <= z /\ 2 * a \in TableSizes
BY Sizes

\* newConnection at the requester.
LEMMA RoomAsked ==
  ASSUME NEW a \in {0} \cup TableSizes, NEW b \in Nat, NEW a2 \in Nat, NEW c \in Seq(AnyPacket),
         NEW x \in AnyPacket, x.op = "new", x.id < a2,
         Room(a, b, c),
         \/ a2 = a
         \/ x.id > a /\ a = 0 /\ a2 = FirstAllocation
         \/ x.id > a /\ a # 0 /\ a2 = 2 * a
  PROVE  Room(a2, b, Append(c, x))
<1> DEFINE d == Append(c, x)
           n == Len(c) + 1
           id == x.id
<1>1. /\ Len(c) \in Nat /\ n \in Nat /\ Len(d) = n /\ d[n] = x
      /\ \A k \in 1..Len(c) : d[k] = c[k]
  BY AppendProperties
<1>2. \A k : k \in 1..n <=> k \in 1..Len(c) \/ k = n
  BY <1>1
<1>3. id \in Nat
  BY PacketFacts, IdFacts
<1> HIDE DEF d
<1>4. \A k : k \in Asked(d) <=> k \in Asked(c) \/ k = n
  BY <1>1, <1>2 DEF Asked
<1>5. \A k \in Asked(c) : d[k] = c[k] /\ k \in Nat /\ k < n /\ c[k].id \in Nat
  BY <1>1, RequestPlaces DEF Asked
<1> HIDE DEF n
<1>6. a \in Nat /\ \A z \in TableSizes : z \in Nat
  BY Sizes
<1>7. ASSUME NEW z \in TableSizes, z <= a2, b < z PROVE \E j \in Asked(d) : Reaches(d[j].id, z)
  <2>1. CASE z <= a
    <3>1. PICK j \in Asked(c) : Reaches(c[j].id, z)
      BY <1>7, <2>1 DEF Room
    <3> QED BY <1>4, <1>5, <3>1
  <2>2. CASE a < z
    <3>1. z = FirstAllocation \/ z <= 2 * id
      BY <1>3, <1>6, <1>7, <2>2, NextSize, Sizes
    <3>2. n \in Asked(d) /\ d[n].id = id
      BY <1>1, <1>4
    <3> QED BY <3>1, <3>2 DEF Reaches
  <2> QED BY <1>6, <2>1, <2>2
<1>8. ASSUME NEW z \in TableSizes, z <= id PROVE z <= a
  <2>1. ~(a < z)
    BY <1>3, <1>6, <1>8, NextSize, Sizes
  <2> QED BY <1>6, <2>1
<1>9. ASSUME NEW k \in Asked(d) PROVE d[k].id < a2
  <2>1. CASE k = n
    BY <1>1, <2>1
  <2>2. CASE k \in Asked(c)
    <3>1. d[k].id < a
      BY <1>5, <2>2 DEF Room
    <3>2. a <= a2
      BY <1>6, Sizes
    <3> QED BY <1>5, <1>6, <2>2, <3>1, <3>2
  <2> QED BY <1>4, <2>1, <2>2
<1>10. ASSUME NEW k \in Asked(d), NEW z \in TableSizes, z <= d[k].id, b < z
       PROVE  \E j \in Asked(d) : j < k /\ Reaches(d[j].id, z)
  <2>1. CASE k = n
    <3>1. z <= a
      BY <1>1, <1>8, <1>10, <2>1
    <3>2. PICK j \in Asked(c) : Reaches(c[j].id, z)
      BY <1>10, <3>1 DEF Room
    <3> QED BY <1>4, <1>5, <2>1, <3>2
  <2>2. CASE k \in Asked(c)
    <3>1. PICK j \in Asked(c) : j < k /\ Reaches(c[j].id, z)
      BY <1>5, <1>10, <2>2 DEF Room
    <3> QED BY <1>4, <1>5, <3>1
  <2> QED BY <1>4, <2>1, <2>2
<1>11. Room(a2, b, d)
  BY <1>7, <1>9, <1>10 DEF Room
<1> QED BY <1>11 DEF d

\* The request at the head is answered: the table it is for has room for its id.
LEMMA RoomAnswered ==
  ASSUME NEW a \in Nat, NEW b \in Nat, NEW b2 \in TableSizes, NEW c \in Seq(AnyPacket), c # <<>>,
         Head(c).op = "new", Head(c).id < b2, b <= b2,
         Room(a, b, c)
  PROVE  Room(a, b2, Tail(c))
<1> DEFINE d == Tail(c)
<1>1. /\ Len(d) = Len(c) - 1 /\ (\A k \in 1..Len(d) : d[k] = c[k + 1])
      /\ Head(c) = c[1] /\ Len(c) >= 1 /\ Len(c) \in Nat /\ d \in Seq(AnyPacket)
  BY HeadTailProperties, EmptySeq
<1> HIDE DEF d
<1>2. \A k \in 1..Len(d) : k + 1 \in 1..Len(c) /\ c[k + 1] = d[k]
  BY <1>1
<1>3. \A k \in (1..Len(c)) \ {1} : k - 1 \in 1..Len(d) /\ d[k - 1] = c[k]
  BY <1>1
<1>4. /\ \A k \in Asked(c) : k # 1 => k - 1 \in Asked(d) /\ d[k - 1].id = c[k].id
      /\ \A k \in Asked(d) : k + 1 \in Asked(c) /\ d[k].id = c[k + 1].id
  BY <1>2, <1>3 DEF Asked
<1>5. /\ \A k \in Asked(c) : k \in Nat /\ c[k].id \in Nat
      /\ \A k \in Asked(d) : k \in Nat /\ d[k].id \in Nat
      /\ 1 \in Asked(c)
      /\ b2 \in Nat /\ \A z \in TableSizes : z \in Nat
  <2>1. 1 \in Asked(c)
    BY <1>1 DEF Asked
  <2> QED BY <1>1, <2>1, RequestPlaces, Sizes
<1>6. \A z \in TableSizes : b2 < z => b < z /\ ~Reaches(c[1].id, z)
  <2> SUFFICES ASSUME NEW z \in TableSizes, b2 < z PROVE b < z /\ ~Reaches(c[1].id, z)
    OBVIOUS
  <2>1. FirstAllocation < z /\ 2 * b2 <= z /\ FirstAllocation \in Nat
    BY Sizes
  <2>2. c[1].id \in Nat /\ c[1].id < b2 /\ z \in Nat
    BY <1>1, <1>5
  <2> QED BY <1>5, <2>1, <2>2 DEF Reaches
<1>7. ASSUME NEW z \in TableSizes, z <= a, b2 < z PROVE \E j \in Asked(d) : Reaches(d[j].id, z)
  <2>1. PICK j \in Asked(c) : Reaches(c[j].id, z)
    BY <1>6, <1>7 DEF Room
  <2> QED BY <1>4, <1>6, <1>7, <2>1
<1>8. ASSUME NEW k \in Asked(d) PROVE d[k].id < a
  BY <1>4 DEF Room
<1>9. ASSUME NEW k \in Asked(d), NEW z \in TableSizes, z <= d[k].id, b2 < z
      PROVE  \E j \in Asked(d) : j < k /\ Reaches(d[j].id, z)
  <2>1. PICK j \in Asked(c) : j < k + 1 /\ Reaches(c[j].id, z)
    BY <1>4, <1>6, <1>9 DEF Room
  <2>2. j # 1
    BY <1>6, <1>9, <2>1
  <2>3. j - 1 \in Asked(d) /\ d[j - 1].id = c[j].id /\ j - 1 < k
    BY <1>4, <1>5, <2>1, <2>2
  <2> QED BY <2>1, <2>3
<1>10. Room(a, b2, d)
  BY <1>7, <1>8, <1>9 DEF Room
<1> QED BY <1>10 DEF d

\* The table the request at the head is for has room for its id, or will when it
\* has doubled once.
LEMMA RoomForHead ==
  ASSUME NEW a, NEW b, NEW c \in Seq(AnyPacket), c # <<>>, Head(c).op = "new",
         a \in {0} \cup TableSizes, b \in {0} \cup TableSizes, Room(a, b, c)
  PROVE  /\ Head(c).id < a
         /\ b = 0 => Head(c).id < FirstAllocation
         /\ b # 0 => Head(c).id < 2 * b
<1>1. Head(c) = c[1] /\ 1 \in Asked(c) /\ \A k \in Asked(c) : k \in Nat /\ ~(k < 1)
  BY EmptySeq, RequestPlaces DEF Asked
<1>2. c[1].id \in Nat /\ a \in Nat /\ b \in Nat
  BY <1>1, RequestPlaces, Sizes
<1>3. c[1].id < a /\ \A z \in TableSizes : ~(z <= c[1].id /\ b < z)
  BY <1>1 DEF Room
<1>4. a \in TableSizes
  BY <1>2, <1>3
<1>5. b = 0 => c[1].id < FirstAllocation
  BY <1>2, <1>3, Sizes
<1>6. b # 0 => c[1].id < 2 * b
  <2> SUFFICES ASSUME b # 0, ~(c[1].id < 2 * b) PROVE FALSE
    OBVIOUS
  <2>1. b < a
    BY <1>2, <1>3
  <2>2. 2 * b \in TableSizes
    BY <1>4, <2>1, NextSize
  <2> QED BY <1>2, <1>3, <2>2
<1> QED BY <1>1, <1>3, <1>5, <1>6

Allocated(s) == table[s].allocated

LEMMA Allocations ==
  ASSUME TablesInv, NEW s \in Side
  PROVE  /\ Allocated(s) \in {0} \cup TableSizes /\ Allocated(s) \in Nat
         /\ channel[s] \in Seq(AnyPacket)
<1>1. Allocated(s) \in {0} \cup TableSizes
  BY TableIn DEF Entries, Allocated
<1> QED BY <1>1, Sizes DEF TablesInv

LEMMA RoomOf ==
  ASSUME NEW s \in Side, RoomInv
  PROVE  /\ Room(Allocated(s), Allocated(Peer(s)), channel[s])
         /\ Room(Allocated(Peer(s)), Allocated(s), channel[Peer(s)])
BY Sides DEF RoomInv, Allocated

LEMMA RoomBoth ==
  ASSUME NEW s \in Side,
         Room(Allocated(s)', Allocated(Peer(s))', channel'[s]),
         Room(Allocated(Peer(s))', Allocated(s)', channel'[Peer(s)])
  PROVE  RoomInv'
<1>1. ASSUME NEW q \in Side PROVE Room(Allocated(q)', Allocated(Peer(q))', channel'[q])
  BY <1>1, Sides
<1> QED BY <1>1 DEF RoomInv, Allocated

\* No table grows, and no request is sent or answered.
LEMMA RoomUnasked ==
  ASSUME TablesInv, TablesInv', RoomInv, NEW s \in Side,
         Allocated(s)' = Allocated(s), Allocated(Peer(s))' = Allocated(Peer(s)),
         SameRequests(channel[s], channel'[s]), SameRequests(channel[Peer(s)], channel'[Peer(s)])
  PROVE  RoomInv'
<1> DEFINE r == Peer(s)
<1>1. r \in Side
  BY Sides
<1>2. /\ Allocated(s) \in Nat /\ Allocated(r) \in Nat
      /\ channel[s] \in Seq(AnyPacket) /\ channel[r] \in Seq(AnyPacket)
      /\ channel'[s] \in Seq(AnyPacket) /\ channel'[r] \in Seq(AnyPacket)
  BY <1>1, Allocations DEF TablesInv
<1>3. Allocated(s) <= Allocated(s) /\ Allocated(r) <= Allocated(r)
  BY <1>2
<1>4. Room(Allocated(s), Allocated(r), channel'[s]) /\ Room(Allocated(r), Allocated(s), channel'[r])
  BY <1>2, <1>3, RoomOf, RoomKept
<1> QED BY <1>4, RoomBoth

LEMMA RoomNew ==
  ASSUME TablesInv, RoomInv, NEW s \in Side, NewConnection(s)
  PROVE  RoomInv'
<1> DEFINE r == Peer(s)
<1>1. PICK id \in Ids :
        /\ id < Allocated(s)'
        /\ \/ Allocated(s)' = Allocated(s)
           \/ Allocated(s)' = Grown(table[s]) /\ id > Allocated(s)
        /\ channel'[s] = Append(channel[s], Control("new", id))
        /\ table'[r] = table[r] /\ channel'[r] = channel[r]
        /\ TablesInv'
  BY NewConnectionEffect DEF Allocated
<1> DEFINE x == Control("new", id)
<1>2. r \in Side /\ x \in AnyPacket /\ x.op = "new" /\ x.id = id
  BY Sides, ControlFacts
<1> HIDE DEF x
<1>3. /\ Allocated(s) \in {0} \cup TableSizes /\ Allocated(s) \in Nat /\ Allocated(r) \in Nat
      /\ Allocated(s)' \in Nat
      /\ channel[s] \in Seq(AnyPacket) /\ channel[r] \in Seq(AnyPacket)
  <2>1. Allocated(s)' \in {0} \cup TableSizes
    BY <1>1 DEF Entries, Allocated, TablesInv, Sound
  <2> QED BY <1>2, <2>1, Allocations, Sizes
<1>4. \/ Allocated(s)' = Allocated(s)
      \/ id > Allocated(s) /\ Allocated(s) = 0 /\ Allocated(s)' = FirstAllocation
      \/ id > Allocated(s) /\ Allocated(s) # 0 /\ Allocated(s)' = 2 * Allocated(s)
  BY <1>1 DEF Grown, Allocated
<1>5. Room(Allocated(s)', Allocated(r), Append(channel[s], x))
  BY <1>1, <1>2, <1>3, <1>4, RoomOf, RoomAsked
<1>6. Allocated(r)' = Allocated(r)
  BY <1>1 DEF Allocated
<1>7. Room(Allocated(r), Allocated(s)', channel[r])
  <2>1. SameRequests(channel[r], channel[r])
    BY <1>3, SameRequestsOthers
  <2>2. Allocated(s) <= Allocated(s)' /\ Allocated(r) <= Allocated(r)
    BY <1>3, <1>4, Sizes
  <2> QED BY <1>3, <2>1, <2>2, RoomOf, RoomKept
<1> QED BY <1>1, <1>5, <1>6, <1>7, RoomBoth DEF x

LEMMA RoomProcessNew ==
  ASSUME TablesInv, RoomInv, NEW s \in Side, ProcessNew(s)
  PROVE  RoomInv'
<1> DEFINE r == Peer(s)
<1>0. PICK id : id = Head(channel[r]).id
  OBVIOUS
<1>1. /\ Arrives(s, "new") /\ id < Allocated(s)'
      /\ \/ Allocated(s)' = Allocated(s)
         \/ Allocated(s)' = Grown(table[s]) /\ id >= Allocated(s)
      /\ channel'[r] = Tail(channel[r])
      /\ channel'[s] = Append(channel[s], Control("accept", id))
      /\ table'[r] = table[r]
      /\ TablesInv'
  BY <1>0, ProcessNewEffect DEF Allocated
<1>2. channel[r] # <<>> /\ Head(channel[r]).op = "new" /\ id \in Ids /\ id \in Nat
  BY <1>0, <1>1, ArrivesFacts, IdFacts
<1> DEFINE x == Control("accept", id)
<1>3. r \in Side /\ Peer(r) = s /\ x \in AnyPacket /\ x.op = "accept"
  BY <1>2, Sides, ControlFacts
<1>4. /\ Allocated(s) \in {0} \cup TableSizes /\ Allocated(s) \in Nat
      /\ Allocated(r) \in {0} \cup TableSizes /\ Allocated(r) \in Nat
      /\ channel[s] \in Seq(AnyPacket) /\ channel[r] \in Seq(AnyPacket)
      /\ channel'[s] \in Seq(AnyPacket)
  BY <1>1, <1>3, Allocations DEF TablesInv
<1>5. Allocated(s)' \in TableSizes
  <2>1. Allocated(s)' \in {0} \cup TableSizes
    BY <1>1 DEF Entries, Allocated, TablesInv, Sound
  <2> QED BY <1>1, <1>2, <2>1
<1>6. Allocated(s)' \in Nat /\ Allocated(s) <= Allocated(s)'
  <2>1. Allocated(s)' \in Nat
    BY <1>5, Sizes
  <2> QED BY <1>1, <1>2, <1>4, <2>1
<1>7. Room(Allocated(r), Allocated(s)', Tail(channel[r]))
  BY <1>0, <1>1, <1>2, <1>4, <1>5, <1>6, RoomOf, RoomAnswered
<1>8. Allocated(s)' = Allocated(s) \/ Allocated(s)' <= Allocated(r)
  <2> SUFFICES ASSUME Allocated(s)' = Grown(table[s]), id >= Allocated(s)
               PROVE  Allocated(s)' <= Allocated(r)
    BY <1>1
  <2>1. id < Allocated(r)
    BY <1>0, <1>2, <1>4, RoomOf, RoomForHead
  <2>2. Allocated(r) \in TableSizes /\ Allocated(s) < Allocated(r)
    BY <1>2, <1>4, <2>1
  <2>3. /\ Allocated(s) = 0 => FirstAllocation <= Allocated(r)
        /\ Allocated(s) # 0 => 2 * Allocated(s) <= Allocated(r)
    BY <1>4, <2>2, NextSize
  <2> QED BY <2>3 DEF Grown, Allocated
<1>9. Room(Allocated(s)', Allocated(r), Append(channel[s], x))
  <2>1. SameRequests(channel[s], Append(channel[s], x))
    BY <1>3, <1>4, SameRequestsOthers
  <2>2. Allocated(r) <= Allocated(r) /\ Append(channel[s], x) \in Seq(AnyPacket)
    BY <1>3, <1>4, AppendProperties
  <2> QED BY <1>4, <1>6, <1>8, <2>1, <2>2, RoomOf, RoomKept
<1>10. Allocated(r)' = Allocated(r)
  BY <1>1 DEF Allocated
<1> QED BY <1>1, <1>7, <1>9, <1>10, RoomBoth

LEMMA RoomCall ==
  ASSUME TablesInv, RoomInv, NEW s \in Side, NEW id \in Ids, Call(s, id)
  PROVE  RoomInv'
<1> DEFINE r == Peer(s)
           message == Len(calls[s]) + 1
           length == Lengths[message]
           f == Fragments(id, message, length)
<1>1. /\ f \in Seq(AnyPacket) /\ Sends(f, id)
      /\ channel'[s] = channel[s] \o f /\ channel'[r] = channel[r] /\ table' = table
      /\ TablesInv'
  BY CallEffect, FragmentsSend
<1> HIDE DEF f
<1>2. channel[s] \in Seq(AnyPacket) /\ channel[r] \in Seq(AnyPacket)
  BY Sides, Allocations
<1>3. SameRequests(channel[s], channel'[s]) /\ SameRequests(channel[r], channel'[r])
  BY <1>1, <1>2, SameRequestsOthers
<1> QED BY <1>1, <1>3, RoomUnasked DEF Allocated

LEMMA RoomGiveUp ==
  ASSUME TablesInv, RoomInv, NEW s \in Side, NEW id \in Ids, NEW op \in {"close", "reject"},
         \/ op = "close" /\ Close(s, id)
         \/ op = "reject" /\ Reject(s, id)
  PROVE  RoomInv'
<1> DEFINE r == Peer(s)
           x == Control(op, id)
<1>1. /\ channel'[s] = Append(channel[s], x) /\ channel'[r] = channel[r]
      /\ table' = table /\ TablesInv'
  BY GiveUpEffect
<1>2. channel[s] \in Seq(AnyPacket) /\ channel[r] \in Seq(AnyPacket)
  BY Sides, Allocations
<1>3. x \in AnyPacket /\ x.op # "new"
  BY ControlFacts
<1> HIDE DEF x
<1>4. SameRequests(channel[s], channel'[s]) /\ SameRequests(channel[r], channel'[r])
  BY <1>1, <1>2, <1>3, SameRequestsOthers
<1> QED BY <1>1, <1>4, RoomUnasked DEF Allocated

\* A packet other than a request arrives.
LEMMA RoomProcess ==
  ASSUME TablesInv, TablesInv', RoomInv, NEW s \in Side,
         channel[Peer(s)] # <<>>, Head(channel[Peer(s)]).op # "new",
         channel'[Peer(s)] = Tail(channel[Peer(s)]), channel'[s] = channel[s],
         table'[s].allocated = table[s].allocated, table'[Peer(s)] = table[Peer(s)]
  PROVE  RoomInv'
<1> DEFINE r == Peer(s)
<1>1. channel[s] \in Seq(AnyPacket) /\ channel[r] \in Seq(AnyPacket)
  BY Sides, Allocations
<1>2. SameRequests(channel[s], channel'[s]) /\ SameRequests(channel[r], channel'[r])
  BY <1>1, SameRequestsOthers
<1> QED BY <1>2, RoomUnasked DEF Allocated

LEMMA RoomNext ==
  ASSUME TablesInv, RoomInv, [Next]_vars
  PROVE  RoomInv'
<1>1. CASE UNCHANGED vars
  BY <1>1 DEF vars, RoomInv
<1>2. CASE Next
  <2>1. PICK s \in Side :
          \/ NewConnection(s)
          \/ \E id \in Ids : Call(s, id)
          \/ \E id \in Ids : Close(s, id)
          \/ \E id \in Ids : Reject(s, id)
          \/ ProcessNew(s)
          \/ ProcessAccept(s)
          \/ ProcessRelease(s)
          \/ ProcessSend(s)
    BY <1>2 DEF Next
  <2>2. CASE NewConnection(s)
    BY <2>2, RoomNew
  <2>3. ASSUME NEW id \in Ids, Call(s, id) PROVE RoomInv'
    BY <2>3, RoomCall
  <2>4. ASSUME NEW id \in Ids, Close(s, id) PROVE RoomInv'
    BY <2>4, RoomGiveUp
  <2>5. ASSUME NEW id \in Ids, Reject(s, id) PROVE RoomInv'
    BY <2>5, RoomGiveUp
  <2>6. CASE ProcessNew(s)
    BY <2>6, RoomProcessNew
  <2>7. CASE ProcessAccept(s)
    <3>1. Arrives(s, "accept") /\ TablesInv'
      BY <2>7, ProcessAcceptEffect
    <3> QED BY <2>7, <3>1, ArrivesFacts, ProcessAcceptEffect, RoomProcess
  <2>8. CASE ProcessRelease(s)
    <3>1. (Arrives(s, "reject") \/ Arrives(s, "close")) /\ TablesInv'
      BY <2>8, ProcessReleaseEffect
    <3>2. channel[Peer(s)] # <<>> /\ Head(channel[Peer(s)]).op # "new"
      BY <3>1, ArrivesFacts
    <3> QED BY <2>8, <3>1, <3>2, ProcessReleaseEffect, RoomProcess
  <2>9. CASE ProcessSend(s)
    <3>1. /\ Arrives(s, "send") /\ TablesInv'
          /\ channel'[Peer(s)] = Tail(channel[Peer(s)]) /\ channel'[s] = channel[s]
          /\ table'[s].allocated = table[s].allocated /\ table'[Peer(s)] = table[Peer(s)]
      BY <2>9, ProcessSendEffect
    <3>2. channel[Peer(s)] # <<>> /\ Head(channel[Peer(s)]).op # "new"
      BY <3>1, ArrivesFacts
    <3> QED BY <3>1, <3>2, RoomProcess
  <2> QED BY <2>1, <2>2, <2>3, <2>4, <2>5, <2>6, <2>7, <2>8, <2>9
<1> QED BY <1>1, <1>2

\* A request never asks for an id that the receiver's table, doubled once at most,
\* is too small for.
THEOREM RoomAlways == Spec => []RoomInv
<1>1. Init => RoomInv
  <2> SUFFICES ASSUME Init, NEW s \in Side
               PROVE  Room(table[s].allocated, table[Peer(s)].allocated, channel[s])
    BY DEF RoomInv
  <2>1. table[s].allocated = 0 /\ table[Peer(s)].allocated = 0 /\ channel[s] = <<>>
    BY Sides DEF Init, NewTable
  <2>2. Asked(<<>>) = {}
    BY DEF Asked
  <2> QED BY <2>1, <2>2, Sizes DEF Room
<1>2. TablesInv /\ RoomInv /\ [Next]_vars => RoomInv'
  BY RoomNext
<1> QED BY <1>1, <1>2, TablesAlways, PTL DEF Spec

-----------------------------------------------------------------------------
(* The messages in flight: c is the channel, h the number of messages      *)
(* handled at its end, sent the messages sent into it.                     *)

Sending(c) == {k \in 1..Len(c) : c[k].op = "send"}

\* A fragment of a message not yet handled.
Belongs(p, h, sent) ==
  /\ p.message \in (h + 1)..Len(sent)
  /\ p.id = sent[p.message].id /\ p.total = sent[p.message].length
  /\ p.first <=> p.from = 1
  /\ p.last <=> p.from + p.bytes - 1 = p.total

\* p is the next fragment of the message of q.
Continues(q, p) ==
  q.op = "send" /\ ~q.last /\ q.message = p.message /\ q.id = p.id /\ q.from + q.bytes = p.from

InOrder(c, h, sent) ==
  /\ h <= Len(sent)
  /\ \A k \in Sending(c) : Belongs(c[k], h, sent)
  /\ \A k \in Sending(c) : k > 1 /\ ~c[k].first => Continues(c[k - 1], c[k])
  /\ \A j, k \in Sending(c) : j < k => c[j].message <= c[k].message
  /\ \A j, k \in Sending(c) : j < k /\ c[j].last => c[j].message < c[k].message
  /\ \A m \in (h + 1)..Len(sent) : \E k \in Sending(c) : c[k].message = m /\ c[k].last

\* The pieces are the first n - 1 bytes of the message.
Building(pieces, n, message) ==
  /\ pieces # <<>>
  /\ \A k \in 1..Len(pieces) : pieces[k].message = message
  /\ pieces[1].from = 1
  /\ \A k \in 2..Len(pieces) : pieces[k].from = pieces[k - 1].from + pieces[k - 1].bytes
  /\ pieces[Len(pieces)].from + pieces[Len(pieces)].bytes = n

\* The receiver has what comes before the fragment at the head.
HeadContinues(c, array) ==
  c # <<>> /\ c[1].op = "send" /\ ~c[1].first
    => Building(array[c[1].id].inPacket, c[1].from, c[1].message)

Receiving(s) ==
  /\ InOrder(channel[Peer(s)], Len(handled[s]), calls[Peer(s)])
  /\ HeadContinues(channel[Peer(s)], table[s].array)

StreamInv == \A s \in Side : Receiving(s)

LEMMA SendingPlaces ==
  ASSUME NEW c \in Seq(AnyPacket)
  PROVE  /\ Len(c) \in Nat
         /\ \A k \in Sending(c) : /\ k \in Nat /\ 1 <= k /\ k <= Len(c) /\ k \in 1..Len(c)
                                  /\ c[k] \in Fragment /\ c[k].message \in Nat
                                  /\ c[k].from \in Nat /\ c[k].bytes \in Nat
<1>1. \A k \in 1..Len(c) : c[k] \in AnyPacket
  OBVIOUS
<1> QED BY <1>1, PacketFacts DEF Sending

LEMMA InOrderPushed ==
  ASSUME NEW c \in Seq(AnyPacket), NEW x \in AnyPacket, x.op # "send", NEW h \in Nat,
         NEW sent \in Seq(Message), InOrder(c, h, sent)
  PROVE  InOrder(Append(c, x), h, sent)
<1> DEFINE d == Append(c, x)
<1>1. Len(c) \in Nat /\ Len(d) = Len(c) + 1 /\ d[Len(c) + 1] = x /\ \A k \in 1..Len(c) : d[k] = c[k]
  BY AppendProperties
<1> HIDE DEF d
<1>2. \A k : k \in 1..Len(d) <=> k \in 1..Len(c) \/ k = Len(c) + 1
  BY <1>1
<1>3. \A k : k \in Sending(d) <=> k \in Sending(c)
  BY <1>1, <1>2 DEF Sending
<1>4. \A k \in Sending(c) : d[k] = c[k] /\ (k > 1 => d[k - 1] = c[k - 1])
  <2>1. \A k \in Sending(c) : k > 1 => k - 1 \in 1..Len(c)
    BY SendingPlaces
  <2> QED BY <1>1, <2>1, SendingPlaces
<1>5. InOrder(d, h, sent)
  BY <1>3, <1>4 DEF InOrder
<1> QED BY <1>5 DEF d

\* What f is when it holds the fragments of the message.
CutUp(f, id, message, length) ==
  /\ f \in Seq(AnyPacket) /\ Len(f) \in Nat \ {0}
  /\ \A k \in 1..Len(f) :
       /\ f[k].op = "send" /\ f[k].id = id /\ f[k].message = message
       /\ f[k].total = length
       /\ f[k].first <=> k = 1
       /\ f[k].last <=> k = Len(f)
       /\ f[k].first <=> f[k].from = 1
       /\ f[k].last <=> f[k].from + f[k].bytes - 1 = length
  /\ \A k \in 2..Len(f) : f[k - 1].from + f[k - 1].bytes = f[k].from

LEMMA FragmentsCutUp ==
  ASSUME NEW id \in Ids, NEW message \in Nat \ {0}, NEW length \in Nat \ {0}
  PROVE  CutUp(Fragments(id, message, length), id, message, length)
<1> DEFINE f == Fragments(id, message, length)
           n == Parts(length)
<1>1. /\ n \in Nat \ {0} /\ f \in Seq(AnyPacket) /\ Len(f) = n
      /\ \A k \in 1..n :
           /\ f[k] \in Fragment
           /\ f[k].op = "send" /\ f[k].id = id /\ f[k].message = message
           /\ f[k].total = length
           /\ f[k].first = (k = 1) /\ f[k].last = (k = n)
           /\ f[k].first = (f[k].from = 1)
           /\ f[k].last = (f[k].from + f[k].bytes - 1 = length)
      /\ \A k \in 2..n : f[k - 1].from + f[k - 1].bytes = f[k].from
  BY FragmentsFacts
<1> HIDE DEF f, n
<1>2. CutUp(f, id, message, length)
  BY <1>1 DEF CutUp
<1> QED BY <1>2 DEF f

\* The next message is sent.
LEMMA InOrderSent ==
  ASSUME NEW c \in Seq(AnyPacket), NEW h \in Nat, NEW sent \in Seq(Message), NEW id \in Ids,
         NEW length \in Nat \ {0}, NEW message, message = Len(sent) + 1,
         NEW f, CutUp(f, id, message, length), InOrder(c, h, sent)
  PROVE  InOrder(c \o f, h, Append(sent, [id |-> id, length |-> length]))
<1> DEFINE n == Len(f)
           d == c \o f
           l == Len(c)
           y == [id |-> id, length |-> length]
           more == Append(sent, y)
<1>1. Len(sent) \in Nat /\ message \in Nat \ {0} /\ message = Len(sent) + 1
  OBVIOUS
<1>2. /\ n \in Nat \ {0} /\ f \in Seq(AnyPacket)
      /\ \A k \in 1..n :
           /\ f[k].op = "send" /\ f[k].id = id /\ f[k].message = message
           /\ f[k].total = length
           /\ f[k].first <=> k = 1
           /\ f[k].last <=> k = n
           /\ f[k].first <=> f[k].from = 1
           /\ f[k].last <=> f[k].from + f[k].bytes - 1 = length
      /\ \A k \in 2..n : f[k - 1].from + f[k - 1].bytes = f[k].from
  BY DEF CutUp
<1>3. /\ l \in Nat /\ Len(d) = l + n
      /\ \A k \in 1..l : d[k] = c[k]
      /\ \A k \in (l + 1)..(l + n) : d[k] = f[k - l]
  <2>1. /\ Len(d) = Len(c) + Len(f)
        /\ \A k \in 1..(Len(c) + Len(f)) : d[k] = IF k <= Len(c) THEN c[k] ELSE f[k - Len(c)]
    BY <1>2, ConcatProperties
  <2>2. Len(c) \in Nat /\ Len(f) = n /\ n \in Nat
    BY <1>2
  <2> HIDE DEF d, n, l
  <2>3. l = Len(c) /\ n = Len(f)
    BY DEF n, l
  <2> QED BY <2>1, <2>2, <2>3
<1>4. /\ Len(more) = message /\ more[message] = y /\ \A m \in 1..Len(sent) : more[m] = sent[m]
  <2>1. y \in Message
    BY DEF Message
  <2> QED BY <1>1, <2>1, AppendProperties
<1> HIDE DEF d, l, n, y, more
<1> DEFINE new == (l + 1)..(l + n)
<1>5. l + n \in new /\ \A k \in new : k \in Nat /\ k > l
  BY <1>2, <1>3
<1>6. \A k : k \in 1..Len(d) <=> k \in 1..l \/ k \in new
  BY <1>2, <1>3
<1>7. ASSUME NEW k \in new
      PROVE  /\ d[k].op = "send" /\ d[k].id = id /\ d[k].message = message
             /\ d[k].total = length
             /\ d[k].first <=> k = l + 1
             /\ d[k].last <=> k = l + n
             /\ d[k].first <=> d[k].from = 1
             /\ d[k].last <=> d[k].from + d[k].bytes - 1 = length
             /\ k # l + 1 => /\ k - 1 \in new
                             /\ d[k - 1].from + d[k - 1].bytes = d[k].from
  <2>1. d[k] = f[k - l] /\ k \in Nat
    BY <1>2, <1>3
  <2>2. PICK m \in 1..n : m = k - l
    BY <1>2, <1>3
  <2>3. k = l + m /\ m \in Nat
    BY <1>2, <1>3, <2>1, <2>2
  <2>4. d[k] = f[m]
    BY <2>1, <2>2
  <2>5. k = l + 1 <=> m = 1
    BY <1>3, <2>3
  <2>6. k = l + n <=> m = n
    BY <1>2, <1>3, <2>3
  <2>7. /\ f[m].op = "send" /\ f[m].id = id /\ f[m].message = message
        /\ f[m].total = length
        /\ f[m].first <=> m = 1
        /\ f[m].last <=> m = n
        /\ f[m].first <=> f[m].from = 1
        /\ f[m].last <=> f[m].from + f[m].bytes - 1 = length
    BY <1>2, <2>2
  <2>8. ASSUME k # l + 1
        PROVE  k - 1 \in new /\ d[k - 1].from + d[k - 1].bytes = d[k].from
    <3>1. m \in 2..n /\ k - 1 \in new
      <4>1. n \in Nat /\ l \in Nat
        BY <1>2, <1>3
      <4>2. m # 1
        BY <2>5, <2>8
      <4>3. m \in 2..n
        BY <2>2, <4>1, <4>2
      <4> QED BY <2>3, <4>1, <4>3
    <3>2. d[k - 1] = f[(k - 1) - l] /\ (k - 1) - l = m - 1
      BY <1>2, <1>3, <2>3, <3>1
    <3>3. d[k - 1] = f[m - 1]
      BY <3>2
    <3>4. f[m - 1].from + f[m - 1].bytes = f[m].from
      BY <1>2, <3>1
    <3> QED BY <2>4, <3>1, <3>3, <3>4
  <2> HIDE DEF new
  <2> QED BY <2>4, <2>5, <2>6, <2>7, <2>8
<1> HIDE DEF new
<1>8. \A k : k \in Sending(d) <=> k \in Sending(c) \/ k \in new
  BY <1>3, <1>6, <1>7 DEF Sending, l
<1>9. \A k \in Sending(c) : /\ k \in Nat /\ k <= l /\ d[k] = c[k]
                            /\ k > 1 => d[k - 1] = c[k - 1]
                            /\ c[k].message \in Nat /\ c[k].message <= Len(sent) /\ c[k].message > h
  <2>1. \A k \in Sending(c) : k > 1 => k - 1 \in 1..l
    BY SendingPlaces DEF l
  <2>2. \A k \in Sending(c) : c[k].message \in (h + 1)..Len(sent)
    BY DEF InOrder, Belongs
  <2> QED BY <1>1, <1>3, <2>1, <2>2, SendingPlaces DEF l
<1>10. h <= Len(sent) /\ h <= Len(more)
  BY <1>1, <1>4 DEF InOrder
<1>11. ASSUME NEW k \in Sending(d) PROVE Belongs(d[k], h, more)
  <2>1. CASE k \in Sending(c)
    <3>1. Belongs(c[k], h, sent) /\ d[k] = c[k]
      BY <1>9, <2>1 DEF InOrder
    <3>2. c[k].message \in 1..Len(sent) /\ c[k].message \in (h + 1)..Len(more)
      BY <1>1, <1>4, <1>9, <2>1
    <3> QED BY <1>4, <3>1, <3>2 DEF Belongs
  <2>2. CASE k \in new
    <3>1. Len(more) = message /\ message \in (h + 1)..message /\ more[message] = y
      BY <1>1, <1>4, <1>10
    <3>2. y.id = id /\ y.length = length
      BY DEF y
    <3>3. Len(more) \in Nat
      BY <1>1, <3>1
    <3> QED BY <1>7, <2>2, <3>1, <3>2 DEF Belongs
  <2> QED BY <1>8, <2>1, <2>2
<1>12. ASSUME NEW k \in Sending(d), k > 1, ~d[k].first PROVE Continues(d[k - 1], d[k])
  <2>1. CASE k \in Sending(c)
    BY <1>9, <1>12, <2>1 DEF InOrder
  <2>2. CASE k \in new
    <3>1. k # l + 1 /\ k - 1 \in new /\ k - 1 # l + n
      BY <1>2, <1>3, <1>7, <1>12, <2>2 DEF new
    <3> QED BY <1>7, <2>2, <3>1 DEF Continues
  <2> QED BY <1>8, <2>1, <2>2
<1>14. ASSUME NEW j \in Sending(d), NEW k \in Sending(d), j < k
       PROVE  d[j].message <= d[k].message /\ (d[j].last => d[j].message < d[k].message)
  <2>1. CASE j \in Sending(c) /\ k \in Sending(c)
    BY <1>9, <1>14, <2>1 DEF InOrder
  <2>2. CASE j \in Sending(c) /\ k \in new
    BY <1>1, <1>7, <1>9, <2>2
  <2>3. CASE j \in new /\ k \in new
    <3>1. j # l + n
      BY <1>2, <1>3, <1>14, <2>3 DEF new
    <3> QED BY <1>1, <1>7, <2>3, <3>1
  <2>4. ~(j \in new /\ k \in Sending(c))
    <3> SUFFICES ASSUME j \in new, k \in Sending(c) PROVE FALSE
      OBVIOUS
    <3>1. j \in Nat /\ j > l /\ k \in Nat /\ k <= l
      BY <1>5, <1>9
    <3> QED BY <1>3, <1>14, <3>1
  <2> QED BY <1>8, <2>1, <2>2, <2>3, <2>4
<1>15. ASSUME NEW m \in (h + 1)..Len(more)
       PROVE  \E k \in Sending(d) : d[k].message = m /\ d[k].last
  <2>1. CASE m = message
    <3>1. l + n \in new /\ l + n \in Sending(d)
      BY <1>5, <1>8
    <3>2. d[l + n].message = message /\ d[l + n].last
      BY <1>7, <3>1
    <3> QED BY <2>1, <3>1, <3>2
  <2>2. CASE m # message
    <3>1. m \in (h + 1)..Len(sent)
      BY <1>1, <1>4, <2>2
    <3>2. PICK k \in Sending(c) : c[k].message = m /\ c[k].last
      BY <3>1 DEF InOrder
    <3> QED BY <1>8, <1>9, <3>2
  <2> QED BY <2>1, <2>2
<1>16. InOrder(d, h, more)
  BY <1>10, <1>11, <1>12, <1>14, <1>15 DEF InOrder
<1> QED BY <1>16 DEF d, more, y

LEMMA SendingTail ==
  ASSUME NEW c \in Seq(AnyPacket), c # <<>>
  PROVE  LET d == Tail(c) IN
           /\ Len(c) \in Nat /\ Head(c) = c[1]
           /\ \A k \in Sending(d) : /\ k \in Nat /\ k >= 1 /\ k + 1 \in Sending(c)
                                   /\ d[k] = c[k + 1]
           /\ \A k \in Sending(d) : k > 1 => d[k - 1] = c[k]
           /\ \A k \in Sending(c) : k # 1 => k - 1 \in Sending(d) /\ d[k - 1] = c[k]
           /\ d # <<>> => d[1] = c[2] /\ (d[1].op = "send" => 2 \in Sending(c))
           /\ Head(c).op = "send" <=> 1 \in Sending(c)
<1> DEFINE d == Tail(c)
<1>1. /\ Len(c) \in Nat /\ Len(c) >= 1 /\ Len(d) = Len(c) - 1 /\ Head(c) = c[1]
      /\ d \in Seq(AnyPacket) /\ \A k \in 1..Len(d) : d[k] = c[k + 1]
  BY HeadTailProperties
<1>2. d # <<>> => Len(d) >= 1
  BY <1>1
<1> HIDE DEF d
<1>3. \A k \in 1..Len(d) : k \in Nat /\ k >= 1 /\ k + 1 \in 1..Len(c)
  BY <1>1
<1>4. \A k \in 1..Len(d) : k > 1 => d[k - 1] = c[k]
  <2>1. \A k \in 1..Len(d) : k > 1 => k - 1 \in 1..Len(d) /\ (k - 1) + 1 = k
    BY <1>1
  <2> QED BY <1>1, <2>1
<1>5. \A k \in 1..Len(c) : k # 1 => k - 1 \in 1..Len(d) /\ d[k - 1] = c[k]
  <2>1. \A k \in 1..Len(c) : k # 1 => k - 1 \in 1..Len(d) /\ (k - 1) + 1 = k
    BY <1>1
  <2> QED BY <1>1, <2>1
<1>6. d # <<>> => 1 \in 1..Len(d) /\ 2 \in 1..Len(c) /\ d[1] = c[2]
  BY <1>1, <1>2, <1>5
<1>7. 1 \in 1..Len(c)
  BY <1>1
<1>8. \A k \in Sending(d) : /\ k \in Nat /\ k >= 1 /\ k + 1 \in Sending(c)
                           /\ d[k] = c[k + 1]
  BY <1>1, <1>3 DEF Sending
<1>9. \A k \in Sending(c) : k # 1 => k - 1 \in Sending(d) /\ d[k - 1] = c[k]
  BY <1>5 DEF Sending
<1>10. \A k \in Sending(d) : k > 1 => d[k - 1] = c[k]
  BY <1>4 DEF Sending
<1>11. d # <<>> => d[1] = c[2] /\ (d[1].op = "send" => 2 \in Sending(c))
  BY <1>6 DEF Sending
<1>12. Head(c).op = "send" <=> 1 \in Sending(c)
  BY <1>1, <1>7 DEF Sending
<1> QED BY <1>1, <1>8, <1>9, <1>10, <1>11, <1>12 DEF d

\* The head arrives, and of the messages those up to the h2-th have been handled.
LEMMA InOrderPopped ==
  ASSUME NEW c \in Seq(AnyPacket), c # <<>>, NEW h \in Nat, NEW h2 \in Nat,
         NEW sent \in Seq(Message), InOrder(c, h, sent), h <= h2, h2 <= Len(sent),
         \A k \in Sending(c) : k # 1 => c[k].message > h2,
         1 \in Sending(c) /\ c[1].last => c[1].message <= h2
  PROVE  InOrder(Tail(c), h2, sent)
<1> DEFINE d == Tail(c)
<1>1. /\ \A k \in Sending(d) : /\ k \in Nat /\ k >= 1 /\ k + 1 \in Sending(c)
                              /\ d[k] = c[k + 1]
      /\ \A k \in Sending(d) : k > 1 => d[k - 1] = c[k]
      /\ \A k \in Sending(c) : k # 1 => k - 1 \in Sending(d) /\ d[k - 1] = c[k]
  BY SendingTail
<1> HIDE DEF d
<1>2. \A k \in Sending(c) : c[k].message \in Nat /\ k \in Nat
  BY SendingPlaces
<1>3. Len(sent) \in Nat
  OBVIOUS
<1>4. ASSUME NEW k \in Sending(d) PROVE Belongs(d[k], h2, sent)
  <2>1. k + 1 \in Sending(c) /\ d[k] = c[k + 1] /\ k + 1 # 1
    BY <1>1
  <2>2. Belongs(c[k + 1], h, sent) /\ c[k + 1].message > h2 /\ c[k + 1].message \in Nat
    BY <1>2, <2>1 DEF InOrder
  <2>3. c[k + 1].message \in (h2 + 1)..Len(sent)
    <3>1. c[k + 1].message \in (h + 1)..Len(sent)
      BY <2>2 DEF Belongs
    <3> QED BY <1>3, <2>2, <3>1
  <2> QED BY <2>1, <2>2, <2>3 DEF Belongs
<1>5. ASSUME NEW k \in Sending(d), k > 1, ~d[k].first PROVE Continues(d[k - 1], d[k])
  <2>1. k + 1 \in Sending(c) /\ k + 1 > 1 /\ (k + 1) - 1 = k /\ d[k] = c[k + 1] /\ d[k - 1] = c[k]
    BY <1>1, <1>5
  <2>2. ~c[k + 1].first => Continues(c[(k + 1) - 1], c[k + 1])
    BY <2>1 DEF InOrder
  <2> QED BY <1>5, <2>1, <2>2
<1>6. ASSUME NEW j \in Sending(d), NEW k \in Sending(d), j < k
      PROVE  d[j].message <= d[k].message /\ (d[j].last => d[j].message < d[k].message)
  <2>1. /\ j + 1 \in Sending(c) /\ k + 1 \in Sending(c) /\ j + 1 < k + 1
        /\ d[j] = c[j + 1] /\ d[k] = c[k + 1]
    BY <1>1, <1>6
  <2> QED BY <2>1 DEF InOrder
<1>7. ASSUME NEW m \in (h2 + 1)..Len(sent)
      PROVE  \E k \in Sending(d) : d[k].message = m /\ d[k].last
  <2>1. m \in (h + 1)..Len(sent) /\ m > h2 /\ m \in Nat
    BY <1>3
  <2>2. PICK k \in Sending(c) : c[k].message = m /\ c[k].last
    BY <2>1 DEF InOrder
  <2>3. k # 1
    BY <2>1, <2>2
  <2> QED BY <1>1, <2>2, <2>3
<1>8. InOrder(d, h2, sent)
  BY <1>4, <1>5, <1>6, <1>7 DEF InOrder
<1> QED BY <1>8 DEF d

\* The last fragment of a message that arrives is that of the next to be handled.
LEMMA NextMessage ==
  ASSUME NEW c \in Seq(AnyPacket), c # <<>>, NEW h \in Nat, NEW sent \in Seq(Message),
         InOrder(c, h, sent), Head(c).op = "send", Head(c).last
  PROVE  /\ Head(c).message = h + 1 /\ h + 1 <= Len(sent)
         /\ \A k \in Sending(c) : k # 1 => c[k].message > h + 1
<1>1. 1 \in Sending(c) /\ Head(c) = c[1] /\ Len(sent) \in Nat
  BY SendingTail
<1>2. \A k \in Sending(c) : c[k].message \in Nat /\ k \in Nat /\ k >= 1
  BY SendingPlaces
<1>3. c[1].message \in (h + 1)..Len(sent)
  BY <1>1 DEF InOrder, Belongs
<1>4. \A k \in Sending(c) : k # 1 => c[k].message > c[1].message
  <2> SUFFICES ASSUME NEW k \in Sending(c), k # 1 PROVE c[k].message > c[1].message
    OBVIOUS
  <2>1. 1 < k
    BY <1>2
  <2>2. c[1].message < c[k].message
    BY <1>1, <2>1 DEF InOrder
  <2> QED BY <1>1, <1>2, <2>2
<1>5. PICK k \in Sending(c) : c[k].message = h + 1
  <2>1. h + 1 \in (h + 1)..Len(sent)
    BY <1>1, <1>3
  <2> QED BY <2>1 DEF InOrder
<1>6. k = 1
  <2> SUFFICES ASSUME k # 1 PROVE FALSE
    OBVIOUS
  <2>1. c[1].message < h + 1
    BY <1>1, <1>2, <1>4, <1>5
  <2> QED BY <1>1, <1>2, <1>3, <2>1
<1> QED BY <1>1, <1>3, <1>4, <1>5, <1>6

LEMMA InOrderArrives ==
  ASSUME NEW c \in Seq(AnyPacket), c # <<>>, NEW h \in Nat, NEW sent \in Seq(Message),
         InOrder(c, h, sent)
  PROVE  /\ Head(c).op = "send" /\ Head(c).last => InOrder(Tail(c), h + 1, sent)
         /\ ~(Head(c).op = "send" /\ Head(c).last) => InOrder(Tail(c), h, sent)
<1>1. /\ Head(c).op = "send" <=> 1 \in Sending(c)
      /\ Head(c) = c[1]
  BY SendingTail
<1>2. CASE Head(c).op = "send" /\ Head(c).last
  <2>1. /\ Head(c).message = h + 1 /\ h + 1 <= Len(sent)
        /\ \A k \in Sending(c) : k # 1 => c[k].message > h + 1
    BY <1>2, NextMessage
  <2>2. h + 1 \in Nat /\ h <= h + 1 /\ c[1].message <= h + 1
    BY <1>1, <2>1
  <2>3. InOrder(Tail(c), h + 1, sent)
    BY <2>1, <2>2, InOrderPopped
  <2> QED BY <1>2, <2>3
<1>3. CASE ~(Head(c).op = "send" /\ Head(c).last)
  <2>1. h <= Len(sent) /\ \A k \in Sending(c) : c[k].message > h
    <3>1. h <= Len(sent) /\ \A k \in Sending(c) : c[k].message \in (h + 1)..Len(sent)
      BY DEF InOrder, Belongs
    <3> QED BY <3>1
  <2>2. ~(1 \in Sending(c) /\ c[1].last) /\ h <= h
    BY <1>1, <1>3
  <2>3. InOrder(Tail(c), h, sent)
    BY <2>1, <2>2, InOrderPopped
  <2> QED BY <1>3, <2>3
<1> QED BY <1>2, <1>3

LEMMA BuildingGrows ==
  ASSUME NEW p \in Fragment, NEW entry, entry.inPacket \in Seq(Piece),
         p.first => p.from = 1,
         ~p.first => Building(entry.inPacket, p.from, p.message)
  PROVE  Building(Assembled(entry, p), p.from + p.bytes, p.message)
<1> DEFINE x == [message |-> p.message, from |-> p.from, bytes |-> p.bytes]
<1>1. x \in Piece /\ x.message = p.message /\ x.from = p.from /\ x.bytes = p.bytes
  BY PacketFacts DEF Piece
<1> HIDE DEF x
<1>2. CASE p.first
  <2>1. Assembled(entry, p) = <<x>>
    BY <1>2 DEF Assembled, x
  <2> QED BY <1>1, <1>2, <2>1 DEF Building
<1>3. CASE ~p.first
  <2> DEFINE q == entry.inPacket
             r == Append(q, x)
  <2>1. Assembled(entry, p) = r
    BY <1>3 DEF Assembled, x
  <2>2. /\ Len(q) \in Nat /\ Len(r) = Len(q) + 1 /\ r[Len(q) + 1] = x
        /\ \A k \in 1..Len(q) : r[k] = q[k]
    BY <1>1, AppendProperties
  <2>3. Building(q, p.from, p.message) /\ Len(q) # 0
    BY <1>3 DEF Building
  <2>4. q \in Seq(Piece)
    OBVIOUS
  <2> HIDE DEF q, r
  <2>5. r # <<>> /\ 1 \in 1..Len(q) /\ Len(q) \in 1..Len(q)
    BY <2>2, <2>3
  <2>6. \A k \in 1..Len(r) : r[k].message = p.message
    <3>1. \A k \in 1..Len(r) : k \in 1..Len(q) \/ k = Len(q) + 1
      BY <2>2
    <3> QED BY <1>1, <2>2, <2>3, <3>1 DEF Building
  <2>7. \A k \in 2..Len(r) : r[k].from = r[k - 1].from + r[k - 1].bytes
    <3> SUFFICES ASSUME NEW k \in 2..Len(r)
                 PROVE  r[k].from = r[k - 1].from + r[k - 1].bytes
      OBVIOUS
    <3>1. k - 1 \in 1..Len(q) /\ r[k - 1] = q[k - 1]
      BY <2>2
    <3>2. CASE k = Len(q) + 1
      <4>1. k - 1 = Len(q) /\ r[k] = x
        BY <2>2, <3>2
      <4>2. q[Len(q)].from + q[Len(q)].bytes = p.from
        BY <2>3 DEF Building
      <4> QED BY <1>1, <3>1, <4>1, <4>2
    <3>3. CASE k # Len(q) + 1
      <4>1. k \in 2..Len(q) /\ k \in 1..Len(q)
        BY <2>2, <3>3
      <4> QED BY <2>2, <2>3, <3>1, <4>1 DEF Building
    <3> QED BY <3>2, <3>3
  <2>8. r[1].from = 1 /\ r[Len(r)].from + r[Len(r)].bytes = p.from + p.bytes
    <3>1. r[1] = q[1] /\ q[1].from = 1
      BY <2>2, <2>3, <2>5 DEF Building
    <3> QED BY <1>1, <2>2, <3>1
  <2> QED BY <2>1, <2>5, <2>6, <2>7, <2>8 DEF Building
<1> QED BY <1>2, <1>3

LEMMA WholeWhenBuilt ==
  ASSUME NEW pieces \in Seq(Piece), NEW n \in Nat, NEW message, NEW length \in Nat,
         Building(pieces, n, message), n - 1 = length
  PROVE  Whole(pieces, message, length)
<1>1. PICK x \in Piece : x = pieces[Len(pieces)]
  BY DEF Building
<1>2. x.from \in Nat /\ x.bytes \in Nat
  BY DEF Piece
<1>3. x.from + x.bytes = n
  BY <1>1 DEF Building
<1>4. x.from + x.bytes - 1 = length
  BY <1>2, <1>3
<1>5. /\ \A k \in 1..Len(pieces) : pieces[k].message = message
      /\ pieces[1].from = 1
      /\ \A k \in 2..Len(pieces) : pieces[k].from = pieces[k - 1].from + pieces[k - 1].bytes
  BY DEF Building
<1> QED BY <1>1, <1>4, <1>5 DEF Whole

LEMMA HeadPushed ==
  ASSUME NEW c \in Seq(AnyPacket), NEW x \in AnyPacket, x.op # "send", NEW array,
         HeadContinues(c, array)
  PROVE  HeadContinues(Append(c, x), array)
<1> DEFINE d == Append(c, x)
<1>1. /\ Len(c) \in Nat /\ Len(d) = Len(c) + 1 /\ d[Len(c) + 1] = x
      /\ \A k \in 1..Len(c) : d[k] = c[k]
  BY AppendProperties
<1>2. c # <<>> => Len(c) >= 1
  OBVIOUS
<1> HIDE DEF d
<1>3. CASE c = <<>>
  <2>1. d[1] = x
    BY <1>1, <1>3
  <2> QED BY <2>1 DEF HeadContinues, d
<1>4. CASE c # <<>>
  <2>1. d[1] = c[1]
    BY <1>1, <1>2, <1>4
  <2> QED BY <1>4, <2>1 DEF HeadContinues, d
<1> QED BY <1>3, <1>4

LEMMA HeadSent ==
  ASSUME NEW c \in Seq(AnyPacket), NEW f, NEW id, NEW message, NEW length, NEW array,
         CutUp(f, id, message, length), HeadContinues(c, array)
  PROVE  HeadContinues(c \o f, array)
<1> DEFINE d == c \o f
<1>1. f \in Seq(AnyPacket) /\ Len(f) \in Nat \ {0}
  BY DEF CutUp
<1>2. /\ Len(c) \in Nat /\ Len(d) = Len(c) + Len(f)
      /\ \A k \in 1..(Len(c) + Len(f)) : d[k] = IF k <= Len(c) THEN c[k] ELSE f[k - Len(c)]
  BY <1>1, ConcatProperties
<1>3. c # <<>> <=> Len(c) >= 1
  OBVIOUS
<1> HIDE DEF d
<1>4. 1 \in 1..(Len(c) + Len(f)) /\ 1 \in 1..Len(f)
  BY <1>1, <1>2
<1>5. CASE c = <<>>
  <2>1. Len(c) = 0
    BY <1>2, <1>3, <1>5
  <2>2. d[1] = f[1]
    BY <1>2, <1>4, <2>1
  <2>3. f[1].first
    BY <1>4 DEF CutUp
  <2> QED BY <2>2, <2>3 DEF HeadContinues, d
<1>6. CASE c # <<>>
  <2>1. d[1] = c[1]
    BY <1>2, <1>3, <1>4, <1>6
  <2> QED BY <1>6, <2>1 DEF HeadContinues, d
<1> QED BY <1>5, <1>6

\* Behind a fragment that is not the last comes the next one; nothing else comes
\* before a fragment that is not the first.
LEMMA HeadFollows ==
  ASSUME NEW c \in Seq(AnyPacket), c # <<>>, NEW h, NEW sent, InOrder(c, h, sent),
         Tail(c) # <<>>, Tail(c)[1].op = "send", ~Tail(c)[1].first
  PROVE  Continues(Head(c), Tail(c)[1])
<1>1. Tail(c)[1] = c[2] /\ 2 \in Sending(c) /\ Head(c) = c[1]
  BY SendingTail
<1>2. 2 > 1 /\ 2 - 1 = 1
  OBVIOUS
<1>3. Continues(c[2 - 1], c[2])
  BY <1>1, <1>2 DEF InOrder
<1> QED BY <1>1, <1>2, <1>3

LEMMA HeadPopped ==
  ASSUME NEW c \in Seq(AnyPacket), c # <<>>, NEW h, NEW sent, InOrder(c, h, sent),
         Head(c).op # "send" \/ Head(c).last, NEW array
  PROVE  HeadContinues(Tail(c), array)
BY HeadFollows DEF HeadContinues, Continues

LEMMA HeadGrows ==
  ASSUME NEW c \in Seq(AnyPacket), c # <<>>, NEW h, NEW sent, InOrder(c, h, sent),
         NEW array, NEW pieces, NEW p, p = Head(c),
         Building(pieces, p.from + p.bytes, p.message),
         array[p.id].inPacket = pieces
  PROVE  HeadContinues(Tail(c), array)
<1> SUFFICES ASSUME Tail(c) # <<>>, Tail(c)[1].op = "send", ~Tail(c)[1].first
             PROVE  Building(array[Tail(c)[1].id].inPacket, Tail(c)[1].from, Tail(c)[1].message)
  BY DEF HeadContinues
<1>1. Continues(p, Tail(c)[1])
  BY HeadFollows
<1>2. p.message = Tail(c)[1].message /\ p.id = Tail(c)[1].id /\ p.from + p.bytes = Tail(c)[1].from
  BY <1>1 DEF Continues
<1> QED BY <1>2

LEMMA FragmentFindsConnection ==
  ASSUME TablesInv, Conversations, NEW s \in Side, channel[Peer(s)] # <<>>,
         Head(channel[Peer(s)]).op = "send"
  PROVE  Live(table[s], Head(channel[Peer(s)]).id)
<1> DEFINE r == Peer(s)
           c == channel[r]
<1>0. PICK id : id = Head(c).id
  OBVIOUS
<1>1. r \in Side /\ Peer(r) = s
  BY Sides
<1>2. c \in Seq(AnyPacket) /\ Head(c) = c[1] /\ 1 \in 1..Len(c) /\ c[1] \in AnyPacket
  BY <1>1, EmptySeq DEF TablesInv
<1>3. id \in Ids /\ 1 \in Of(c, id) /\ 1 \in At(c, "send", id)
  BY <1>0, <1>2, PacketFacts DEF Of, At
<1>4. id % 2 = s \/ id % 2 = r
  BY <1>3, IdFacts DEF Side, Peer
<1>5. CASE id % 2 = s
  <2>1. Talk(id, Status(s, id), closed[s], Status(r, id), closed[r], channel[s], c)
    BY <1>3, <1>5 DEF Conversations, TalkBetween, mySideConnectionId
  <2>2. Given(id, Status(s, id), Status(r, id), closed[r], At(channel[s], "new", id), Of(c, id))
    BY <2>1 DEF Talk, Conversation
  <2>3. Status(s, id) # "unused"
    BY <1>3, <2>2 DEF Given
  <2> QED BY <1>0, <2>3 DEF Status, Live
<1>6. CASE id % 2 = r
  <2>1. Talk(id, Status(r, id), closed[r], Status(s, id), closed[s], c, channel[s])
    BY <1>1, <1>3, <1>6 DEF Conversations, TalkBetween, mySideConnectionId
  <2>2. OnConnection(Status(s, id), At(c, "new", id), At(c, "close", id), At(c, "send", id))
    BY <2>1 DEF Talk, Conversation
  <2>3. \A i \in At(c, "new", id) : ~(i < 1)
    BY <1>2 DEF At
  <2>4. Status(s, id) # "unused"
    BY <1>3, <2>2, <2>3 DEF OnConnection
  <2> QED BY <1>0, <2>4 DEF Status, Live
<1> QED BY <1>4, <1>5, <1>6

\* The types of what Receiving is about.
LEMMA ReceivingTypes ==
  ASSUME TablesInv, NEW s \in Side
  PROVE  /\ Peer(s) \in Side
         /\ channel[Peer(s)] \in Seq(AnyPacket) /\ calls[Peer(s)] \in Seq(Message)
         /\ handled[s] \in Seq(Received) /\ Len(handled[s]) \in Nat
BY Sides DEF TablesInv

\* Nothing arrives and nothing is sent to s.
LEMMA ReceiverKept ==
  ASSUME TablesInv, Conversations, StreamInv, NEW s \in Side,
         channel'[Peer(s)] = channel[Peer(s)], handled'[s] = handled[s],
         calls'[Peer(s)] = calls[Peer(s)],
         \A i \in Ids : Live(table[s], i) => table'[s].array[i].inPacket = table[s].array[i].inPacket
  PROVE  Receiving(s)'
<1> DEFINE c == channel[Peer(s)]
<1>1. Peer(s) \in Side /\ c \in Seq(AnyPacket) /\ Receiving(s)
  BY ReceivingTypes DEF StreamInv
<1>2. HeadContinues(c, table'[s].array)
  <2>1. CASE c = <<>> \/ c[1].op # "send"
    BY <2>1 DEF HeadContinues
  <2>2. CASE c # <<>> /\ c[1].op = "send"
    <3>1. c[1] = Head(c) /\ c[1].id \in Ids
      <4>1. c[1] = Head(c) /\ c[1] \in AnyPacket
        BY <1>1, <2>2
      <4> QED BY <4>1, PacketFacts
    <3>2. Live(table[s], c[1].id)
      BY <2>2, <3>1, FragmentFindsConnection
    <3>3. table'[s].array[c[1].id].inPacket = table[s].array[c[1].id].inPacket
      BY <3>1, <3>2
    <3>4. HeadContinues(c, table[s].array)
      BY <1>1 DEF Receiving
    <3> QED BY <3>3, <3>4 DEF HeadContinues
  <2> QED BY <2>1, <2>2
<1> QED BY <1>1, <1>2 DEF Receiving

\* The other side sends s a packet that is not a fragment.
LEMMA ReceiverPushed ==
  ASSUME TablesInv, StreamInv, NEW s \in Side, NEW x \in AnyPacket, x.op # "send",
         channel'[s] = Append(channel[s], x),
         handled'[Peer(s)] = handled[Peer(s)], calls'[s] = calls[s],
         table'[Peer(s)] = table[Peer(s)]
  PROVE  Receiving(Peer(s))'
<1>1. Peer(s) \in Side /\ Peer(Peer(s)) = s
  BY Sides
<1>2. /\ channel[s] \in Seq(AnyPacket) /\ calls[s] \in Seq(Message)
      /\ Len(handled[Peer(s)]) \in Nat
  BY <1>1, ReceivingTypes
<1>3. /\ InOrder(channel[s], Len(handled[Peer(s)]), calls[s])
      /\ HeadContinues(channel[s], table[Peer(s)].array)
  BY <1>1 DEF StreamInv, Receiving
<1>4. /\ InOrder(Append(channel[s], x), Len(handled[Peer(s)]), calls[s])
      /\ HeadContinues(Append(channel[s], x), table[Peer(s)].array)
  BY <1>2, <1>3, InOrderPushed, HeadPushed
<1> QED BY <1>1, <1>4 DEF Receiving

\* A packet that is not a fragment arrives at s.
LEMMA ReceiverPopped ==
  ASSUME TablesInv, StreamInv, NEW s \in Side,
         channel[Peer(s)] # <<>>, Head(channel[Peer(s)]).op # "send",
         channel'[Peer(s)] = Tail(channel[Peer(s)]),
         handled'[s] = handled[s], calls'[Peer(s)] = calls[Peer(s)]
  PROVE  Receiving(s)'
<1> DEFINE c == channel[Peer(s)]
<1>1. /\ c \in Seq(AnyPacket) /\ calls[Peer(s)] \in Seq(Message)
      /\ Len(handled[s]) \in Nat
      /\ InOrder(c, Len(handled[s]), calls[Peer(s)])
  BY ReceivingTypes DEF StreamInv, Receiving
<1>2. InOrder(Tail(c), Len(handled[s]), calls[Peer(s)])
  BY <1>1, InOrderArrives
<1>3. HeadContinues(Tail(c), table'[s].array)
  BY <1>1, HeadPopped
<1> QED BY <1>2, <1>3 DEF Receiving

LEMMA StreamBoth ==
  ASSUME NEW s \in Side, Receiving(s)', Receiving(Peer(s))'
  PROVE  StreamInv'
BY Sides DEF StreamInv

LEMMA StreamNew ==
  ASSUME TablesInv, Conversations, StreamInv, NEW s \in Side, NewConnection(s)
  PROVE  StreamInv'
<1> DEFINE r == Peer(s)
<1>1. PICK id \in Ids :
        /\ \A i \in Ids : Live(table[s], i) => table'[s].array[i] = table[s].array[i]
        /\ channel'[s] = Append(channel[s], Control("new", id))
        /\ table'[r] = table[r] /\ channel'[r] = channel[r]
        /\ calls' = calls /\ handled' = handled
  BY NewConnectionEffect
<1>2. Control("new", id) \in AnyPacket /\ Control("new", id).op # "send"
  BY ControlFacts
<1>3. Receiving(r)'
  BY <1>1, <1>2, ReceiverPushed
<1>4. Receiving(s)'
  BY <1>1, ReceiverKept
<1> QED BY <1>3, <1>4, StreamBoth

LEMMA StreamCall ==
  ASSUME TablesInv, Conversations, StreamInv, NEW s \in Side, NEW id \in Ids, Call(s, id)
  PROVE  StreamInv'
<1> DEFINE r == Peer(s)
<1>0. PICK message : message = Len(calls[s]) + 1
  OBVIOUS
<1>1. PICK length : length = Lengths[message]
  OBVIOUS
<1>2. PICK f : f = Fragments(id, message, length)
  OBVIOUS
<1>3. /\ message \in Nat \ {0} /\ length \in Nat \ {0}
      /\ calls'[s] = Append(calls[s], [id |-> id, length |-> length])
      /\ channel'[s] = channel[s] \o f
      /\ channel'[r] = channel[r] /\ calls'[r] = calls[r]
      /\ table' = table /\ handled' = handled
  BY <1>0, <1>1, <1>2, CallEffect
<1>4. CutUp(f, id, message, length)
  BY <1>2, <1>3, FragmentsCutUp
<1>5. r \in Side /\ Peer(r) = s
  BY Sides
<1>6. /\ channel[s] \in Seq(AnyPacket) /\ calls[s] \in Seq(Message) /\ Len(handled[r]) \in Nat
      /\ InOrder(channel[s], Len(handled[r]), calls[s])
      /\ HeadContinues(channel[s], table[r].array)
  BY <1>5, ReceivingTypes DEF StreamInv, Receiving
<1>7. InOrder(channel'[s], Len(handled[r]), calls'[s])
  BY <1>0, <1>3, <1>4, <1>6, InOrderSent
<1>8. HeadContinues(channel'[s], table[r].array)
  BY <1>3, <1>4, <1>6, HeadSent
<1>9. Receiving(r)'
  BY <1>3, <1>5, <1>7, <1>8 DEF Receiving
<1>10. Receiving(s)'
  BY <1>3, ReceiverKept
<1> QED BY <1>9, <1>10, StreamBoth

LEMMA StreamGiveUp ==
  ASSUME TablesInv, Conversations, StreamInv, NEW s \in Side, NEW id \in Ids,
         NEW op \in {"close", "reject"},
         \/ op = "close" /\ Close(s, id)
         \/ op = "reject" /\ Reject(s, id)
  PROVE  StreamInv'
<1>1. /\ channel'[s] = Append(channel[s], Control(op, id))
      /\ channel'[Peer(s)] = channel[Peer(s)]
      /\ table' = table /\ calls' = calls /\ handled' = handled
  BY GiveUpEffect
<1>2. Control(op, id) \in AnyPacket /\ Control(op, id).op # "send"
  BY ControlFacts
<1>3. Receiving(Peer(s))'
  BY <1>1, <1>2, ReceiverPushed
<1>4. Receiving(s)'
  BY <1>1, ReceiverKept
<1> QED BY <1>3, <1>4, StreamBoth

LEMMA StreamProcessNew ==
  ASSUME TablesInv, Conversations, StreamInv, NEW s \in Side, ProcessNew(s)
  PROVE  StreamInv'
<1>0. PICK id : id = Head(channel[Peer(s)]).id
  OBVIOUS
<1>1. /\ Arrives(s, "new")
      /\ channel'[Peer(s)] = Tail(channel[Peer(s)])
      /\ channel'[s] = Append(channel[s], Control("accept", id))
      /\ table'[Peer(s)] = table[Peer(s)]
      /\ calls' = calls /\ handled' = handled
  BY <1>0, ProcessNewEffect
<1>2. channel[Peer(s)] # <<>> /\ Head(channel[Peer(s)]).op = "new" /\ id \in Ids
  BY <1>0, <1>1, ArrivesFacts
<1>3. Control("accept", id) \in AnyPacket /\ Control("accept", id).op # "send"
  BY <1>2, ControlFacts
<1>4. Receiving(Peer(s))'
  BY <1>1, <1>3, ReceiverPushed
<1>5. Receiving(s)'
  BY <1>1, <1>2, ReceiverPopped
<1> QED BY <1>4, <1>5, StreamBoth

\* ProcessAccept and ProcessRelease.
LEMMA StreamProcess ==
  ASSUME TablesInv, Conversations, StreamInv, NEW s \in Side,
         channel[Peer(s)] # <<>>, Head(channel[Peer(s)]).op # "send",
         channel'[Peer(s)] = Tail(channel[Peer(s)]), channel'[s] = channel[s],
         table'[Peer(s)] = table[Peer(s)], calls' = calls, handled' = handled
  PROVE  StreamInv'
<1>1. Receiving(s)'
  BY ReceiverPopped
<1>2. Peer(s) \in Side /\ Peer(Peer(s)) = s
  BY Sides
<1>3. Receiving(Peer(s))'
  BY <1>2, ReceiverKept
<1> QED BY <1>1, <1>3, StreamBoth

LEMMA StreamProcessSend ==
  ASSUME TablesInv, Conversations, StreamInv, NEW s \in Side, ProcessSend(s)
  PROVE  /\ StreamInv'
         /\ handled'[Peer(s)] = handled[Peer(s)] /\ calls' = calls
         /\ \/ handled'[s] = handled[s]
            \/ \E id, pieces :
                 /\ handled'[s] = Append(handled[s], [id |-> id, pieces |-> pieces])
                 /\ Len(handled[s]) + 1 <= Len(calls[Peer(s)])
                 /\ id = calls[Peer(s)][Len(handled[s]) + 1].id
                 /\ Whole(pieces, Len(handled[s]) + 1, calls[Peer(s)][Len(handled[s]) + 1].length)
<1>0. PICK p : p = Head(channel[Peer(s)])
  OBVIOUS
<1>1. PICK pieces : pieces = Assembled(table[s].array[p.id], p)
  OBVIOUS
<1>2. PICK c : c = channel[Peer(s)]
  OBVIOUS
<1>3. /\ Arrives(s, "send") /\ p \in Fragment
      /\ pieces \in Seq(Piece)
      /\ table'[s].array[p.id].inPacket = IF p.last THEN NoPacket ELSE pieces
      /\ p.last => handled'[s] = Append(handled[s], [id |-> p.id, pieces |-> pieces])
      /\ ~p.last => handled'[s] = handled[s]
      /\ handled'[Peer(s)] = handled[Peer(s)]
      /\ channel'[Peer(s)] = Tail(c) /\ channel'[s] = channel[s]
      /\ table'[Peer(s)] = table[Peer(s)] /\ calls' = calls
  BY <1>0, <1>1, <1>2, ProcessSendEffect
<1>4. c # <<>> /\ p.op = "send" /\ p.id \in Ids
  BY <1>0, <1>2, <1>3, ArrivesFacts
<1>5. /\ c \in Seq(AnyPacket) /\ calls[Peer(s)] \in Seq(Message)
      /\ handled[s] \in Seq(Received) /\ Len(handled[s]) \in Nat
      /\ InOrder(c, Len(handled[s]), calls[Peer(s)])
      /\ HeadContinues(c, table[s].array)
  BY <1>2, ReceivingTypes DEF StreamInv, Receiving
<1>6. p = c[1] /\ 1 \in Sending(c)
  BY <1>0, <1>2, <1>4, <1>5, SendingTail
<1>7. Belongs(p, Len(handled[s]), calls[Peer(s)])
  BY <1>5, <1>6 DEF InOrder
<1>8. Building(pieces, p.from + p.bytes, p.message)
  <2>1. p.first => p.from = 1
    BY <1>7 DEF Belongs
  <2>2. ~p.first => Building(table[s].array[p.id].inPacket, p.from, p.message)
    BY <1>4, <1>5, <1>6 DEF HeadContinues
  <2>3. table[s].array[p.id].inPacket \in Seq(Piece)
    BY <1>4, TableIn DEF Entry, Piece
  <2> QED BY <1>1, <1>3, <2>1, <2>2, <2>3, BuildingGrows
<1>9. Receiving(Peer(s))'
  <2>1. Peer(s) \in Side /\ Peer(Peer(s)) = s
    BY Sides
  <2> QED BY <1>3, <2>1, ReceiverKept
<1>10. CASE p.last
  <2>1. handled'[s] = Append(handled[s], [id |-> p.id, pieces |-> pieces])
    BY <1>3, <1>10
  <2>2. Len(handled'[s]) = Len(handled[s]) + 1
    BY <1>5, <2>1
  <2>3. /\ p.message = Len(handled[s]) + 1 /\ Len(handled[s]) + 1 <= Len(calls[Peer(s)])
        /\ InOrder(Tail(c), Len(handled[s]) + 1, calls[Peer(s)])
    BY <1>0, <1>2, <1>4, <1>5, <1>10, NextMessage, InOrderArrives
  <2>4. HeadContinues(Tail(c), table'[s].array)
    BY <1>0, <1>2, <1>4, <1>5, <1>10, HeadPopped
  <2>5. Receiving(s)'
    BY <1>3, <2>2, <2>3, <2>4 DEF Receiving
  <2>6. /\ p.id = calls[Peer(s)][p.message].id
        /\ p.total = calls[Peer(s)][p.message].length
        /\ p.from + p.bytes - 1 = p.total
    BY <1>7, <1>10 DEF Belongs
  <2>7. Whole(pieces, p.message, p.total)
    BY <1>3, <1>8, <2>6, PacketFacts, WholeWhenBuilt
  <2> QED BY <1>3, <1>9, <2>1, <2>3, <2>5, <2>6, <2>7, StreamBoth
<1>11. CASE ~p.last
  <2>1. InOrder(Tail(c), Len(handled[s]), calls[Peer(s)])
    BY <1>0, <1>2, <1>4, <1>5, <1>11, InOrderArrives
  <2>2. table'[s].array[p.id].inPacket = pieces
    BY <1>3, <1>11
  <2>3. HeadContinues(Tail(c), table'[s].array)
    BY <1>0, <1>2, <1>4, <1>5, <1>8, <2>2, HeadGrows
  <2>4. Receiving(s)'
    BY <1>3, <1>11, <2>1, <2>3 DEF Receiving
  <2> QED BY <1>3, <1>9, <1>11, <2>4, StreamBoth
<1> QED BY <1>10, <1>11

LEMMA StreamNext ==
  ASSUME TablesInv, Conversations, StreamInv, [Next]_vars
  PROVE  StreamInv'
<1>1. CASE UNCHANGED vars
  BY <1>1 DEF vars, StreamInv, Receiving
<1>2. CASE Next
  <2>1. PICK s \in Side :
          \/ NewConnection(s)
          \/ \E id \in Ids : Call(s, id)
          \/ \E id \in Ids : Close(s, id)
          \/ \E id \in Ids : Reject(s, id)
          \/ ProcessNew(s)
          \/ ProcessAccept(s)
          \/ ProcessRelease(s)
          \/ ProcessSend(s)
    BY <1>2 DEF Next
  <2>2. CASE NewConnection(s)
    BY <2>2, StreamNew
  <2>3. ASSUME NEW id \in Ids, Call(s, id) PROVE StreamInv'
    BY <2>3, StreamCall
  <2>4. ASSUME NEW id \in Ids, Close(s, id) PROVE StreamInv'
    BY <2>4, StreamGiveUp
  <2>5. ASSUME NEW id \in Ids, Reject(s, id) PROVE StreamInv'
    BY <2>5, StreamGiveUp
  <2>6. CASE ProcessNew(s)
    BY <2>6, StreamProcessNew
  <2>7. CASE ProcessAccept(s)
    <3>1. Arrives(s, "accept")
      BY <2>7, ProcessAcceptEffect
    <3> QED BY <2>7, <3>1, ArrivesFacts, ProcessAcceptEffect, StreamProcess
  <2>8. CASE ProcessRelease(s)
    <3>1. /\ Arrives(s, "reject") \/ Arrives(s, "close")
          /\ channel'[Peer(s)] = Tail(channel[Peer(s)]) /\ channel'[s] = channel[s]
          /\ table'[Peer(s)] = table[Peer(s)] /\ calls' = calls /\ handled' = handled
      BY <2>8, ProcessReleaseEffect
    <3>2. channel[Peer(s)] # <<>> /\ Head(channel[Peer(s)]).op # "send"
      BY <3>1, ArrivesFacts
    <3> QED BY <3>1, <3>2, StreamProcess
  <2>9. CASE ProcessSend(s)
    BY <2>9, StreamProcessSend
  <2> QED BY <2>1, <2>2, <2>3, <2>4, <2>5, <2>6, <2>7, <2>8, <2>9
<1> QED BY <1>1, <1>2

LEMMA StreamInit == Init => StreamInv
<1> SUFFICES ASSUME Init, NEW s \in Side PROVE Receiving(s)
  BY DEF StreamInv
<1>1. channel[Peer(s)] = <<>> /\ handled[s] = <<>> /\ calls[Peer(s)] = <<>>
  BY Sides DEF Init
<1>2. Len(<<>>) = 0 /\ 0 <= 0 /\ 1..0 = {} /\ (0 + 1)..0 = {}
  OBVIOUS
<1>3. Sending(<<>>) = {}
  BY <1>2 DEF Sending
<1>4. InOrder(<<>>, Len(<<>>), <<>>)
  BY <1>2, <1>3 DEF InOrder
<1> QED BY <1>1, <1>4 DEF Receiving, HeadContinues

\* What is in flight is what is left of the messages sent, in order, and the receiver
\* has what comes before it.
THEOREM StreamAlways == Spec => []StreamInv
<1>1. TablesInv /\ Conversations /\ ControlOnce /\ StreamInv /\ [Next]_vars => StreamInv'
  BY StreamNext
<1> QED BY <1>1, StreamInit, TablesAlways, ConversationsAlways, PTL DEF Spec

HandledWhole(s) ==
  /\ Len(handled[s]) <= Len(calls[Peer(s)])
  /\ \A n \in 1..Len(handled[s]) :
       /\ handled[s][n].id = calls[Peer(s)][n].id
       /\ Whole(handled[s][n].pieces, n, calls[Peer(s)][n].length)

\* Messages that are sent, and messages that are handled, are added at the end.
LEMMA HandledWholeGrows ==
  ASSUME TablesInv, NEW s \in Side, HandledWhole(s),
         \/ calls'[Peer(s)] = calls[Peer(s)]
         \/ \E x \in Message : calls'[Peer(s)] = Append(calls[Peer(s)], x),
         \/ handled'[s] = handled[s]
         \/ /\ calls'[Peer(s)] = calls[Peer(s)]
            /\ \E id, pieces :
                 /\ handled'[s] = Append(handled[s], [id |-> id, pieces |-> pieces])
                 /\ Len(handled[s]) + 1 <= Len(calls[Peer(s)])
                 /\ id = calls[Peer(s)][Len(handled[s]) + 1].id
                 /\ Whole(pieces, Len(handled[s]) + 1, calls[Peer(s)][Len(handled[s]) + 1].length)
  PROVE  HandledWhole(s)'
<1>1. PICK sent : sent = calls[Peer(s)]
  OBVIOUS
<1>2. PICK got : got = handled[s]
  OBVIOUS
<1>3. PICK sent2 : sent2 = calls'[Peer(s)]
  OBVIOUS
<1>4. PICK got2 : got2 = handled'[s]
  OBVIOUS
<1>5. sent \in Seq(Message) /\ got \in Seq(Received) /\ Len(got) \in Nat /\ Len(sent) \in Nat
  BY <1>1, <1>2, ReceivingTypes
<1>6. /\ Len(got) <= Len(sent)
      /\ \A n \in 1..Len(got) : /\ got[n].id = sent[n].id
                               /\ Whole(got[n].pieces, n, sent[n].length)
  BY <1>1, <1>2 DEF HandledWhole
<1>7. Len(sent) <= Len(sent2) /\ Len(sent2) \in Nat /\ \A n \in 1..Len(sent) : sent2[n] = sent[n]
  BY <1>1, <1>3, <1>5, AppendProperties
<1>8. CASE got2 = got
  <2>1. Len(got) <= Len(sent2) /\ \A n \in 1..Len(got) : sent2[n] = sent[n]
    BY <1>5, <1>6, <1>7
  <2>2. \A n \in 1..Len(got2) : /\ got2[n].id = sent2[n].id
                              /\ Whole(got2[n].pieces, n, sent2[n].length)
    BY <1>6, <1>8, <2>1
  <2> QED BY <1>3, <1>4, <1>8, <2>1, <2>2 DEF HandledWhole
<1>9. CASE got2 # got
  <2>1. PICK id, pieces :
          /\ got2 = Append(got, [id |-> id, pieces |-> pieces])
          /\ Len(got) + 1 <= Len(sent)
          /\ id = sent[Len(got) + 1].id
          /\ Whole(pieces, Len(got) + 1, sent[Len(got) + 1].length)
    BY <1>1, <1>2, <1>4, <1>9
  <2>2. sent2 = sent
    BY <1>1, <1>2, <1>3, <1>4, <1>9
  <2> DEFINE x == [id |-> id, pieces |-> pieces]
             m == Len(got) + 1
  <2>3. x.id = id /\ x.pieces = pieces
    OBVIOUS
  <2>4. Len(got2) = m /\ got2[m] = x /\ \A n \in 1..Len(got) : got2[n] = got[n]
    <3>1. got2 = Append(got, x) /\ Len(got2) = m /\ got2[m] = x
      BY <1>5, <2>1
    <3> HIDE DEF x
    <3> QED BY <1>5, <3>1
  <2> HIDE DEF x
  <2>5. \A n \in 1..Len(got2) : n \in 1..Len(got) \/ n = m
    BY <1>5, <2>4
  <2>6. \A n \in 1..Len(got2) : /\ got2[n].id = sent2[n].id
                              /\ Whole(got2[n].pieces, n, sent2[n].length)
    BY <1>6, <2>1, <2>2, <2>3, <2>4, <2>5
  <2> QED BY <1>3, <1>4, <2>1, <2>2, <2>4, <2>6 DEF HandledWhole
<1> QED BY <1>8, <1>9

LEMMA HandledWholeNext ==
  ASSUME TablesInv, Conversations, StreamInv, WholeMessages, [Next]_vars
  PROVE  WholeMessages'
<1>1. \A q \in Side : HandledWhole(q)
  BY DEF WholeMessages, HandledWhole
<1>2. SUFFICES ASSUME NEW q \in Side PROVE HandledWhole(q)'
  BY <1>2 DEF WholeMessages, HandledWhole
<1>3. Peer(q) \in Side /\ HandledWhole(q)
  BY <1>1, Sides
<1>4. CASE UNCHANGED vars
  BY <1>3, <1>4, HandledWholeGrows DEF vars
<1>5. CASE Next
  <2>1. PICK s \in Side :
          \/ NewConnection(s)
          \/ \E id \in Ids : Call(s, id)
          \/ \E id \in Ids : Close(s, id)
          \/ \E id \in Ids : Reject(s, id)
          \/ ProcessNew(s)
          \/ ProcessAccept(s)
          \/ ProcessRelease(s)
          \/ ProcessSend(s)
    BY <1>5 DEF Next
  <2>2. CASE calls' = calls /\ handled' = handled
    BY <1>3, <2>2, HandledWholeGrows
  <2>3. ASSUME NEW id \in Ids, Call(s, id) PROVE HandledWhole(q)'
    <3>1. handled' = handled
      BY <2>3, CallEffect
    <3>2. calls'[Peer(q)] = calls[Peer(q)]
          \/ \E x \in Message : calls'[Peer(q)] = Append(calls[Peer(q)], x)
      <4>1. PICK length : length = Lengths[Len(calls[s]) + 1]
        OBVIOUS
      <4>2. /\ length \in Nat \ {0}
            /\ calls'[s] = Append(calls[s], [id |-> id, length |-> length])
            /\ calls'[Peer(s)] = calls[Peer(s)]
        BY <2>3, <4>1, CallEffect
      <4>3. [id |-> id, length |-> length] \in Message
        BY <4>2 DEF Message
      <4>4. Peer(q) = s \/ Peer(q) = Peer(s)
        BY <1>3, Sides
      <4> QED BY <4>2, <4>3, <4>4
    <3> QED BY <1>3, <3>1, <3>2, HandledWholeGrows
  <2>4. CASE ProcessSend(s)
    <3>1. CASE q = s
      BY <1>3, <2>4, <3>1, StreamProcessSend, HandledWholeGrows
    <3>2. CASE q = Peer(s)
      BY <1>3, <2>4, <3>2, StreamProcessSend, HandledWholeGrows
    <3> QED BY <3>1, <3>2, Sides
  <2>5. ASSUME \/ NewConnection(s)
               \/ \E id \in Ids : Close(s, id) \/ Reject(s, id)
               \/ ProcessNew(s)
               \/ ProcessAccept(s)
               \/ ProcessRelease(s)
        PROVE  calls' = calls /\ handled' = handled
    BY <2>5 DEF NewConnection, Close, Reject, ProcessNew, ProcessAccept, ProcessRelease
  <2> QED BY <2>1, <2>2, <2>3, <2>4, <2>5
<1> QED BY <1>4, <1>5

\* WholeMessages, of any number of messages of any lengths on any number of
\* connections: what the two sides handle is what the other sent, whole and in order.
THEOREM MessagesArriveWhole == Spec => []WholeMessages
<1>1. Init => WholeMessages
  BY Sides DEF Init, WholeMessages
<1>2. TablesInv /\ Conversations /\ ControlOnce /\ StreamInv /\ WholeMessages /\ [Next]_vars
        => WholeMessages'
  BY HandledWholeNext
<1> QED BY <1>1, <1>2, TablesAlways, ConversationsAlways, StreamAlways, PTL DEF Spec

-----------------------------------------------------------------------------
(* What a packet that arrives finds.                                       *)

LEMMA RequestFits ==
  ASSUME TablesInv, RoomInv, NEW s \in Side, channel[Peer(s)] # <<>>,
         Head(channel[Peer(s)]).op = "new"
  PROVE  Head(channel[Peer(s)]).id < RoomFor(s, table[s], Head(channel[Peer(s)]).id).allocated
<1> DEFINE c == channel[Peer(s)]
           t == table[s]
<1>0. PICK id : id = Head(c).id
  OBVIOUS
<1>1. /\ c \in Seq(AnyPacket) /\ Peer(s) \in Side
      /\ Allocated(s) \in {0} \cup TableSizes /\ Allocated(Peer(s)) \in {0} \cup TableSizes
      /\ Room(Allocated(Peer(s)), Allocated(s), c)
  BY Sides, Allocations, RoomOf
<1>2. /\ id < Allocated(Peer(s))
      /\ Allocated(s) = 0 => id < FirstAllocation
      /\ Allocated(s) # 0 => id < 2 * Allocated(s)
  BY <1>0, <1>1, RoomForHead
<1>3. id \in Ids /\ id \in Nat
  <2>1. Head(c) \in AnyPacket
    BY <1>1
  <2> QED BY <1>0, <2>1, PacketFacts, IdFacts
<1>4. CASE id >= t.allocated
  <2>1. t.allocated # 0 => 2 * t.allocated \in TableSizes
    BY <1>1, <1>2, <1>3, <1>4, Sizes DEF Allocated
  <2>2. Grown(t) \in TableSizes /\ id < Grown(t)
    BY <1>2, <2>1, Sizes DEF Grown, Allocated
  <2>3. t \in Table /\ Entries(s, t)
    BY TableIn
  <2>4. IncreaseSpace(s, t).allocated = Grown(t)
    BY <2>2, <2>3, IncreaseSpaceFields
  <2> QED BY <1>0, <1>4, <2>2, <2>4 DEF RoomFor
<1>5. CASE ~(id >= t.allocated)
  <2>1. id < t.allocated
    BY <1>1, <1>3, <1>5, Sizes DEF Allocated
  <2> QED BY <1>0, <1>5, <2>1 DEF RoomFor
<1> QED BY <1>4, <1>5

\* The two sides have not given up the id, or the request is a second one.
LEMMA RequestFindsNone ==
  ASSUME TablesInv, Conversations, ControlOnce, NEW s \in Side, channel[Peer(s)] # <<>>,
         Head(channel[Peer(s)]).op = "new", Head(channel[Peer(s)]).id \notin closed[s]
  PROVE  LET id == Head(channel[Peer(s)]).id IN
           /\ ~mySideConnectionId(s, id) /\ ~Live(table[s], id) /\ id > 0
           /\ id \in {1, 2} => table[s].control = 0
<1> DEFINE r == Peer(s)
           c == channel[r]
<1>0. PICK id : id = Head(c).id
  OBVIOUS
<1>1. r \in Side /\ Peer(r) = s /\ r # s
  BY Sides
<1>2. c \in Seq(AnyPacket) /\ Head(c) = c[1] /\ 1 \in 1..Len(c) /\ c[1] \in AnyPacket
  BY <1>1, EmptySeq DEF TablesInv
<1>3. id \in Ids /\ 1 \in At(c, "new", id)
  BY <1>0, <1>2, PacketFacts DEF At
<1>4. id % 2 = r
  BY <1>0, HeadDirection
<1>5. Talk(id, Status(r, id), closed[r], Status(s, id), closed[s], c, channel[s])
  BY <1>1, <1>3, <1>4 DEF Conversations, TalkBetween, mySideConnectionId
<1>6. Requested(id, Status(r, id), Status(s, id), closed[s], At(c, "new", id), Of(channel[s], id))
  BY <1>5 DEF Talk, Conversation
<1>7. Status(r, id) = "initiated" /\ Status(s, id) = "unused"
  BY <1>0, <1>3, <1>6 DEF Requested
<1>8. id > 0
  <2>1. Entries(r, table[r]) /\ id \in Nat
    BY <1>1, <1>3, TableIn, IdFacts
  <2>2. Live(table[r], id)
    BY <1>7 DEF Status, Live
  <2>3. id \notin Skipped(r)
    BY <1>3, <1>4, <2>1, <2>2 DEF Entries, mySideConnectionId
  <2>4. id = 0 => FALSE
    <3>1. 0 % 2 = 0
      OBVIOUS
    <3> QED BY <1>4, <2>3, <3>1 DEF Skipped
  <2> QED BY <2>1, <2>4
<1>9. ASSUME id \in {1, 2} PROVE table[s].control = 0
  <2>1. ControlSettled(r, id)
    BY <1>1, <1>4, <1>9 DEF ControlOnce, mySideConnectionId
  <2> QED BY <1>0, <1>1, <1>3, <2>1 DEF ControlSettled
<1> QED BY <1>0, <1>1, <1>4, <1>7, <1>8, <1>9 DEF mySideConnectionId, Status, Live

LEMMA AnswerFindsConnection ==
  ASSUME TablesInv, Conversations, NEW s \in Side, channel[Peer(s)] # <<>>,
         Head(channel[Peer(s)]).op \in {"accept", "reject"}
  PROVE  LET p == Head(channel[Peer(s)]) IN
           /\ p.op = "accept" => table[s].array[p.id].status = "initiated"
           /\ Live(table[s], p.id)
<1> DEFINE r == Peer(s)
           c == channel[r]
<1>0. PICK id : id = Head(c).id
  OBVIOUS
<1>1. r \in Side /\ Peer(r) = s
  BY Sides
<1>2. c \in Seq(AnyPacket) /\ Head(c) = c[1] /\ 1 \in 1..Len(c) /\ c[1] \in AnyPacket
  BY <1>1, EmptySeq DEF TablesInv
<1>3. id \in Ids /\ 1 \in Of(c, id) /\ (Head(c).op = "accept" => 1 \in At(c, "accept", id))
  BY <1>0, <1>2, PacketFacts DEF Of, At
<1>4. id % 2 = s
  BY <1>0, HeadDirection
<1>5. Talk(id, Status(s, id), closed[s], Status(r, id), closed[r], channel[s], c)
  BY <1>3, <1>4 DEF Conversations, TalkBetween, mySideConnectionId
<1>6. /\ Given(id, Status(s, id), Status(r, id), closed[r], At(channel[s], "new", id), Of(c, id))
      /\ Acceptances(Status(s, id), At(channel[s], "new", id), At(c, "accept", id), Of(c, id))
  BY <1>5 DEF Talk, Conversation
<1>7. Status(s, id) # "unused"
  BY <1>3, <1>6 DEF Given
<1>8. Head(c).op = "accept" => Status(s, id) = "initiated"
  BY <1>3, <1>6 DEF Acceptances
<1> QED BY <1>0, <1>7, <1>8 DEF Status, Live

LEMMA CloseFindsConnection ==
  ASSUME TablesInv, Conversations, NEW s \in Side, channel[Peer(s)] # <<>>,
         Head(channel[Peer(s)]).op = "close"
  PROVE  Live(table[s], Head(channel[Peer(s)]).id)
<1> DEFINE r == Peer(s)
           c == channel[r]
<1>0. PICK id : id = Head(c).id
  OBVIOUS
<1>1. r \in Side /\ Peer(r) = s
  BY Sides
<1>2. c \in Seq(AnyPacket) /\ Head(c) = c[1] /\ 1 \in 1..Len(c) /\ c[1] \in AnyPacket
  BY <1>1, EmptySeq DEF TablesInv
<1>3. id \in Ids /\ 1 \in At(c, "close", id)
  BY <1>0, <1>2, PacketFacts DEF At
<1>4. id % 2 = r
  BY <1>0, HeadDirection
<1>5. Talk(id, Status(r, id), closed[r], Status(s, id), closed[s], c, channel[s])
  BY <1>1, <1>3, <1>4 DEF Conversations, TalkBetween, mySideConnectionId
<1>6. OnConnection(Status(s, id), At(c, "new", id), At(c, "close", id), At(c, "send", id))
  BY <1>5 DEF Talk, Conversation
<1>7. \A i \in At(c, "new", id) : ~(i < 1)
  BY <1>2 DEF At
<1>8. Status(s, id) # "unused"
  BY <1>3, <1>6, <1>7 DEF OnConnection
<1> QED BY <1>0, <1>8 DEF Status, Live

LEMMA HandlersAcceptHolds ==
  ASSUME TablesInv, Conversations, ControlOnce, RoomInv, StreamInv
  PROVE  HandlersAccept
<1> SUFFICES ASSUME NEW s \in Side, channel[Peer(s)] # <<>>
             PROVE  LET p == Head(channel[Peer(s)]) IN
                      \/ Acceptable(s, p)
                      \/ p.op = "new" /\ p.id \in closed[s]
                      \/ p.op = "new" /\ p.id > 2 /\ table[s].control = 0
  BY DEF HandlersAccept
<1>0. PICK p : p = Head(channel[Peer(s)])
  OBVIOUS
<1>1. /\ channel[Peer(s)] \in Seq(AnyPacket) /\ p \in AnyPacket /\ p.id \in Ids /\ p.id \in Nat
      /\ p.op \in {"new", "accept", "reject", "close", "send"}
      /\ p = channel[Peer(s)][1]
  <2>1. channel[Peer(s)] \in Seq(AnyPacket)
    BY ReceivingTypes
  <2>2. p \in AnyPacket /\ p = channel[Peer(s)][1]
    BY <1>0, <2>1
  <2> QED BY <2>1, <2>2, PacketFacts, IdFacts
<1>2. CASE p.op = "new" /\ p.id \notin closed[s]
  <2>1. /\ ~mySideConnectionId(s, p.id) /\ ~Live(table[s], p.id) /\ p.id > 0
        /\ p.id \in {1, 2} => table[s].control = 0
    BY <1>0, <1>2, RequestFindsNone
  <2>2. p.id < RoomFor(s, table[s], p.id).allocated
    BY <1>0, <1>2, RequestFits
  <2>3. p.id \notin {1, 2} => p.id > 2
    BY <1>1, <2>1
  <2> QED BY <1>0, <1>2, <2>1, <2>2, <2>3 DEF Acceptable
<1>3. CASE p.op \in {"accept", "reject"}
  BY <1>0, <1>3, AnswerFindsConnection DEF Acceptable
<1>4. CASE p.op = "close"
  BY <1>0, <1>4, CloseFindsConnection DEF Acceptable
<1>5. CASE p.op = "send"
  <2>1. Live(table[s], p.id)
    BY <1>0, <1>5, FragmentFindsConnection
  <2>2. ~p.first => table[s].array[p.id].inPacket # NoPacket
    BY <1>1, <1>5 DEF StreamInv, Receiving, HeadContinues, Building, NoPacket
  <2> QED BY <1>0, <1>5, <2>1, <2>2 DEF Acceptable
<1> QED BY <1>0, <1>1, <1>2, <1>3, <1>4, <1>5

\* HandlersAccept, for tables of any size and any number of connections: no packet
\* that arrives fails an assertion of its handler or meets a null pointer, but for
\* the requests that HandlersAccept leaves out.
THEOREM HandlersFindWhatTheyAssert == Spec => []HandlersAccept
<1>1. TablesInv /\ Conversations /\ ControlOnce /\ RoomInv /\ StreamInv => HandlersAccept
  BY HandlersAcceptHolds
<1> QED BY <1>1, TablesAlways, ConversationsAlways, RoomAlways, StreamAlways, PTL
=============================================================================
