---------------------------- MODULE GoRpcProofs ----------------------------
(* Theorems about GoRpc, for any clients, goroutines, methods and programs. *)
EXTENDS GoRpc, SequenceTheorems, TLAPS

-----------------------------------------------------------------------------
(* Types.                                                                  *)

OpType ==
  [doing : {"nothing"}]
    \cup [doing : {"go"}, id : Nat, wants : BOOLEAN, todo : Seq(Nat)]
    \cup [doing : {"dispatch"}, id : Nat]

IssueType == [id : Nat, call : Calls, by : Goroutine]

Types ==
  /\ cid \in Nat /\ op \in [Goroutine -> OpType]
  /\ calls \in [Client -> SUBSET Nat]
  /\ requests \in [Client -> Seq(Nat)] /\ replies \in [Client -> Seq(Nat)]
  /\ panicked \in [Client -> BOOLEAN] /\ clean \in [Client -> BOOLEAN]
  /\ issued \in [Client -> Seq(IssueType)]
  /\ executed \in [Client -> Seq([id : Nat, method : Methods, arg : Nat])]
  /\ answered \in [Client -> Seq([id : Nat, result : Nat])]

\* A call that is being written was issued; so were those that wait.
Issued(c, id) == \E k \in DOMAIN issued[c] : issued[c][k].id = id
WaitsIssued ==
  /\ \A c \in Client : \A id \in calls[c] : Issued(c, id)
  /\ \A g \in Goroutine : op[g].doing = "go" => Issued(ClientOf[g], op[g].id)

LEMMA ProgramCalls ==
  ASSUME NEW g \in Goroutine, NEW call \in NextCalls(g) PROVE call \in Calls
  BY GoRpcAssumption DEF NextCalls

LEMMA ClientIs == ASSUME NEW g \in Goroutine PROVE ClientOf[g] \in Client
  BY GoRpcAssumption

LEMMA AppendKeeps ==
  ASSUME NEW S, NEW s \in Seq(S), NEW e \in S
  PROVE  /\ Append(s, e) \in Seq(S) /\ Len(Append(s, e)) = Len(s) + 1
         /\ \A i \in 1..Len(s) : Append(s, e)[i] = s[i]
         /\ Append(s, e)[Len(s) + 1] = e
  OBVIOUS

LEMMA TypesInit == Init => Types /\ WaitsIssued
  <1> SUFFICES ASSUME Init PROVE Types /\ WaitsIssued OBVIOUS
  <1> USE DEF Init
  <1>1. op \in [Goroutine -> OpType] BY DEF OpType, Idle
  <1>2. Types BY <1>1 DEF Types
  <1>3. WaitsIssued BY DEF WaitsIssued, Idle
  <1> QED BY <1>2, <1>3

LEMMA TypesGoStart ==
  ASSUME Types, WaitsIssued, NEW g \in Goroutine, NEW call \in NextCalls(g), GoStart(g, call)
  PROVE  Types' /\ WaitsIssued'
  <1> DEFINE c == ClientOf[g]
             todo == <<cid, call.method, call.arg>>
             entry == [id |-> cid, call |-> call, by |-> g]
             doing == [doing |-> "go", id |-> cid, wants |-> call.wants, todo |-> todo]
  <1>1. c \in Client BY ClientIs
  <1>2. call \in Calls BY ProgramCalls
  <1>3. call.method \in Nat /\ call.arg \in Nat /\ call.wants \in BOOLEAN /\ call.method \in Methods
    BY <1>2, GoRpcAssumption DEF Calls, Methods
  <1>4. todo \in Seq(Nat) BY <1>3 DEF Types
  <1>5. doing \in OpType BY <1>3, <1>4 DEF OpType, Types
  <1>6. entry \in IssueType BY <1>2 DEF IssueType, Types
  <1>7. /\ op' = [op EXCEPT ![g] = doing] /\ issued' = [issued EXCEPT ![c] = Append(@, entry)]
        /\ cid' = cid + 1
        /\ clean' = [clean EXCEPT ![c] = @ /\ Alone(g) /\ (HasResult[call.method + 1] => call.wants)]
        /\ UNCHANGED <<calls, requests, replies, panicked, executed, answered>>
    BY DEF GoStart, Increment
  <1>8. op' \in [Goroutine -> OpType] BY <1>5, <1>7 DEF Types
  <1>9. issued' \in [Client -> Seq(IssueType)] BY <1>6, <1>7, AppendKeeps DEF Types
  <1>10. clean' \in [Client -> BOOLEAN]
    <2>1. (clean[c] /\ Alone(g) /\ (HasResult[call.method + 1] => call.wants)) \in BOOLEAN OBVIOUS
    <2> QED BY <1>7, <2>1 DEF Types
  <1>11. Types'
    <2>1. cid' \in Nat BY <1>7 DEF Types
    <2> QED BY <1>7, <1>8, <1>9, <1>10, <2>1 DEF Types
  <1>12. \A d \in Client : \A id : Issued(d, id) => Issued(d, id)'
    <2> SUFFICES ASSUME NEW d \in Client, NEW id, Issued(d, id) PROVE Issued(d, id)' OBVIOUS
    <2>1. PICK k \in DOMAIN issued[d] : issued[d][k].id = id BY DEF Issued
    <2>2. issued'[d] = issued[d] \/ issued'[d] = Append(issued[d], entry) BY <1>7 DEF Types
    <2>3. issued[d] \in Seq(IssueType) BY DEF Types
    <2>4. k \in DOMAIN issued'[d] /\ issued'[d][k] = issued[d][k]
      BY <2>1, <2>2, <2>3, <1>6, AppendKeeps
    <2> QED BY <2>1, <2>4 DEF Issued
  <1>13. \E k \in DOMAIN issued'[c] : issued'[c][k].id = cid
    <2>1. issued'[c] = Append(issued[c], entry) BY <1>1, <1>7 DEF Types
    <2>2. issued[c] \in Seq(IssueType) BY <1>1 DEF Types
    <2>3. issued'[c][Len(issued[c]) + 1] = entry /\ Len(issued[c]) + 1 \in DOMAIN issued'[c]
      BY <2>1, <2>2, <1>6
    <2>4. issued'[c][Len(issued[c]) + 1].id = cid BY <2>3
    <2> HIDE DEF entry
    <2>5. cid' = cid + 1 BY <1>7
    <2>6. \E k \in DOMAIN issued'[c] : issued'[c][k].id = cid BY <2>3, <2>4
    <2> QED BY <2>6
  <1>14. WaitsIssued'
    <2>1. \A d \in Client : \A id \in calls'[d] : Issued(d, id)'
      BY <1>7, <1>12 DEF WaitsIssued
    <2>2. ASSUME NEW h \in Goroutine, op'[h].doing = "go" PROVE Issued(ClientOf[h], op[h].id)'
      <3>1. CASE h = g
        <4>1. op'[h] = doing BY <3>1, <1>7 DEF Types
        <4>2. op'[h].id = cid BY <4>1
        <4> QED BY <3>1, <4>2, <1>13 DEF Issued
      <3>2. CASE h # g
        <4>1. op'[h] = op[h] BY <3>2, <1>7 DEF Types
        <4> QED BY <2>2, <4>1, <1>12, ClientIs DEF WaitsIssued
      <3> QED BY <3>1, <3>2
    <2> QED BY <2>1, <2>2 DEF WaitsIssued
  <1> QED BY <1>11, <1>14

\* A goroutine that is in the middle of Go, and one that reads a value.
LEMMA GoingFacts ==
  ASSUME Types, NEW g \in Goroutine, op[g].doing = "go"
  PROVE  /\ op[g] \in [doing : {"go"}, id : Nat, wants : BOOLEAN, todo : Seq(Nat)]
         /\ op[g].id \in Nat /\ op[g].wants \in BOOLEAN /\ op[g].todo \in Seq(Nat)
  BY DEF Types, OpType

LEMMA DispatchFacts ==
  ASSUME Types, NEW g \in Goroutine, op[g].doing = "dispatch"
  PROVE  op[g].id \in Nat
  BY DEF Types, OpType

LEMMA IdleFacts == Idle \in OpType /\ Idle.doing = "nothing"
  BY DEF Idle, OpType

\* An action that issues nothing, and begins no call.
LEMMA WaitsKept ==
  ASSUME Types, WaitsIssued, issued' = issued,
         \A c \in Client : \A id \in calls'[c] : id \in calls[c] \/ Issued(c, id),
         \A g \in Goroutine :
           op'[g].doing = "go" => op[g].doing = "go" /\ op'[g].id = op[g].id
  PROVE  WaitsIssued'
  BY ClientIs DEF WaitsIssued, Issued

LEMMA TypesGoWrite ==
  ASSUME Types, WaitsIssued, NEW g \in Goroutine, GoWrite(g)
  PROVE  Types' /\ WaitsIssued'
  <1> DEFINE c == ClientOf[g]
             written == Head(op[g].todo)
             rest == [op[g] EXCEPT !.todo = Tail(@)]
  <1>1. c \in Client BY ClientIs
  <1>2. /\ op[g].doing = "go" /\ op[g].todo # <<>>
        /\ op' = [op EXCEPT ![g] = rest] /\ requests' = [requests EXCEPT ![c] = Append(@, written)]
        /\ UNCHANGED <<cid, calls, replies, panicked, issued, executed, answered, clean>>
    BY DEF GoWrite, Types
  <1>3. /\ written \in Nat /\ Tail(op[g].todo) \in Seq(Nat)
        /\ rest \in [doing : {"go"}, id : Nat, wants : BOOLEAN, todo : Seq(Nat)]
        /\ rest.id = op[g].id
    <2>1. op[g] \in [doing : {"go"}, id : Nat, wants : BOOLEAN, todo : Seq(Nat)]
      BY <1>2, GoingFacts
    <2>2. op[g].todo \in Seq(Nat) BY <2>1
    <2>3. written \in Nat /\ Tail(op[g].todo) \in Seq(Nat) BY <1>2, <2>2
    <2>4. /\ rest \in [doing : {"go"}, id : Nat, wants : BOOLEAN, todo : Seq(Nat)]
          /\ rest.id = op[g].id
      BY <2>1, <2>3
    <2> QED BY <2>3, <2>4
  <1>4. op' \in [Goroutine -> OpType] BY <1>2, <1>3 DEF Types, OpType
  <1>5. requests' \in [Client -> Seq(Nat)] BY <1>1, <1>2, <1>3, AppendKeeps DEF Types
  <1>6. Types' BY <1>2, <1>4, <1>5 DEF Types
  <1> HIDE DEF rest
  <1>7. \A h \in Goroutine : op'[h].doing = "go" => op[h].doing = "go" /\ op'[h].id = op[h].id
    <2> TAKE h \in Goroutine
    <2>1. CASE h = g
      <3>1. op'[h] = rest BY <2>1, <1>2 DEF Types
      <3> QED BY <2>1, <3>1, <1>2, <1>3
    <2>2. CASE h # g
      <3>1. op'[h] = op[h] BY <2>2, <1>2 DEF Types
      <3> QED BY <3>1
    <2> QED BY <2>1, <2>2
  <1> QED BY <1>2, <1>6, <1>7, WaitsKept

LEMMA TypesGoEnds ==
  ASSUME Types, WaitsIssued, NEW g \in Goroutine, GoFail(g) \/ GoRegister(g)
  PROVE  Types' /\ WaitsIssued'
  <1> DEFINE c == ClientOf[g]
  <1>1. c \in Client BY ClientIs
  <1>2. /\ op[g].doing = "go" /\ op' = [op EXCEPT ![g] = Idle]
        /\ calls' = calls \/ calls' = [calls EXCEPT ![c] = @ \cup Waiting(g)]
        /\ clean' = clean \/ clean' = [clean EXCEPT ![c] = FALSE]
        /\ UNCHANGED <<cid, requests, replies, panicked, issued, executed, answered>>
    BY DEF GoFail, GoRegister
  <1>3. Waiting(g) \subseteq {op[g].id} /\ op[g].id \in Nat BY <1>2, GoingFacts DEF Waiting
  <1>4. calls' \in [Client -> SUBSET Nat]
    <2>1. calls[c] \cup Waiting(g) \in SUBSET Nat BY <1>1, <1>3 DEF Types
    <2>2. CASE calls' = calls BY <2>2 DEF Types
    <2>3. CASE calls' = [calls EXCEPT ![c] = @ \cup Waiting(g)] BY <2>1, <2>3 DEF Types
    <2> QED BY <1>2, <2>2, <2>3
  <1>5. op' \in [Goroutine -> OpType] BY <1>2, IdleFacts DEF Types
  <1>6. clean' \in [Client -> BOOLEAN] BY <1>2 DEF Types
  <1>7. Types' BY <1>2, <1>4, <1>5, <1>6 DEF Types
  <1>8. \A d \in Client : \A id \in calls'[d] : id \in calls[d] \/ Issued(d, id)
    <2> TAKE d \in Client
    <2> TAKE id \in calls'[d]
    <2>1. Issued(c, op[g].id) BY <1>2 DEF WaitsIssued
    <2>2. id \in calls[d] \/ (d = c /\ id = op[g].id)
      <3>1. CASE calls' = calls BY <3>1
      <3>2. CASE calls' = [calls EXCEPT ![c] = @ \cup Waiting(g)]
        <4>1. calls'[d] = IF d = c THEN calls[c] \cup Waiting(g) ELSE calls[d]
          BY <3>2, <1>1 DEF Types
        <4> QED BY <4>1, <1>3
      <3> QED BY <1>2, <3>1, <3>2
    <2> QED BY <2>1, <2>2
  <1>9. \A h \in Goroutine : op'[h].doing = "go" => op[h].doing = "go" /\ op'[h].id = op[h].id
    <2> TAKE h \in Goroutine
    <2>1. op'[h] = op[h] \/ op'[h] = Idle BY <1>2 DEF Types
    <2> QED BY <2>1, IdleFacts
  <1> QED BY <1>2, <1>7, <1>8, <1>9, WaitsKept

LEMMA TypesDispatchId ==
  ASSUME Types, WaitsIssued, NEW g \in Goroutine, DispatchId(g)
  PROVE  Types' /\ WaitsIssued'
  <1> DEFINE c == ClientOf[g]
             id == Head(replies[c])
             doing == [doing |-> "dispatch", id |-> id]
  <1>1. c \in Client BY ClientIs
  <1>2. /\ replies[c] # <<>>
        /\ op' = op \/ op' = [op EXCEPT ![g] = doing]
        /\ replies' = [replies EXCEPT ![c] = Tail(@)]
        /\ clean' = [clean EXCEPT ![c] = @ /\ Alone(g)]
        /\ UNCHANGED <<cid, calls, requests, panicked, issued, executed, answered>>
    <2>1. op' = [op EXCEPT ![g] = IF id \in calls[c] THEN doing ELSE @] BY DEF DispatchId
    <2>2. op' = op \/ op' = [op EXCEPT ![g] = doing] BY <2>1 DEF Types
    <2> QED BY <2>2 DEF DispatchId
  <1>3. replies[c] \in Seq(Nat) BY <1>1 DEF Types
  <1>4. id \in Nat /\ Tail(replies[c]) \in Seq(Nat) BY <1>2, <1>3
  <1>5. doing \in OpType /\ doing.doing = "dispatch" BY <1>4 DEF OpType
  <1> HIDE DEF doing
  <1>6. op' \in [Goroutine -> OpType] BY <1>2, <1>5 DEF Types
  <1>7. clean' \in [Client -> BOOLEAN]
    <2>1. (clean[c] /\ Alone(g)) \in BOOLEAN OBVIOUS
    <2> QED BY <1>2, <2>1 DEF Types
  <1>8. Types' BY <1>2, <1>4, <1>6, <1>7 DEF Types
  <1>9. \A h \in Goroutine : op'[h].doing = "go" => op[h].doing = "go" /\ op'[h].id = op[h].id
    <2> TAKE h \in Goroutine
    <2>1. op'[h] = op[h] \/ op'[h] = doing BY <1>2 DEF Types
    <2> QED BY <2>1, <1>5
  <1> QED BY <1>2, <1>8, <1>9, WaitsKept

LEMMA TypesDispatchValue ==
  ASSUME Types, WaitsIssued, NEW g \in Goroutine, DispatchValue(g)
  PROVE  Types' /\ WaitsIssued'
  <1> DEFINE c == ClientOf[g]
             answer == [id |-> op[g].id, result |-> Head(replies[c])]
  <1>1. c \in Client BY ClientIs
  <1>2. /\ op[g].doing = "dispatch" /\ replies[c] # <<>> /\ op' = [op EXCEPT ![g] = Idle]
        /\ replies' = [replies EXCEPT ![c] = Tail(@)]
        /\ answered' = [answered EXCEPT ![c] = Append(@, answer)]
        /\ calls' = [calls EXCEPT ![c] = @ \ {op[g].id}]
        /\ UNCHANGED <<cid, requests, panicked, issued, executed, clean>>
    BY DEF DispatchValue
  <1>3. replies[c] \in Seq(Nat) BY <1>1 DEF Types
  <1>4. Head(replies[c]) \in Nat /\ Tail(replies[c]) \in Seq(Nat) BY <1>2, <1>3
  <1>5. answer \in [id : Nat, result : Nat] BY <1>2, <1>4, DispatchFacts
  <1>6. answered' \in [Client -> Seq([id : Nat, result : Nat])]
    BY <1>1, <1>2, <1>5, AppendKeeps DEF Types
  <1>7. op' \in [Goroutine -> OpType] BY <1>2, IdleFacts DEF Types
  <1>8. calls' \in [Client -> SUBSET Nat] BY <1>2 DEF Types
  <1>9. Types' BY <1>2, <1>4, <1>6, <1>7, <1>8 DEF Types
  <1>10. \A d \in Client : calls'[d] \subseteq calls[d] BY <1>2 DEF Types
  <1>11. \A h \in Goroutine : op'[h].doing = "go" => op[h].doing = "go" /\ op'[h].id = op[h].id
    <2> TAKE h \in Goroutine
    <2>1. op'[h] = op[h] \/ op'[h] = Idle BY <1>2 DEF Types
    <2> QED BY <2>1, IdleFacts
  <1> QED BY <1>2, <1>9, <1>10, <1>11, WaitsKept

LEMMA ElementOf == ASSUME NEW S, NEW s \in Seq(S), NEW i \in 1..Len(s) PROVE s[i] \in S
  OBVIOUS

LEMMA RestOf == ASSUME NEW S, NEW s \in Seq(S), Len(s) >= 3 PROVE SubSeq(s, 4, Len(s)) \in Seq(S)
  OBVIOUS

LEMMA TypesServer ==
  ASSUME Types, WaitsIssued, NEW c \in Client, Handle(c) \/ HandlePanics(c)
  PROVE  Types' /\ WaitsIssued'
  <1>1. CASE Handle(c)
    <2> DEFINE s == requests[c]
               done == [id |-> s[1], method |-> s[2], arg |-> s[3]]
               reply == Reply(s[1], s[2], s[3])
    <2>1. /\ Len(s) >= 3 /\ s[2] \in Methods
          /\ requests' = [requests EXCEPT ![c] = SubSeq(@, 4, Len(@))]
          /\ executed' = [executed EXCEPT ![c] = Append(@, done)]
          /\ replies' = [replies EXCEPT ![c] = @ \o reply]
          /\ UNCHANGED <<cid, op, calls, panicked, issued, answered, clean>>
      BY <1>1 DEF Handle, Units
    <2>2. s \in Seq(Nat) BY DEF Types
    <2>3. s[1] \in Nat /\ s[3] \in Nat /\ SubSeq(s, 4, Len(s)) \in Seq(Nat)
      <3> HIDE DEF s
      <3>1. Len(s) >= 3 BY <2>1
      <3>2. Len(s) \in Nat BY <2>2
      <3>3. 1 \in 1..Len(s) /\ 3 \in 1..Len(s) BY <3>1, <3>2
      <3> QED BY <2>2, <3>1, <3>3, ElementOf, RestOf
    <2>4. done \in [id : Nat, method : Methods, arg : Nat] BY <2>1, <2>3
    <2>5. reply \in Seq(Nat) BY <2>3 DEF Reply, Result
    <2> HIDE DEF done, reply
    <2>6. replies[c] \o reply \in Seq(Nat) BY <2>5 DEF Types
    <2>7. requests' \in [Client -> Seq(Nat)] BY <2>1, <2>3 DEF Types
    <2>8. replies' \in [Client -> Seq(Nat)] BY <2>1, <2>6 DEF Types
    <2>9. executed' \in [Client -> Seq([id : Nat, method : Methods, arg : Nat])]
      BY <2>1, <2>4, AppendKeeps DEF Types
    <2>10. Types' BY <2>1, <2>7, <2>8, <2>9 DEF Types
    <2> QED BY <2>1, <2>10, WaitsKept
  <1>2. CASE HandlePanics(c)
    <2>1. Types' BY <1>2 DEF HandlePanics, Types
    <2> QED BY <1>2, <2>1, WaitsKept DEF HandlePanics
  <1> QED BY <1>1, <1>2

LEMMA TypesStep == Types /\ WaitsIssued /\ [Next]_vars => Types' /\ WaitsIssued'
  <1> SUFFICES ASSUME Types, WaitsIssued, [Next]_vars PROVE Types' /\ WaitsIssued' OBVIOUS
  <1>1. CASE UNCHANGED vars
    <2>1. Types' BY <1>1 DEF vars, Types
    <2> QED BY <1>1, <2>1, WaitsKept DEF vars
  <1>2. ASSUME NEW g \in Goroutine, NEW call \in NextCalls(g), GoStart(g, call)
        PROVE Types' /\ WaitsIssued'
    BY <1>2, TypesGoStart
  <1>3. ASSUME NEW g \in Goroutine,
               GoWrite(g) \/ GoFail(g) \/ GoRegister(g) \/ DispatchId(g) \/ DispatchValue(g)
        PROVE Types' /\ WaitsIssued'
    BY <1>3, TypesGoWrite, TypesGoEnds, TypesDispatchId, TypesDispatchValue
  <1>4. ASSUME NEW c \in Client, Handle(c) \/ HandlePanics(c) PROVE Types' /\ WaitsIssued'
    BY <1>4, TypesServer
  <1> QED BY <1>1, <1>2, <1>3, <1>4 DEF Next

LEMMA TypesAlways == Spec => [](Types /\ WaitsIssued)
  BY TypesInit, TypesStep, PTL DEF Spec

\* What a client waits for was issued on it, and the streams carry numbers,
\* for any clients, goroutines and programs (Go, Dispatch, Handle).
THEOREM TypeCorrect == Spec => []TypeOK
  <1>1. Types /\ WaitsIssued => TypeOK
    <2> SUFFICES ASSUME Types, WaitsIssued PROVE TypeOK OBVIOUS
    <2>1. ASSUME NEW c \in Client
          PROVE  /\ requests[c] \in Seq(Nat) /\ replies[c] \in Seq(Nat)
                 /\ calls[c] \subseteq {issued[c][k].id : k \in DOMAIN issued[c]}
                 /\ panicked[c] \in BOOLEAN /\ clean[c] \in BOOLEAN
      <3>1. /\ requests[c] \in Seq(Nat) /\ replies[c] \in Seq(Nat)
            /\ panicked[c] \in BOOLEAN /\ clean[c] \in BOOLEAN
        BY DEF Types
      <3>2. \A id \in calls[c] : Issued(c, id) BY DEF WaitsIssued
      <3> QED BY <3>1, <3>2 DEF Issued
    <2> QED BY <2>1 DEF TypeOK, Types
  <1> QED BY <1>1, TypesAlways, PTL

-----------------------------------------------------------------------------
(* The invariant.  Ids are fresh whatever happens.  A clean client is used *)
(* by one goroutine at a time, its requests are the units of the calls not *)
(* yet executed, and its replies are those of calls that were executed.    *)

IdsFresh ==
  \A c \in Client : \A k \in DOMAIN issued[c] :
    /\ issued[c][k].id < cid
    /\ \A j \in DOMAIN issued[c] : issued[c][j].id = issued[c][k].id => j = k

\* The three units of a request.
Unit(entry, j) ==
  IF j = 1 THEN entry.id ELSE IF j = 2 THEN entry.call.method ELSE entry.call.arg

OneAtATime(c) ==
  \A g, h \in Users(c) : op[g].doing # "nothing" /\ op[h].doing # "nothing" => g = h

Returns(c, k) == HasResult[issued[c][k].call.method + 1]
ReturnsAreWanted(c) == \A k \in DOMAIN issued[c] : Returns(c, k) => issued[c][k].call.wants

\* What a goroutine is writing is the rest of the last of the calls, of which
\* e were executed, while r units are on the stream.
Completes(entries, e, r, doing) ==
  LET n == Len(entries)
      left == Len(doing.todo)
  IN  /\ n >= 1 /\ left <= 3
      /\ doing.id = entries[n].id /\ doing.wants = entries[n].call.wants
      /\ \A j \in 1..left : doing.todo[j] = Unit(entries[n], 3 - left + j)
      /\ 3 * e + r + left = 3 * n

Writes(c, g) == Completes(issued[c], Len(executed[c]), Len(requests[c]), op[g])
LastIsWritten(c) == \A g \in Users(c) : op[g].doing = "go" => Writes(c, g)

\* Nobody writes: all requests are complete.
AllIsWritten(c) ==
  (\A g \in Users(c) : op[g].doing # "go")
    => 3 * Len(executed[c]) + Len(requests[c]) = 3 * Len(issued[c])

\* After e requests, the i-th unit ahead is the j-th of request k.
IsUnit(i, e, k, j) == i + 3 * e = 3 * (k - 1) + j

UnitsOf(entries, e, units) ==
  \A k \in DOMAIN entries : \A j \in 1..3 : \A i \in DOMAIN units :
    IsUnit(i, e, k, j) => units[i] = Unit(entries[k], j)

Requested(c) == UnitsOf(issued[c], Len(executed[c]), requests[c])

Executes(c) ==
  /\ ~panicked[c] /\ Len(executed[c]) <= Len(issued[c])
  /\ \A k \in DOMAIN executed[c] :
       LET call == issued[c][k].call
       IN  executed[c][k] = [id |-> issued[c][k].id, method |-> call.method, arg |-> call.arg]

\* Some of the answers is for id.
Has(answers, id) == \E a \in DOMAIN answers : answers[a].id = id

\* The reply to the k-th of the calls, one of the first n, not among answers.
ReplyTo(entries, n, answers, k, id, result) ==
  /\ k <= n /\ HasResult[entries[k].call.method + 1]
  /\ id = entries[k].id /\ result = Result(entries[k].call.arg)
  /\ ~Has(answers, id)

\* A stream s of complete replies, each to a call of its own.
Paired(entries, n, answers, s) ==
  \E pairs \in Nat :
    /\ Len(s) = 2 * pairs
    /\ \A i \in 1..pairs : \E k \in DOMAIN entries :
         ReplyTo(entries, n, answers, k, s[2 * i - 1], s[2 * i])
    /\ \A i, j \in 1..pairs : s[2 * i - 1] = s[2 * j - 1] => i = j

RepliesAre(c, s) == Paired(issued[c], Len(executed[c]), answered[c], s)

Replied(c) ==
  /\ (\A g \in Users(c) : op[g].doing # "dispatch") => RepliesAre(c, replies[c])
  /\ \A g \in Users(c) : op[g].doing = "dispatch" => RepliesAre(c, <<op[g].id>> \o replies[c])

\* A call that wants a reply waits for it, unless it is still being written.
Waits(c) ==
  \A k \in DOMAIN issued[c] :
    issued[c][k].call.wants =>
      \/ issued[c][k].id \in calls[c] \/ Has(answered[c], issued[c][k].id)
      \/ k = Len(issued[c]) /\ \E g \in Users(c) : op[g].doing = "go"

\* An answer to the k-th of the calls, one of the first n.
IsAnswer(entries, n, k, answer) ==
  /\ k <= n /\ HasResult[entries[k].call.method + 1] /\ entries[k].call.wants
  /\ answer = [id |-> entries[k].id, result |-> Result(entries[k].call.arg)]

AnswersAre(entries, n, answers) ==
  /\ \A a \in DOMAIN answers : \E k \in DOMAIN entries : IsAnswer(entries, n, k, answers[a])
  /\ \A a, b \in DOMAIN answers : answers[a].id = answers[b].id => a = b

AnswersOf(c) == AnswersAre(issued[c], Len(executed[c]), answered[c])

CleanInv(c) ==
  /\ OneAtATime(c) /\ ReturnsAreWanted(c) /\ LastIsWritten(c) /\ AllIsWritten(c)
  /\ Requested(c) /\ Executes(c) /\ Replied(c) /\ Waits(c) /\ AnswersOf(c)

Sound == IdsFresh /\ \A c \in Client : clean[c] => CleanInv(c)

-----------------------------------------------------------------------------
(* Ids.                                                                    *)

LEMMA IdsInit == Init => IdsFresh
  BY DEF Init, IdsFresh

LEMMA IdsStep == Types /\ IdsFresh /\ [Next]_vars => IdsFresh'
  <1> SUFFICES ASSUME Types, IdsFresh, [Next]_vars PROVE IdsFresh' OBVIOUS
  <1>1. ASSUME issued' = issued, cid' = cid PROVE IdsFresh' BY <1>1 DEF IdsFresh
  <1>2. ASSUME NEW g \in Goroutine, NEW call \in NextCalls(g), GoStart(g, call) PROVE IdsFresh'
    <2> DEFINE c == ClientOf[g]
               entry == [id |-> cid, call |-> call, by |-> g]
    <2>1. issued' = [issued EXCEPT ![c] = Append(@, entry)] /\ cid' = cid + 1 /\ c \in Client
      BY <1>2, ClientIs DEF GoStart, Increment
    <2>2. entry \in IssueType /\ entry.id = cid BY ProgramCalls DEF IssueType, Types
    <2> HIDE DEF entry
    <2> SUFFICES ASSUME NEW d \in Client, NEW k \in DOMAIN issued'[d]
                 PROVE  /\ issued'[d][k].id < cid'
                        /\ \A j \in DOMAIN issued'[d] :
                             issued'[d][j].id = issued'[d][k].id => j = k
      BY DEF IdsFresh
    <2>3. issued[d] \in Seq(IssueType) /\ cid \in Nat BY DEF Types
    <2>4. \A j \in DOMAIN issued[d] : issued[d][j].id \in Nat
      <3> TAKE j \in DOMAIN issued[d]
      <3>1. issued[d][j] \in IssueType BY <2>3
      <3> QED BY <3>1 DEF IssueType
    <2>5. CASE d # c
      <3>1. issued'[d] = issued[d] BY <2>1, <2>5 DEF Types
      <3> QED BY <3>1, <2>1, <2>3, <2>4 DEF IdsFresh
    <2>6. CASE d = c
      <3>1. issued'[d] = Append(issued[d], entry) BY <2>1, <2>6 DEF Types
      <3>2. /\ DOMAIN issued'[d] = 1..(Len(issued[d]) + 1)
            /\ \A j \in 1..Len(issued[d]) : issued'[d][j] = issued[d][j]
            /\ issued'[d][Len(issued[d]) + 1] = entry
        BY <3>1, <2>2, <2>3
      <3>3. \A j \in 1..Len(issued[d]) :
              /\ issued'[d][j].id \in Nat /\ issued'[d][j].id < cid
              /\ \A i \in 1..Len(issued[d]) : issued'[d][i].id = issued'[d][j].id => i = j
        <4>1. DOMAIN issued[d] = 1..Len(issued[d]) BY <2>3
        <4>2. \A j \in 1..Len(issued[d]) :
                /\ issued[d][j].id \in Nat /\ issued[d][j].id < cid
                /\ \A i \in 1..Len(issued[d]) : issued[d][i].id = issued[d][j].id => i = j
          BY <4>1, <2>4 DEF IdsFresh
        <4> QED BY <4>2, <3>2
      <3>4. Len(issued[d]) \in Nat BY <2>3
      <3>5. \A j \in DOMAIN issued'[d] : j \in 1..Len(issued[d]) \/ j = Len(issued[d]) + 1
        BY <3>2, <3>4
      <3> QED BY <3>2, <3>3, <3>5, <2>1, <2>2, <2>3
    <2> QED BY <2>5, <2>6
  <1>3. ASSUME NEW g \in Goroutine,
               GoWrite(g) \/ GoFail(g) \/ GoRegister(g) \/ DispatchId(g) \/ DispatchValue(g)
        PROVE issued' = issued /\ cid' = cid
    BY <1>3 DEF GoWrite, GoFail, GoRegister, DispatchId, DispatchValue
  <1>4. ASSUME NEW c \in Client, Handle(c) \/ HandlePanics(c)
        PROVE issued' = issued /\ cid' = cid
    BY <1>4 DEF Handle, HandlePanics
  <1>5. CASE UNCHANGED vars BY <1>1, <1>5 DEF vars
  <1> QED BY <1>1, <1>2, <1>3, <1>4, <1>5 DEF Next

-----------------------------------------------------------------------------
(* What a step keeps of a client.                                          *)

LEMMA SameCalls ==
  ASSUME NEW c \in Client, issued'[c] = issued[c], executed'[c] = executed[c]
  PROVE  /\ ReturnsAreWanted(c) => ReturnsAreWanted(c)'
         /\ panicked'[c] = panicked[c] /\ Executes(c) => Executes(c)'
         /\ requests'[c] = requests[c] /\ Requested(c) => Requested(c)'
         /\ answered'[c] = answered[c] /\ AnswersOf(c) => AnswersOf(c)'
  <1>1. ReturnsAreWanted(c) => ReturnsAreWanted(c)' BY DEF ReturnsAreWanted, Returns
  <1>2. panicked'[c] = panicked[c] /\ Executes(c) => Executes(c)' BY DEF Executes
  <1>3. requests'[c] = requests[c] /\ Requested(c) => Requested(c)' BY DEF Requested
  <1>4. answered'[c] = answered[c] /\ AnswersOf(c) => AnswersOf(c)' BY DEF AnswersOf
  <1> QED BY <1>1, <1>2, <1>3, <1>4

\* Nothing of client c changes.
LEMMA SameClient ==
  ASSUME NEW c \in Client, CleanInv(c), issued'[c] = issued[c], executed'[c] = executed[c],
         requests'[c] = requests[c], replies'[c] = replies[c], answered'[c] = answered[c],
         calls'[c] = calls[c], panicked'[c] = panicked[c],
         \A g \in Users(c) : op'[g] = op[g]
  PROVE  CleanInv(c)'
  <1>1. OneAtATime(c)' BY DEF CleanInv, OneAtATime
  <1>2. LastIsWritten(c)'
    <2> SUFFICES ASSUME NEW g \in Users(c), op'[g].doing = "go" PROVE Writes(c, g)'
      BY DEF LastIsWritten
    <2>1. Writes(c, g) /\ op'[g] = op[g] BY DEF CleanInv, LastIsWritten
    <2> QED BY <2>1 DEF Writes
  <1>3. AllIsWritten(c)' BY DEF CleanInv, AllIsWritten
  <1>4. Replied(c)'
    <2>1. (\A g \in Users(c) : op'[g].doing # "dispatch") => RepliesAre(c, replies[c])'
      BY DEF CleanInv, Replied, RepliesAre
    <2>2. ASSUME NEW g \in Users(c), op'[g].doing = "dispatch"
          PROVE RepliesAre(c, <<op[g].id>> \o replies[c])'
      BY <2>2 DEF CleanInv, Replied, RepliesAre
    <2> QED BY <2>1, <2>2 DEF Replied
  <1>5. Waits(c)' BY DEF CleanInv, Waits
  <1> QED BY <1>1, <1>2, <1>3, <1>4, <1>5, SameCalls DEF CleanInv

-----------------------------------------------------------------------------
(* A step of a goroutine on a clean client.                                *)

LEMMA TailFacts ==
  ASSUME NEW S, NEW s \in Seq(S), s # <<>>
  PROVE  /\ Len(s) >= 1 /\ Head(s) = s[1] /\ Head(s) \in S
         /\ Tail(s) \in Seq(S) /\ Len(Tail(s)) = Len(s) - 1
         /\ \A i \in 1..(Len(s) - 1) : Tail(s)[i] = s[i + 1]
  OBVIOUS

LEMMA OthersIdle ==
  ASSUME NEW c \in Client, OneAtATime(c), NEW g \in Users(c), op[g].doing # "nothing",
         NEW h \in Users(c), h # g
  PROVE  op[h].doing = "nothing"
  BY DEF OneAtATime

LEMMA Lengths ==
  ASSUME Types, NEW c \in Client
  PROVE  /\ issued[c] \in Seq(IssueType) /\ DOMAIN issued[c] = 1..Len(issued[c])
         /\ Len(issued[c]) \in Nat /\ Len(executed[c]) \in Nat /\ Len(requests[c]) \in Nat
         /\ requests[c] \in Seq(Nat) /\ DOMAIN requests[c] = 1..Len(requests[c])
         /\ replies[c] \in Seq(Nat)
         /\ DOMAIN executed[c] = 1..Len(executed[c])
  BY DEF Types

\* Answers stay right when more is issued and executed.
LEMMA AnswersKept ==
  ASSUME NEW before, NEW after, NEW m \in Nat, NEW n \in Nat, m <= n, NEW answers,
         DOMAIN before \subseteq DOMAIN after, DOMAIN before \subseteq Nat,
         \A k \in DOMAIN before : after[k] = before[k],
         AnswersAre(before, m, answers)
  PROVE  AnswersAre(after, n, answers)
  <1>1. \A a \in DOMAIN answers : \E k \in DOMAIN after : IsAnswer(after, n, k, answers[a])
    <2> TAKE a \in DOMAIN answers
    <2>1. PICK k \in DOMAIN before : IsAnswer(before, m, k, answers[a]) BY DEF AnswersAre
    <2>2. k \in Nat /\ k <= m /\ after[k] = before[k] BY <2>1 DEF IsAnswer
    <2>3. k <= n BY <2>2
    <2> QED BY <2>1, <2>2, <2>3 DEF IsAnswer
  <1> QED BY <1>1 DEF AnswersAre

\* One more answer, to a call that had none.
LEMMA OneMoreAnswer ==
  ASSUME NEW entries, NEW n, NEW T, NEW answers \in Seq(T), NEW answer \in T,
         AnswersAre(entries, n, answers), ~Has(answers, answer.id),
         NEW k \in DOMAIN entries, IsAnswer(entries, n, k, answer)
  PROVE  AnswersAre(entries, n, Append(answers, answer))
  <1> DEFINE m == Len(answers)
             after == Append(answers, answer)
  <1>1. /\ DOMAIN after = 1..(m + 1) /\ DOMAIN answers = 1..m /\ m \in Nat
        /\ \A a \in 1..m : after[a] = answers[a]
        /\ after[m + 1] = answer
    OBVIOUS
  <1> HIDE DEF m, after
  <1>2. \A a \in 1..(m + 1) : a \in 1..m \/ a = m + 1 BY <1>1
  <1>3. \A a \in DOMAIN after : \E j \in DOMAIN entries : IsAnswer(entries, n, j, after[a])
    BY <1>1, <1>2 DEF AnswersAre
  <1>4. \A a \in 1..m : answers[a].id # answer.id BY <1>1 DEF Has
  <1>5. \A a, b \in DOMAIN after : after[a].id = after[b].id => a = b
    BY <1>1, <1>2, <1>4 DEF AnswersAre
  <1> QED BY <1>3, <1>5 DEF AnswersAre, after

\* Go begins: the units of the new call are all still to be written.
LEMMA CleanGoStart ==
  ASSUME Types, NEW g \in Goroutine, NEW call \in NextCalls(g), GoStart(g, call),
         NEW c \in Client, c = ClientOf[g], CleanInv(c), clean'[c]
  PROVE  CleanInv(c)'
  <1> DEFINE n == Len(issued[c])
             e == Len(executed[c])
             r == Len(requests[c])
             todo == <<cid, call.method, call.arg>>
             entry == [id |-> cid, call |-> call, by |-> g]
             doing == [doing |-> "go", id |-> cid, wants |-> call.wants, todo |-> todo]
  <1>1. /\ op[g] = Idle /\ op'[g] = doing
        /\ \A h \in Users(c) \ {g} : op'[h] = op[h]
        /\ issued'[c] = Append(issued[c], entry)
        /\ Alone(g) /\ (HasResult[call.method + 1] => call.wants)
        /\ calls'[c] = calls[c] /\ requests'[c] = requests[c] /\ replies'[c] = replies[c]
        /\ panicked'[c] = panicked[c] /\ executed'[c] = executed[c] /\ answered'[c] = answered[c]
    BY DEF GoStart, Types, Users
  <1>2. g \in Users(c) BY DEF Users
  <1>3. \A h \in Users(c) : op[h].doing = "nothing"
    BY <1>1, <1>2, IdleFacts DEF Alone
  <1>4. call \in Calls /\ cid \in Nat /\ n \in Nat BY ProgramCalls, Lengths DEF Types
  <1>5. entry \in IssueType BY <1>4 DEF IssueType
  <1>6. /\ doing.doing = "go" /\ doing.id = cid /\ doing.wants = call.wants /\ doing.todo = todo
        /\ entry.id = cid /\ entry.call = call
        /\ Len(todo) = 3 /\ todo[1] = cid /\ todo[2] = call.method /\ todo[3] = call.arg
    OBVIOUS
  <1> HIDE DEF doing, entry, todo
  <1>7. /\ Len(issued'[c]) = n + 1 /\ DOMAIN issued'[c] = 1..(n + 1)
        /\ \A k \in 1..n : issued'[c][k] = issued[c][k]
        /\ issued'[c][n + 1] = entry
        /\ DOMAIN issued[c] = 1..n /\ \A k \in 1..(n + 1) : k \in 1..n \/ k = n + 1
    <2>1. issued[c] \in Seq(IssueType) BY Lengths
    <2> QED BY <1>1, <1>4, <1>5, <2>1
  <1>8. /\ 3 * e + r = 3 * n /\ e \in Nat /\ r \in Nat /\ e <= n
        /\ Len(executed'[c]) = e /\ Len(requests'[c]) = r
        /\ DOMAIN requests[c] = 1..r /\ DOMAIN executed[c] = 1..e
    BY <1>1, <1>3, Lengths DEF CleanInv, AllIsWritten, Executes
  <1> HIDE DEF n, e, r
  <1>9. \A h \in Users(c) : op'[h].doing # "nothing" => h = g
    BY <1>1, <1>3
  <1>10. OneAtATime(c)' BY <1>9 DEF OneAtATime
  <1>11. ReturnsAreWanted(c)' BY <1>1, <1>6, <1>7 DEF CleanInv, ReturnsAreWanted, Returns
  <1>12. LastIsWritten(c)'
    <2> SUFFICES Writes(c, g)' BY <1>9 DEF LastIsWritten
    <2>1. \A j \in 1..3 : todo[j] = Unit(entry, 3 - 3 + j) BY <1>6 DEF Unit
    <2>2. 3 * Len(executed'[c]) + Len(requests'[c]) + 3 = 3 * (n + 1)
      <3>1. 3 * e + r + 3 = 3 * (n + 1) BY <1>4, <1>8
      <3> QED BY <3>1, <1>8
    <2>3. n + 1 >= 1 /\ 3 <= 3 BY <1>4
    <2>4. /\ Len(op'[g].todo) = 3 /\ op'[g].todo = todo
          /\ op'[g].id = issued'[c][n + 1].id /\ op'[g].wants = issued'[c][n + 1].call.wants
      BY <1>1, <1>6, <1>7
    <2> QED BY <2>1, <2>2, <2>3, <2>4, <1>7 DEF Writes, Completes
  <1>13. AllIsWritten(c)' BY <1>1, <1>2, <1>6 DEF AllIsWritten
  <1>14. Requested(c)'
    <2> SUFFICES ASSUME NEW k \in 1..(n + 1), NEW j \in 1..3, NEW i \in 1..r,
                        IsUnit(i, e, k, j)
                 PROVE  requests[c][i] = Unit(issued'[c][k], j)
      <3>1. /\ DOMAIN issued'[c] = 1..(n + 1) /\ DOMAIN requests'[c] = 1..r
            /\ Len(executed'[c]) = e /\ requests'[c] = requests[c]
        BY <1>1, <1>7, <1>8
      <3> QED BY <3>1 DEF Requested, UnitsOf
    <2>1. k # n + 1 BY <1>4, <1>8 DEF IsUnit
    <2>2. k \in 1..n BY <2>1, <1>7
    <2>3. requests[c][i] = Unit(issued[c][k], j)
      <3>1. Requested(c) BY DEF CleanInv
      <3>2. IsUnit(i, Len(executed[c]), k, j) BY DEF e
      <3>3. k \in DOMAIN issued[c] /\ i \in DOMAIN requests[c] BY <2>2, <1>7, <1>8
      <3> QED BY <3>1, <3>2, <3>3 DEF Requested, UnitsOf
    <2> QED BY <2>2, <2>3, <1>7
  <1>15. Executes(c)'
    <2>1. DOMAIN executed[c] \subseteq 1..n /\ e <= n + 1 BY <1>4, <1>8
    <2>2. \A k \in DOMAIN executed[c] : issued'[c][k] = issued[c][k] BY <2>1, <1>7
    <2>3. /\ ~panicked[c]
          /\ \A k \in DOMAIN executed[c] :
               executed[c][k] = [id |-> issued[c][k].id, method |-> issued[c][k].call.method,
                                 arg |-> issued[c][k].call.arg]
      BY DEF CleanInv, Executes
    <2>4. /\ ~panicked'[c] /\ Len(executed'[c]) <= Len(issued'[c])
          /\ \A k \in DOMAIN executed'[c] :
               executed'[c][k] = [id |-> issued'[c][k].id, method |-> issued'[c][k].call.method,
                                  arg |-> issued'[c][k].call.arg]
      BY <1>1, <1>7, <1>8, <2>1, <2>2, <2>3
    <2> QED BY <2>4 DEF Executes
  <1>16. Replied(c)'
    <2>1. RepliesAre(c, replies[c]) BY <1>3 DEF CleanInv, Replied
    <2>2. \A k \in 1..n : \A id, result :
            ReplyTo(issued[c], Len(executed[c]), answered[c], k, id, result)
              => ReplyTo(issued'[c], Len(executed'[c]), answered'[c], k, id, result)
      BY <1>1, <1>7 DEF ReplyTo
    <2>3. RepliesAre(c, replies[c])'
      <3>1. PICK pairs \in Nat :
              /\ Len(replies[c]) = 2 * pairs
              /\ \A i \in 1..pairs : \E k \in 1..n :
                   ReplyTo(issued[c], Len(executed[c]), answered[c], k,
                           replies[c][2 * i - 1], replies[c][2 * i])
              /\ \A i, j \in 1..pairs : replies[c][2 * i - 1] = replies[c][2 * j - 1] => i = j
        BY <2>1, <1>7 DEF RepliesAre, Paired
      <3>2. \A i \in 1..pairs : \E k \in 1..(n + 1) :
              ReplyTo(issued'[c], Len(executed'[c]), answered'[c], k,
                      replies[c][2 * i - 1], replies[c][2 * i])
        <4> TAKE i \in 1..pairs
        <4>1. PICK k \in 1..n : ReplyTo(issued[c], Len(executed[c]), answered[c], k,
                                        replies[c][2 * i - 1], replies[c][2 * i])
          BY <3>1
        <4>2. k \in 1..(n + 1) BY <1>4
        <4> QED BY <4>1, <4>2, <2>2
      <3>3. Paired(issued'[c], Len(executed'[c]), answered'[c], replies[c])
        BY <1>7, <3>1, <3>2 DEF Paired
      <3> QED BY <1>1, <3>3 DEF RepliesAre
    <2>4. \A h \in Users(c) : op'[h].doing # "dispatch" BY <1>1, <1>3, <1>6
    <2> QED BY <2>3, <2>4 DEF Replied
  <1>17. Waits(c)'
    <2> SUFFICES ASSUME NEW k \in 1..(n + 1), issued'[c][k].call.wants
                 PROVE  \/ issued'[c][k].id \in calls'[c] \/ Has(answered'[c], issued'[c][k].id)
                        \/ k = n + 1 /\ \E h \in Users(c) : op'[h].doing = "go"
      BY <1>7 DEF Waits
    <2>1. CASE k \in 1..n
      <3>1. issued[c][k].id \in calls[c] \/ Has(answered[c], issued[c][k].id)
        BY <2>1, <1>3, <1>7 DEF CleanInv, Waits
      <3> QED BY <2>1, <3>1, <1>1, <1>7
    <2>2. CASE k = n + 1 BY <2>2, <1>1, <1>2, <1>6
    <2> QED BY <2>1, <2>2, <1>7
  <1>18. AnswersOf(c)'
    <2>1. AnswersAre(issued[c], e, answered[c]) BY DEF CleanInv, AnswersOf, e
    <2>2. /\ DOMAIN issued[c] \subseteq DOMAIN issued'[c] /\ DOMAIN issued[c] \subseteq Nat
          /\ \A k \in DOMAIN issued[c] : issued'[c][k] = issued[c][k]
      BY <1>4, <1>7
    <2>3. e \in Nat /\ e <= e BY <1>8
    <2>4. AnswersAre(issued'[c], e, answered[c]) BY <2>1, <2>2, <2>3, AnswersKept
    <2>5. answered'[c] = answered[c] /\ Len(executed'[c]) = e BY <1>1, <1>8
    <2> QED BY <2>4, <2>5 DEF AnswersOf
  <1> QED BY <1>10, <1>11, <1>12, <1>13, <1>14, <1>15, <1>16, <1>17, <1>18 DEF CleanInv

\* Go writes the next unit of the last call.
LEMMA CleanGoWrite ==
  ASSUME Types, NEW g \in Goroutine, GoWrite(g),
         NEW c \in Client, c = ClientOf[g], CleanInv(c)
  PROVE  CleanInv(c)'
  <1> DEFINE n == Len(issued[c])
             e == Len(executed[c])
             r == Len(requests[c])
             t == op[g].todo
             left == Len(t)
             last == issued[c][n]
  <1>1. /\ op[g].doing = "go" /\ t # <<>>
        /\ op'[g] = [op[g] EXCEPT !.todo = Tail(@)]
        /\ \A h \in Users(c) \ {g} : op'[h] = op[h]
        /\ requests'[c] = Append(requests[c], Head(t))
        /\ issued'[c] = issued[c] /\ calls'[c] = calls[c] /\ replies'[c] = replies[c]
        /\ panicked'[c] = panicked[c] /\ executed'[c] = executed[c] /\ answered'[c] = answered[c]
    BY DEF GoWrite, Types, Users
  <1>2. g \in Users(c) BY DEF Users
  <1>3. /\ op[g] \in [doing : {"go"}, id : Nat, wants : BOOLEAN, todo : Seq(Nat)]
        /\ t \in Seq(Nat)
    BY <1>1, GoingFacts
  <1>4. /\ left >= 1 /\ left \in Nat /\ Head(t) = t[1] /\ Head(t) \in Nat
        /\ Tail(t) \in Seq(Nat) /\ Len(Tail(t)) = left - 1
        /\ \A j \in 1..(left - 1) : Tail(t)[j] = t[j + 1]
    BY <1>1, <1>3, TailFacts
  <1>5. /\ op'[g].doing = "go" /\ op'[g].todo = Tail(t)
        /\ op'[g].id = op[g].id /\ op'[g].wants = op[g].wants
    BY <1>1, <1>3
  <1>6. /\ n >= 1 /\ left <= 3
        /\ op[g].id = last.id /\ op[g].wants = last.call.wants
        /\ \A j \in 1..left : t[j] = Unit(last, 3 - left + j)
        /\ 3 * e + r + left = 3 * n
    BY <1>1, <1>2 DEF CleanInv, LastIsWritten, Writes, Completes
  <1>7. /\ n \in Nat /\ e \in Nat /\ r \in Nat
        /\ DOMAIN issued[c] = 1..n /\ DOMAIN requests[c] = 1..r
        /\ Len(requests'[c]) = r + 1 /\ DOMAIN requests'[c] = 1..(r + 1)
        /\ \A i \in 1..r : requests'[c][i] = requests[c][i]
        /\ requests'[c][r + 1] = t[1]
        /\ Len(executed'[c]) = e
    <2>1. requests[c] \in Seq(Nat) BY Lengths
    <2> QED BY <1>1, <1>4, <2>1, Lengths
  <1> HIDE DEF n, e, r, t, left, last
  <1>8. \A h \in Users(c) \ {g} : op'[h] = op[h] /\ op'[h].doing = "nothing"
    BY <1>1, <1>2, OthersIdle DEF CleanInv
  <1>9. OneAtATime(c)' BY <1>8 DEF OneAtATime
  <1>10. LastIsWritten(c)'
    <2> SUFFICES Writes(c, g)' BY <1>8 DEF LastIsWritten
    <2>1. \A j \in 1..(left - 1) : Tail(t)[j] = Unit(last, 3 - (left - 1) + j)
      <3> TAKE j \in 1..(left - 1)
      <3>1. Tail(t)[j] = t[j + 1] /\ j + 1 \in 1..left BY <1>4
      <3>2. t[j + 1] = Unit(last, 3 - left + (j + 1)) BY <3>1, <1>6
      <3>3. 3 - left + (j + 1) = 3 - (left - 1) + j BY <1>4
      <3> QED BY <3>1, <3>2, <3>3
    <2>2. 3 * e + (r + 1) + (left - 1) = 3 * n /\ left - 1 <= 3
      <3>1. /\ e \in Nat /\ r \in Nat /\ n \in Nat /\ left \in Nat
            /\ left <= 3 /\ 3 * e + r + left = 3 * n
        BY <1>4, <1>6, <1>7
      <3> QED BY <3>1
    <2>3. /\ Len(op'[g].todo) = left - 1 /\ Len(requests'[c]) = r + 1
          /\ Len(executed'[c]) = e /\ Len(issued'[c]) = n /\ issued'[c][n] = last
          /\ op'[g].todo = Tail(t) /\ op'[g].id = last.id /\ op'[g].wants = last.call.wants
      BY <1>1, <1>4, <1>5, <1>6, <1>7 DEF e, n, last
    <2>4. Completes(issued'[c], Len(executed'[c]), Len(requests'[c]), op'[g])
      BY <2>1, <2>2, <2>3, <1>6 DEF Completes
    <2> QED BY <2>4 DEF Writes
  <1>11. AllIsWritten(c)' BY <1>2, <1>5 DEF AllIsWritten
  <1>12. Requested(c)'
    <2> SUFFICES ASSUME NEW k \in 1..n, NEW j \in 1..3, NEW i \in 1..(r + 1),
                        IsUnit(i, e, k, j)
                 PROVE  requests'[c][i] = Unit(issued[c][k], j)
      <3>1. /\ DOMAIN issued'[c] = 1..n /\ DOMAIN requests'[c] = 1..(r + 1)
            /\ Len(executed'[c]) = e /\ issued'[c] = issued[c]
        BY <1>1, <1>7
      <3> QED BY <3>1 DEF Requested, UnitsOf
    <2>1. CASE i \in 1..r
      <3>1. Requested(c) BY DEF CleanInv
      <3>2. IsUnit(i, Len(executed[c]), k, j) BY DEF e
      <3> QED BY <2>1, <3>1, <3>2, <1>7 DEF Requested, UnitsOf
    <2>2. CASE i = r + 1
      <3>1. k = n /\ j = 3 - left + 1
        <4>1. left \in Nat /\ left >= 1 /\ left <= 3 /\ n \in Nat BY <1>4, <1>6, <1>7
        <4>2. r + 1 + 3 * e = 3 * (k - 1) + j BY <2>2 DEF IsUnit
        <4>3. r + 3 * e = 3 * n - left BY <1>4, <1>6, <1>7
        <4>4. r + 3 * e \in Nat BY <1>7
        <4>5. 3 * n - left + 1 = 3 * (k - 1) + j BY <4>2, <4>3, <4>4, <1>7
        <4> QED BY <4>1, <4>5
      <3>2. t[1] = Unit(last, 3 - left + 1) BY <1>4, <1>6
      <3> QED BY <2>2, <3>1, <3>2, <1>7 DEF last
    <2> QED BY <2>1, <2>2, <1>7
  <1>13. Replied(c)'
    <2>1. \A h \in Users(c) : op[h].doing # "dispatch" /\ op'[h].doing # "dispatch"
      BY <1>1, <1>5, <1>8
    <2>2. RepliesAre(c, replies[c]) BY <2>1 DEF CleanInv, Replied
    <2>3. RepliesAre(c, replies[c])' BY <2>2, <1>1 DEF RepliesAre
    <2> QED BY <2>1, <2>3 DEF Replied
  <1>14. Waits(c)' BY <1>1, <1>2, <1>5 DEF CleanInv, Waits
  <1> QED BY <1>1, <1>9, <1>10, <1>11, <1>12, <1>13, <1>14, SameCalls DEF CleanInv

\* Go puts the call on the map after its last unit is written.
LEMMA CleanGoRegister ==
  ASSUME Types, NEW g \in Goroutine, GoRegister(g),
         NEW c \in Client, c = ClientOf[g], CleanInv(c)
  PROVE  CleanInv(c)'
  <1> DEFINE n == Len(issued[c])
  <1>1. /\ op[g].doing = "go" /\ op[g].todo = <<>> /\ op'[g] = Idle
        /\ \A h \in Users(c) \ {g} : op'[h] = op[h]
        /\ calls'[c] = calls[c] \cup Waiting(g)
        /\ issued'[c] = issued[c] /\ requests'[c] = requests[c] /\ replies'[c] = replies[c]
        /\ panicked'[c] = panicked[c] /\ executed'[c] = executed[c] /\ answered'[c] = answered[c]
    BY DEF GoRegister, Types, Users
  <1>2. g \in Users(c) BY DEF Users
  <1>3. /\ op[g].id = issued[c][n].id /\ op[g].wants = issued[c][n].call.wants
        /\ 3 * Len(executed[c]) + Len(requests[c]) = 3 * n
    <2>1. Writes(c, g) BY <1>1, <1>2 DEF CleanInv, LastIsWritten
    <2>2. Len(op[g].todo) = 0 BY <1>1
    <2>3. /\ op[g].id = issued[c][n].id /\ op[g].wants = issued[c][n].call.wants
          /\ 3 * Len(executed[c]) + Len(requests[c]) + Len(op[g].todo) = 3 * n
      BY <2>1 DEF Writes, Completes
    <2>4. \A e, r \in Nat : 3 * e + r + 0 = 3 * e + r OBVIOUS
    <2> QED BY <2>2, <2>3, <2>4, Lengths
  <1>4. \A h \in Users(c) : op'[h].doing = "nothing"
    BY <1>1, <1>2, OthersIdle, IdleFacts DEF CleanInv
  <1>5. OneAtATime(c)' /\ LastIsWritten(c)' BY <1>4 DEF OneAtATime, LastIsWritten
  <1>6. AllIsWritten(c)' BY <1>1, <1>3 DEF AllIsWritten
  <1>7. Replied(c)'
    <2>1. \A h \in Users(c) : op[h].doing # "dispatch"
      BY <1>1, <1>2, OthersIdle DEF CleanInv
    <2>2. RepliesAre(c, replies[c]) BY <2>1 DEF CleanInv, Replied
    <2>3. RepliesAre(c, replies[c])' BY <2>2, <1>1 DEF RepliesAre
    <2> QED BY <1>4, <2>3 DEF Replied
  <1>8. Waits(c)'
    <2> SUFFICES ASSUME NEW k \in DOMAIN issued[c], issued[c][k].call.wants
                 PROVE  issued[c][k].id \in calls'[c] \/ Has(answered[c], issued[c][k].id)
      BY <1>1 DEF Waits, Has
    <2>1. CASE k = n
      <3>1. Waiting(g) = {op[g].id} BY <2>1, <1>3 DEF Waiting
      <3> QED BY <2>1, <3>1, <1>1, <1>3
    <2>2. CASE k # n BY <2>2, <1>1 DEF CleanInv, Waits
    <2> QED BY <2>1, <2>2
  <1> QED BY <1>1, <1>5, <1>6, <1>7, <1>8, SameCalls DEF CleanInv

\* Dispatch reads an id: the first of the replies is to a call that waits.
LEMMA CleanDispatchId ==
  ASSUME Types, NEW g \in Goroutine, DispatchId(g),
         NEW c \in Client, c = ClientOf[g], CleanInv(c), clean'[c]
  PROVE  CleanInv(c)'
  <1> DEFINE s == replies[c]
             id == Head(s)
             doing == [doing |-> "dispatch", id |-> id]
  <1>1. /\ op[g] = Idle /\ s # <<>> /\ op'[g] = IF id \in calls[c] THEN doing ELSE op[g]
        /\ \A h \in Users(c) \ {g} : op'[h] = op[h]
        /\ replies'[c] = Tail(s) /\ Alone(g)
        /\ issued'[c] = issued[c] /\ requests'[c] = requests[c] /\ calls'[c] = calls[c]
        /\ panicked'[c] = panicked[c] /\ executed'[c] = executed[c] /\ answered'[c] = answered[c]
    BY DEF DispatchId, Types, Users
  <1>2. g \in Users(c) BY DEF Users
  <1>3. \A h \in Users(c) : op[h].doing = "nothing"
    BY <1>1, <1>2, IdleFacts DEF Alone
  <1>4. s \in Seq(Nat) /\ id = s[1] /\ <<id>> \o Tail(s) = s
    BY <1>1, Lengths
  <1>5. doing.doing = "dispatch" /\ doing.id = id OBVIOUS
  <1> HIDE DEF s, id, doing
  <1>6. RepliesAre(c, s) BY <1>3 DEF CleanInv, Replied, s
  <1>7. PICK k \in DOMAIN issued[c] :
          \E result : ReplyTo(issued[c], Len(executed[c]), answered[c], k, id, result)
    <2>1. PICK pairs \in Nat :
            /\ Len(s) = 2 * pairs
            /\ \A i \in 1..pairs : \E k \in DOMAIN issued[c] :
                 ReplyTo(issued[c], Len(executed[c]), answered[c], k, s[2 * i - 1], s[2 * i])
      BY <1>6 DEF RepliesAre, Paired
    <2>2. Len(s) # 0 BY <1>1, <1>4
    <2>3. 1 \in 1..pairs /\ 2 * 1 - 1 = 1 BY <2>1, <2>2
    <2>4. PICK k \in DOMAIN issued[c] :
            ReplyTo(issued[c], Len(executed[c]), answered[c], k, s[2 * 1 - 1], s[2 * 1])
      BY <2>1, <2>3
    <2> QED BY <2>3, <2>4, <1>4
  <1>8. id \in calls[c]
    <2>1. issued[c][k].call.wants /\ ~Has(answered[c], issued[c][k].id) /\ id = issued[c][k].id
      BY <1>7 DEF CleanInv, ReturnsAreWanted, Returns, ReplyTo
    <2> QED BY <2>1, <1>3 DEF CleanInv, Waits
  <1>9. /\ op'[g].doing = "dispatch" /\ op'[g].id = id
        /\ \A h \in Users(c) \ {g} : op'[h].doing = "nothing"
    BY <1>1, <1>3, <1>5, <1>8
  <1>10. OneAtATime(c)' /\ LastIsWritten(c)' BY <1>9 DEF OneAtATime, LastIsWritten
  <1>11. AllIsWritten(c)' BY <1>1, <1>3 DEF CleanInv, AllIsWritten
  <1>12. Replied(c)'
    <2>1. RepliesAre(c, <<op[g].id>> \o replies[c])' BY <1>1, <1>4, <1>6, <1>9 DEF RepliesAre
    <2>2. \A h \in Users(c) : op'[h].doing = "dispatch" => h = g BY <1>9
    <2> QED BY <1>2, <1>9, <2>1, <2>2 DEF Replied
  <1>13. Waits(c)' BY <1>1, <1>3 DEF CleanInv, Waits
  <1> QED BY <1>1, <1>10, <1>11, <1>12, <1>13, SameCalls DEF CleanInv

-----------------------------------------------------------------------------
(* Streams of replies.                                                     *)

\* The first reply is read, and becomes an answer.
LEMMA FirstReply ==
  ASSUME NEW entries, NEW n, NEW answers \in Seq([id : Nat, result : Nat]), NEW id \in Nat,
         NEW s \in Seq(Nat), s # <<>>, Paired(entries, n, answers, <<id>> \o s)
  PROVE  /\ \E k \in DOMAIN entries : ReplyTo(entries, n, answers, k, id, Head(s))
         /\ Paired(entries, n, Append(answers, [id |-> id, result |-> Head(s)]), Tail(s))
  <1> DEFINE all == <<id>> \o s
             answer == [id |-> id, result |-> Head(s)]
             after == Append(answers, answer)
  <1>1. /\ Len(all) = 1 + Len(s) /\ Len(s) \in Nat /\ Len(s) >= 1 /\ all[1] = id
        /\ \A i \in 1..Len(s) : all[i + 1] = s[i]
        /\ Head(s) = s[1] /\ Head(s) \in Nat
        /\ Len(Tail(s)) = Len(s) - 1 /\ \A i \in 1..(Len(s) - 1) : Tail(s)[i] = s[i + 1]
    BY TailFacts
  <1>2. PICK pairs \in Nat :
          /\ Len(all) = 2 * pairs
          /\ \A i \in 1..pairs : \E k \in DOMAIN entries :
               ReplyTo(entries, n, answers, k, all[2 * i - 1], all[2 * i])
          /\ \A i, j \in 1..pairs : all[2 * i - 1] = all[2 * j - 1] => i = j
    BY DEF Paired
  <1>3. answer \in [id : Nat, result : Nat] /\ answer.id = id BY <1>1
  <1> HIDE DEF all, answer
  <1>4. 1 \in 1..pairs /\ pairs - 1 \in Nat /\ 2 * (pairs - 1) = Len(s) - 1
    <2>1. 1 + Len(s) = 2 * pairs /\ Len(s) \in Nat /\ Len(s) >= 1 BY <1>1, <1>2
    <2> QED BY <2>1
  <1>5. \E k \in DOMAIN entries : ReplyTo(entries, n, answers, k, id, Head(s))
    <2>1. PICK k \in DOMAIN entries : ReplyTo(entries, n, answers, k, all[2 * 1 - 1], all[2 * 1])
      BY <1>2, <1>4
    <2>2. all[2 * 1 - 1] = id /\ all[2 * 1] = Head(s) BY <1>1
    <2> QED BY <2>1, <2>2
  <1>6. \A x : Has(after, x) => Has(answers, x) \/ x = id
    <2>1. \A a \in DOMAIN after :
            (a \in DOMAIN answers /\ after[a] = answers[a]) \/ after[a] = answer
      BY <1>3
    <2> QED BY <2>1, <1>3 DEF Has
  <1>7. \A i \in 1..(pairs - 1) :
          /\ i + 1 \in 1..pairs
          /\ Tail(s)[2 * i - 1] = all[2 * (i + 1) - 1] /\ Tail(s)[2 * i] = all[2 * (i + 1)]
    <2> TAKE i \in 1..(pairs - 1)
    <2>1. /\ i + 1 \in 1..pairs /\ 2 * i - 1 \in 1..(Len(s) - 1) /\ 2 * i \in 1..(Len(s) - 1)
          /\ 2 * i \in 1..Len(s) /\ 2 * i + 1 \in 1..Len(s)
      BY <1>4, <1>1
    <2>2. Tail(s)[2 * i - 1] = s[2 * i] /\ Tail(s)[2 * i] = s[2 * i + 1] BY <2>1, <1>1
    <2>3. s[2 * i] = all[2 * i + 1] /\ s[2 * i + 1] = all[2 * i + 2] BY <2>1, <1>1
    <2> QED BY <2>1, <2>2, <2>3
  <1>8. \A i \in 1..(pairs - 1) : \E k \in DOMAIN entries :
          ReplyTo(entries, n, after, k, Tail(s)[2 * i - 1], Tail(s)[2 * i])
    <2> TAKE i \in 1..(pairs - 1)
    <2>1. PICK k \in DOMAIN entries :
            ReplyTo(entries, n, answers, k, all[2 * (i + 1) - 1], all[2 * (i + 1)])
      BY <1>2, <1>7
    <2>2. all[2 * (i + 1) - 1] # id
      <3>1. i + 1 \in 1..pairs /\ i + 1 # 1 /\ all[2 * 1 - 1] = id BY <1>1, <1>7
      <3> QED BY <3>1, <1>2, <1>4
    <2>3. ReplyTo(entries, n, after, k, all[2 * (i + 1) - 1], all[2 * (i + 1)])
      BY <2>1, <2>2, <1>6 DEF ReplyTo
    <2> QED BY <2>3, <1>7
  <1>9. \A i, j \in 1..(pairs - 1) : Tail(s)[2 * i - 1] = Tail(s)[2 * j - 1] => i = j
    <2> SUFFICES ASSUME NEW i \in 1..(pairs - 1), NEW j \in 1..(pairs - 1),
                        Tail(s)[2 * i - 1] = Tail(s)[2 * j - 1]
                 PROVE  i = j
      OBVIOUS
    <2>1. all[2 * (i + 1) - 1] = all[2 * (j + 1) - 1] BY <1>7
    <2>2. i + 1 = j + 1 BY <2>1, <1>2, <1>7
    <2> QED BY <2>2
  <1>10. Paired(entries, n, after, Tail(s)) BY <1>1, <1>4, <1>8, <1>9 DEF Paired
  <1> QED BY <1>5, <1>10 DEF answer

\* One more request is executed: if it has a reply, that is one more pair.
LEMMA OneMoreReply ==
  ASSUME NEW entries, NEW n \in Nat, n + 1 \in DOMAIN entries, DOMAIN entries \subseteq Nat,
         \A i, j \in DOMAIN entries : entries[i].id = entries[j].id => i = j,
         entries[n + 1].id \in Nat, Result(entries[n + 1].call.arg) \in Nat,
         NEW answers, ~Has(answers, entries[n + 1].id),
         NEW s \in Seq(Nat), Paired(entries, n, answers, s)
  PROVE  Paired(entries, n + 1, answers,
                s \o Reply(entries[n + 1].id, entries[n + 1].call.method, entries[n + 1].call.arg))
  <1> DEFINE new == entries[n + 1]
             result == Result(new.call.arg)
             after == s \o <<new.id, result>>
  <1>1. PICK pairs \in Nat :
          /\ Len(s) = 2 * pairs
          /\ \A i \in 1..pairs : \E k \in DOMAIN entries :
               ReplyTo(entries, n, answers, k, s[2 * i - 1], s[2 * i])
          /\ \A i, j \in 1..pairs : s[2 * i - 1] = s[2 * j - 1] => i = j
    BY DEF Paired
  <1>2. \A k \in DOMAIN entries : \A id, r :
          ReplyTo(entries, n, answers, k, id, r)
            => ReplyTo(entries, n + 1, answers, k, id, r) /\ id # new.id
    <2> SUFFICES ASSUME NEW k \in DOMAIN entries, NEW id, NEW r,
                        ReplyTo(entries, n, answers, k, id, r)
                 PROVE  ReplyTo(entries, n + 1, answers, k, id, r) /\ id # new.id
      OBVIOUS
    <2>1. k \in Nat /\ k <= n /\ id = entries[k].id BY DEF ReplyTo
    <2>2. k <= n + 1 /\ k # n + 1 BY <2>1
    <2> QED BY <2>1, <2>2 DEF ReplyTo
  <1>3. CASE ~HasResult[new.call.method + 1]
    <2>1. s \o Reply(new.id, new.call.method, new.call.arg) = s BY <1>3 DEF Reply
    <2>2. \A i \in 1..pairs : \E k \in DOMAIN entries :
            ReplyTo(entries, n + 1, answers, k, s[2 * i - 1], s[2 * i])
      BY <1>1, <1>2
    <2>3. Paired(entries, n + 1, answers, s) BY <1>1, <2>2 DEF Paired
    <2> QED BY <2>1, <2>3
  <1>4. CASE HasResult[new.call.method + 1]
    <2>1. s \o Reply(new.id, new.call.method, new.call.arg) = after BY <1>4 DEF Reply
    <2>2. /\ Len(after) = 2 * (pairs + 1)
          /\ \A i \in 1..(2 * pairs) : after[i] = s[i]
          /\ after[2 * (pairs + 1) - 1] = new.id /\ after[2 * (pairs + 1)] = result
      <3>1. Len(after) = Len(s) + 2 /\ \A i \in 1..Len(s) : after[i] = s[i] OBVIOUS
      <3>2. after[Len(s) + 1] = new.id /\ after[Len(s) + 2] = result OBVIOUS
      <3>3. Len(s) + 1 = 2 * (pairs + 1) - 1 /\ Len(s) + 2 = 2 * (pairs + 1) BY <1>1
      <3> QED BY <3>1, <3>2, <3>3, <1>1
    <2> HIDE DEF after
    <2>3. \A i \in 1..pairs : after[2 * i - 1] = s[2 * i - 1] /\ after[2 * i] = s[2 * i]
      BY <2>2
    <2>4. \A i \in 1..(pairs + 1) : i \in 1..pairs \/ i = pairs + 1 OBVIOUS
    <2>5. \A i \in 1..(pairs + 1) : \E k \in DOMAIN entries :
            ReplyTo(entries, n + 1, answers, k, after[2 * i - 1], after[2 * i])
      <3> TAKE i \in 1..(pairs + 1)
      <3>1. CASE i \in 1..pairs
        <4>1. PICK k \in DOMAIN entries : ReplyTo(entries, n, answers, k, s[2 * i - 1], s[2 * i])
          BY <3>1, <1>1
        <4> QED BY <4>1, <3>1, <2>3, <1>2
      <3>2. CASE i = pairs + 1
        <4>1. ReplyTo(entries, n + 1, answers, n + 1, new.id, result) BY <1>4 DEF ReplyTo
        <4> QED BY <4>1, <3>2, <2>2
      <3> QED BY <3>1, <3>2, <2>4
    <2>6. \A i \in 1..pairs : after[2 * i - 1] # after[2 * (pairs + 1) - 1]
      <3> TAKE i \in 1..pairs
      <3>1. PICK k \in DOMAIN entries : ReplyTo(entries, n, answers, k, s[2 * i - 1], s[2 * i])
        BY <1>1
      <3>2. s[2 * i - 1] # new.id BY <3>1, <1>2
      <3> QED BY <3>2, <2>2, <2>3
    <2>7. \A i, j \in 1..(pairs + 1) : after[2 * i - 1] = after[2 * j - 1] => i = j
      <3> SUFFICES ASSUME NEW i \in 1..(pairs + 1), NEW j \in 1..(pairs + 1),
                          after[2 * i - 1] = after[2 * j - 1]
                   PROVE  i = j
        OBVIOUS
      <3>1. CASE i \in 1..pairs /\ j \in 1..pairs BY <3>1, <1>1, <2>3
      <3>2. CASE ~(i \in 1..pairs /\ j \in 1..pairs) BY <3>2, <2>4, <2>6
      <3> QED BY <3>1, <3>2
    <2>8. pairs + 1 \in Nat OBVIOUS
    <2>9. Paired(entries, n + 1, answers, after) BY <2>2, <2>5, <2>7, <2>8 DEF Paired
    <2> QED BY <2>1, <2>9
  <1> QED BY <1>3, <1>4

-----------------------------------------------------------------------------
(* The rest of the steps.                                                  *)

\* Dispatch reads the value: it is the result of the call with that id.
LEMMA CleanDispatchValue ==
  ASSUME Types, NEW g \in Goroutine, DispatchValue(g),
         NEW c \in Client, c = ClientOf[g], CleanInv(c)
  PROVE  CleanInv(c)'
  <1> DEFINE s == replies[c]
             answer == [id |-> op[g].id, result |-> Head(s)]
  <1>1. /\ op[g].doing = "dispatch" /\ s # <<>> /\ op'[g] = Idle
        /\ \A h \in Users(c) \ {g} : op'[h] = op[h]
        /\ replies'[c] = Tail(s) /\ answered'[c] = Append(answered[c], answer)
        /\ calls'[c] = calls[c] \ {op[g].id}
        /\ issued'[c] = issued[c] /\ requests'[c] = requests[c]
        /\ panicked'[c] = panicked[c] /\ executed'[c] = executed[c]
    BY DEF DispatchValue, Types, Users
  <1>2. g \in Users(c) BY DEF Users
  <1>3. /\ \A h \in Users(c) : op'[h].doing = "nothing"
        /\ \A h \in Users(c) : op[h].doing # "go"
    BY <1>1, <1>2, OthersIdle, IdleFacts DEF CleanInv
  <1>4. /\ op[g].id \in Nat /\ s \in Seq(Nat) /\ Head(s) \in Nat
        /\ answered[c] \in Seq([id : Nat, result : Nat])
    <2>1. op[g].id \in Nat BY <1>1, DispatchFacts
    <2>2. s \in Seq(Nat) BY Lengths
    <2>3. Head(s) \in Nat BY <1>1, <2>2, TailFacts
    <2>4. answered[c] \in Seq([id : Nat, result : Nat]) BY DEF Types
    <2> QED BY <2>1, <2>2, <2>3, <2>4
  <1>5. /\ \E k \in DOMAIN issued[c] :
             ReplyTo(issued[c], Len(executed[c]), answered[c], k, op[g].id, Head(s))
        /\ Paired(issued[c], Len(executed[c]), answered'[c], Tail(s))
    <2>1. Paired(issued[c], Len(executed[c]), answered[c], <<op[g].id>> \o s)
      BY <1>1, <1>2 DEF CleanInv, Replied, RepliesAre
    <2>2. s # <<>> /\ answered'[c] = Append(answered[c], answer) BY <1>1
    <2> HIDE DEF s
    <2> QED BY <1>4, <2>1, <2>2, FirstReply
  <1>6. /\ answer \in [id : Nat, result : Nat] /\ answer.id = op[g].id /\ answer.result = Head(s)
    BY <1>4
  <1> HIDE DEF s, answer
  <1>7. /\ \A a \in DOMAIN answered[c] :
             a \in DOMAIN answered'[c] /\ answered'[c][a] = answered[c][a]
        /\ \A a \in DOMAIN answered'[c] :
             \/ a \in DOMAIN answered[c] /\ answered'[c][a] = answered[c][a]
             \/ a = Len(answered[c]) + 1 /\ answered'[c][a] = answer
        /\ \E a \in DOMAIN answered'[c] : answered'[c][a] = answer
    <2> DEFINE m == Len(answered[c])
    <2>1. /\ DOMAIN answered'[c] = 1..(m + 1)
          /\ DOMAIN answered[c] = 1..m /\ m \in Nat
          /\ \A a \in 1..m : answered'[c][a] = answered[c][a]
          /\ answered'[c][m + 1] = answer
      BY <1>1, <1>4, <1>6
    <2> HIDE DEF m
    <2>2. /\ \A a \in 1..(m + 1) : a \in 1..m \/ a = m + 1
          /\ \A a \in 1..m : a \in 1..(m + 1)
          /\ m + 1 \in 1..(m + 1)
      BY <2>1
    <2>3. /\ \A a \in DOMAIN answered[c] :
               a \in DOMAIN answered'[c] /\ answered'[c][a] = answered[c][a]
          /\ \A a \in DOMAIN answered'[c] :
               \/ a \in DOMAIN answered[c] /\ answered'[c][a] = answered[c][a]
               \/ a = m + 1 /\ answered'[c][a] = answer
          /\ \E a \in DOMAIN answered'[c] : answered'[c][a] = answer
      BY <2>1, <2>2
    <2> QED BY <2>3 DEF m
  <1>8. PICK k \in DOMAIN issued[c] :
          ReplyTo(issued[c], Len(executed[c]), answered[c], k, op[g].id, Head(s))
    BY <1>5
  <1>9. OneAtATime(c)' /\ LastIsWritten(c)' BY <1>3 DEF OneAtATime, LastIsWritten
  <1>10. AllIsWritten(c)' BY <1>1, <1>3 DEF CleanInv, AllIsWritten
  <1>11. Replied(c)'
    <2>1. RepliesAre(c, replies[c])' BY <1>1, <1>5 DEF RepliesAre
    <2> QED BY <2>1, <1>3 DEF Replied
  <1>12. Waits(c)'
    <2> SUFFICES ASSUME NEW j \in DOMAIN issued[c], issued[c][j].call.wants
                 PROVE  issued[c][j].id \in calls'[c]
                          \/ \E a \in DOMAIN answered'[c] : answered'[c][a].id = issued[c][j].id
      BY <1>1 DEF Waits, Has
    <2>1. issued[c][j].id \in calls[c] \/ Has(answered[c], issued[c][j].id)
      BY <1>3 DEF CleanInv, Waits
    <2>2. CASE issued[c][j].id = op[g].id BY <2>2, <1>6, <1>7
    <2>3. CASE issued[c][j].id # op[g].id BY <2>1, <2>3, <1>1, <1>7 DEF Has
    <2> QED BY <2>2, <2>3
  <1>13. AnswersOf(c)'
    <2>1. AnswersAre(issued[c], Len(executed[c]), answered[c]) BY DEF CleanInv, AnswersOf
    <2>2. ~Has(answered[c], answer.id) BY <1>6, <1>8 DEF ReplyTo
    <2>3. IsAnswer(issued[c], Len(executed[c]), k, answer)
      <3>1. /\ k <= Len(executed[c]) /\ HasResult[issued[c][k].call.method + 1]
            /\ op[g].id = issued[c][k].id /\ Head(s) = Result(issued[c][k].call.arg)
        BY <1>8 DEF ReplyTo
      <3>2. issued[c][k].call.wants BY <3>1 DEF CleanInv, ReturnsAreWanted, Returns
      <3>3. answer = [id |-> issued[c][k].id, result |-> Result(issued[c][k].call.arg)]
        BY <3>1 DEF answer
      <3> QED BY <3>1, <3>2, <3>3 DEF IsAnswer
    <2>4. AnswersAre(issued[c], Len(executed[c]), Append(answered[c], answer))
      BY <2>1, <2>2, <2>3, <1>4, <1>6, OneMoreAnswer
    <2> QED BY <2>4, <1>1 DEF AnswersOf
  <1> QED BY <1>1, <1>9, <1>10, <1>11, <1>12, <1>13, SameCalls DEF CleanInv

\* The first units on the stream are those of the next call.
LEMMA NextRequest ==
  ASSUME Types, NEW c \in Client, CleanInv(c), NEW j \in 1..3, Len(requests[c]) >= j
  PROVE  /\ Len(executed[c]) + 1 \in DOMAIN issued[c]
         /\ requests[c][j] = Unit(issued[c][Len(executed[c]) + 1], j)
  <1> DEFINE n == Len(issued[c])
             e == Len(executed[c])
             r == Len(requests[c])
  <1>1. n \in Nat /\ e \in Nat /\ r \in Nat BY Lengths
  <1>2. 3 * e + r <= 3 * n
    <2>1. CASE \A g \in Users(c) : op[g].doing # "go"
      <3>1. 3 * e + r = 3 * n BY <2>1 DEF CleanInv, AllIsWritten
      <3> HIDE DEF n, e, r
      <3> QED BY <3>1, <1>1
    <2>2. CASE ~\A g \in Users(c) : op[g].doing # "go"
      <3>1. PICK g \in Users(c) : op[g].doing = "go" BY <2>2
      <3> DEFINE left == Len(op[g].todo)
      <3>2. 3 * e + r + left = 3 * n BY <3>1 DEF CleanInv, LastIsWritten, Writes, Completes
      <3>3. left \in Nat
        <4>1. op[g].todo \in Seq(Nat) BY <3>1, GoingFacts DEF Users
        <4> QED BY <4>1
      <3> HIDE DEF n, e, r, left
      <3> QED BY <3>2, <3>3, <1>1
    <2> QED BY <2>1, <2>2
  <1>3. /\ DOMAIN issued[c] = 1..n /\ DOMAIN requests[c] = 1..r /\ r >= j /\ Requested(c)
    BY Lengths DEF CleanInv
  <1>4. IsUnit(j, e, e + 1, j)
    <2> HIDE DEF e
    <2> QED BY <1>1 DEF IsUnit
  <1> HIDE DEF n, r
  <1>5. e + 1 \in 1..n /\ j \in 1..r
    <2> HIDE DEF e
    <2> QED BY <1>1, <1>2, <1>3
  <1> QED BY <1>3, <1>4, <1>5 DEF Requested, UnitsOf

LEMMA JoinNat ==
  ASSUME NEW s \in Seq(Nat), NEW t \in Seq(Nat), NEW u \in Seq(Nat)
  PROVE  s \o (t \o u) = (s \o t) \o u
  BY SMTT(60)

LEMMA StreamsJoin ==
  ASSUME NEW id \in Nat, NEW s \in Seq(Nat), NEW u \in Seq(Nat)
  PROVE  <<id>> \o (s \o u) = (<<id>> \o s) \o u
  <1>1. <<id>> \in Seq(Nat) OBVIOUS
  <1> QED BY <1>1, JoinNat, Zenon

\* The server handles a request: it is the next call that was issued.
LEMMA CleanHandle ==
  ASSUME Types, IdsFresh, NEW c \in Client, Handle(c), CleanInv(c)
  PROVE  CleanInv(c)'
  <1> DEFINE n == Len(issued[c])
             e == Len(executed[c])
             r == Len(requests[c])
             q == requests[c]
             new == issued[c][e + 1]
             done == [id |-> new.id, method |-> new.call.method, arg |-> new.call.arg]
             reply == Reply(new.id, new.call.method, new.call.arg)
  <1>1. /\ Len(q) >= 3 /\ op' = op
        /\ requests'[c] = SubSeq(q, 4, Len(q))
        /\ executed'[c] = Append(executed[c], [id |-> q[1], method |-> q[2], arg |-> q[3]])
        /\ replies'[c] = replies[c] \o Reply(q[1], q[2], q[3])
        /\ q[2] \in Methods
        /\ issued'[c] = issued[c] /\ calls'[c] = calls[c]
        /\ panicked'[c] = panicked[c] /\ answered'[c] = answered[c]
    <2>1. requests'[c] = SubSeq(q, 4, Len(q)) BY DEF Handle, Types, Units
    <2>2. executed'[c] = Append(executed[c], [id |-> q[1], method |-> q[2], arg |-> q[3]])
      BY DEF Handle, Types
    <2>3. replies'[c] = replies[c] \o Reply(q[1], q[2], q[3]) BY DEF Handle, Types
    <2>4. /\ Len(q) >= 3 /\ op' = op /\ q[2] \in Methods
          /\ issued'[c] = issued[c] /\ calls'[c] = calls[c]
          /\ panicked'[c] = panicked[c] /\ answered'[c] = answered[c]
      BY DEF Handle
    <2> QED BY <2>1, <2>2, <2>3, <2>4
  <1>2. /\ n \in Nat /\ e \in Nat /\ r \in Nat /\ q \in Seq(Nat)
        /\ DOMAIN issued[c] = 1..n /\ DOMAIN requests[c] = 1..r /\ DOMAIN executed[c] = 1..e
    BY Lengths
  <1>3. /\ e + 1 \in 1..n
        /\ q[1] = new.id /\ q[2] = new.call.method /\ q[3] = new.call.arg
    <2>1. \A j \in 1..3 : e + 1 \in DOMAIN issued[c] /\ q[j] = Unit(new, j)
      <3> TAKE j \in 1..3
      <3>1. r >= j BY <1>1, <1>2
      <3> QED BY <3>1, NextRequest
    <2> HIDE DEF e, q, new
    <2>2. e + 1 \in DOMAIN issued[c] /\ q[1] = Unit(new, 1) /\ q[2] = Unit(new, 2) /\ q[3] = Unit(new, 3)
      BY <2>1
    <2> QED BY <1>2, <2>2 DEF Unit
  <1>4. executed'[c] = Append(executed[c], done) /\ replies'[c] = replies[c] \o reply
    BY <1>1, <1>3
  <1>5. done \in [id : Nat, method : Methods, arg : Nat]
    <2>1. q[1] \in Nat /\ q[3] \in Nat
      <3>1. 1 \in 1..Len(q) /\ 3 \in 1..Len(q) /\ q \in Seq(Nat) BY <1>1, <1>2
      <3> HIDE DEF q
      <3> QED BY <3>1, ElementOf
    <2> QED BY <2>1, <1>1, <1>3
  <1>6. /\ Len(executed'[c]) = e + 1 /\ DOMAIN executed'[c] = 1..(e + 1)
        /\ \A k \in 1..e : executed'[c][k] = executed[c][k]
        /\ executed'[c][e + 1] = done
    <2> DEFINE DoneType == [id : Nat, method : Methods, arg : Nat]
    <2>1. executed[c] \in Seq(DoneType) /\ done \in DoneType BY <1>5 DEF Types
    <2> HIDE DEF done, DoneType, e
    <2>2. executed'[c] = Append(executed[c], done) BY <1>4
    <2>3. /\ executed'[c] \in Seq(DoneType)
          /\ Len(executed'[c]) = Len(executed[c]) + 1
          /\ executed'[c][Len(executed[c]) + 1] = done
          /\ \A k \in 1..Len(executed[c]) : executed'[c][k] = executed[c][k]
      BY <2>1, <2>2, AppendKeeps
    <2>4. DOMAIN executed'[c] = 1..Len(executed'[c]) BY <2>3
    <2> QED BY <2>3, <2>4 DEF e
  <1>7. /\ Len(requests'[c]) = r - 3 /\ DOMAIN requests'[c] = 1..(r - 3) /\ r - 3 \in Nat
        /\ \A i \in 1..(r - 3) : requests'[c][i] = q[i + 3]
    BY <1>1, <1>2
  <1>8. /\ new.id \in Nat /\ Result(new.call.arg) \in Nat
        /\ \A i, j \in DOMAIN issued[c] : issued[c][i].id = issued[c][j].id => i = j
    BY <1>5 DEF Result, IdsFresh
  <1> HIDE DEF n, e, r, done
  <1>9. OneAtATime(c)' BY <1>1 DEF CleanInv, OneAtATime
  <1>10. ReturnsAreWanted(c)' BY <1>1 DEF CleanInv, ReturnsAreWanted, Returns
  <1>11. LastIsWritten(c)'
    <2> SUFFICES ASSUME NEW g \in Users(c), op[g].doing = "go" PROVE Writes(c, g)'
      BY <1>1 DEF LastIsWritten
    <2> DEFINE left == Len(op[g].todo)
    <2>1. Writes(c, g) BY DEF CleanInv, LastIsWritten
    <2>2. left \in Nat
      <3>1. op[g].todo \in Seq(Nat) BY GoingFacts DEF Users
      <3> QED BY <3>1
    <2>3. 3 * e + r + left = 3 * n BY <2>1 DEF Writes, Completes, n, e, r
    <2>4. 3 * (e + 1) + (r - 3) + left = 3 * n
      <3> HIDE DEF left
      <3> QED BY <1>2, <1>7, <2>2, <2>3
    <2>5. 3 * Len(executed'[c]) + Len(requests'[c]) + left = 3 * Len(issued[c])
      BY <2>4, <1>6, <1>7 DEF n
    <2> QED BY <2>1, <2>5, <1>1 DEF Writes, Completes
  <1>12. AllIsWritten(c)'
    <2> SUFFICES ASSUME \A g \in Users(c) : op[g].doing # "go"
                 PROVE  3 * Len(executed'[c]) + Len(requests'[c]) = 3 * Len(issued[c])
      BY <1>1 DEF AllIsWritten
    <2>1. 3 * e + r = 3 * n BY DEF CleanInv, AllIsWritten, n, e, r
    <2>2. 3 * (e + 1) + (r - 3) = 3 * n BY <2>1, <1>2, <1>7
    <2> QED BY <2>2, <1>6, <1>7 DEF n
  <1>13. Requested(c)'
    <2> DEFINE after == e + 1
               kept == r - 3
    <2> SUFFICES ASSUME NEW k \in 1..n, NEW j \in 1..3, NEW i \in 1..kept,
                        IsUnit(i, after, k, j)
                 PROVE  requests'[c][i] = Unit(issued[c][k], j)
      <3>1. /\ DOMAIN issued'[c] = 1..n /\ DOMAIN requests'[c] = 1..kept
            /\ Len(executed'[c]) = after /\ issued'[c] = issued[c]
        BY <1>1, <1>2, <1>6, <1>7
      <3> HIDE DEF after, kept
      <3> QED BY <3>1 DEF Requested, UnitsOf
    <2>1. IsUnit(i + 3, e, k, j) BY <1>2, <1>7 DEF IsUnit
    <2>2. i + 3 \in 1..r BY <1>2, <1>7
    <2>3. Requested(c) BY DEF CleanInv
    <2>4. q[i + 3] = Unit(issued[c][k], j) BY <2>1, <2>2, <2>3, <1>2 DEF Requested, UnitsOf, e
    <2> QED BY <2>4, <1>7
  <1>14. Executes(c)'
    <2>1. /\ ~panicked[c]
          /\ \A k \in 1..e :
               executed[c][k] = [id |-> issued[c][k].id, method |-> issued[c][k].call.method,
                                 arg |-> issued[c][k].call.arg]
      BY <1>2 DEF CleanInv, Executes
    <2>2. \A k \in 1..(e + 1) : k \in 1..e \/ k = e + 1 BY <1>2
    <2>3. \A k \in 1..(e + 1) :
            executed'[c][k] = [id |-> issued[c][k].id, method |-> issued[c][k].call.method,
                               arg |-> issued[c][k].call.arg]
      BY <2>1, <2>2, <1>6 DEF done
    <2>4. e + 1 <= Len(issued[c]) BY <1>2, <1>3 DEF n
    <2> QED BY <2>1, <2>3, <2>4, <1>1, <1>6 DEF Executes
  <1>15. \A s \in Seq(Nat) : Paired(issued[c], e, answered[c], s)
                               => Paired(issued[c], e + 1, answered[c], s \o reply)
    <2> TAKE s \in Seq(Nat)
    <2>1. ~Has(answered[c], new.id)
      <3> SUFFICES ASSUME NEW a \in DOMAIN answered[c] PROVE answered[c][a].id # new.id
        BY DEF Has
      <3>1. PICK k \in DOMAIN issued[c] : k <= e /\ answered[c][a].id = issued[c][k].id
        <4>1. AnswersAre(issued[c], e, answered[c]) BY DEF CleanInv, AnswersOf, e
        <4>2. PICK k \in DOMAIN issued[c] : IsAnswer(issued[c], e, k, answered[c][a])
          BY <4>1 DEF AnswersAre
        <4>3. k <= e /\ answered[c][a].id = issued[c][k].id BY <4>2 DEF IsAnswer
        <4> QED BY <4>2, <4>3
      <3>2. k # e + 1 /\ e + 1 \in DOMAIN issued[c] BY <3>1, <1>2, <1>3
      <3> QED BY <3>1, <3>2, <1>8
    <2>2. e + 1 \in DOMAIN issued[c] /\ DOMAIN issued[c] \subseteq Nat BY <1>2, <1>3
    <2> QED BY <2>1, <2>2, <1>2, <1>8, OneMoreReply
  <1>16. Replied(c)'
    <2>1. replies[c] \in Seq(Nat) BY Lengths
    <2>2. ASSUME \A g \in Users(c) : op[g].doing # "dispatch"
          PROVE  Paired(issued[c], e + 1, answered[c], replies'[c])
      <3>1. Paired(issued[c], e, answered[c], replies[c])
        BY <2>2 DEF CleanInv, Replied, RepliesAre, e
      <3> QED BY <3>1, <2>1, <1>4, <1>15
    <2>3. ASSUME NEW g \in Users(c), op[g].doing = "dispatch"
          PROVE  Paired(issued[c], e + 1, answered[c], <<op[g].id>> \o replies'[c])
      <3> DEFINE s == <<op[g].id>> \o replies[c]
      <3>1. Paired(issued[c], e, answered[c], s)
        BY <2>3 DEF CleanInv, Replied, RepliesAre, e
      <3>2. op[g].id \in Nat BY <2>3, DispatchFacts DEF Users
      <3>3. s \in Seq(Nat) BY <2>1, <3>2
      <3>4. reply \in Seq(Nat) BY <1>8 DEF Reply
      <3>5. <<op[g].id>> \o (replies[c] \o reply) = s \o reply
        <4> HIDE DEF reply
        <4> QED BY <2>1, <3>2, <3>4, StreamsJoin
      <3> QED BY <3>1, <3>3, <3>5, <1>4, <1>15
    <2> QED BY <2>2, <2>3, <1>1, <1>6 DEF Replied, RepliesAre
  <1>17. Waits(c)' BY <1>1 DEF CleanInv, Waits
  <1>18. AnswersOf(c)'
    <2>1. AnswersAre(issued[c], e, answered[c]) BY DEF CleanInv, AnswersOf, e
    <2>2. e \in Nat /\ e + 1 \in Nat /\ e <= e + 1 /\ DOMAIN issued[c] \subseteq Nat BY <1>2
    <2>3. AnswersAre(issued[c], e + 1, answered[c]) BY <2>1, <2>2, AnswersKept
    <2> QED BY <2>3, <1>1, <1>6 DEF AnswersOf
  <1> QED BY <1>9, <1>10, <1>11, <1>12, <1>13, <1>14, <1>16, <1>17, <1>18 DEF CleanInv

\* The server of a clean client does not panic.
LEMMA CleanNoPanic ==
  ASSUME Types, NEW c \in Client, CleanInv(c) PROVE ~HandlePanics(c)
  <1> SUFFICES ASSUME HandlePanics(c) PROVE FALSE OBVIOUS
  <1> DEFINE new == issued[c][Len(executed[c]) + 1]
  <1>1. Len(requests[c]) >= 2 /\ requests[c][2] \notin Methods BY DEF HandlePanics
  <1>2. Len(executed[c]) + 1 \in DOMAIN issued[c] /\ requests[c][2] = Unit(new, 2)
    BY <1>1, NextRequest
  <1>3. new \in IssueType
    <2>1. issued[c] \in Seq(IssueType) BY Lengths
    <2> QED BY <1>2, <2>1
  <1> HIDE DEF new
  <1>4. new.call.method \in Methods BY <1>3 DEF IssueType, Calls
  <1> QED BY <1>1, <1>2, <1>4 DEF Unit

\* What a goroutine or a server does leaves the other clients alone.
Apart(c) ==
  \A d \in Client \ {c} :
    /\ issued'[d] = issued[d] /\ executed'[d] = executed[d] /\ requests'[d] = requests[d]
    /\ replies'[d] = replies[d] /\ answered'[d] = answered[d] /\ calls'[d] = calls[d]
    /\ panicked'[d] = panicked[d] /\ clean'[d] = clean[d]
    /\ \A g \in Users(d) : op'[g] = op[g]

LEMMA GoroutinesApart ==
  ASSUME Types, NEW g \in Goroutine,
         \/ \E call \in NextCalls(g) : GoStart(g, call)
         \/ GoWrite(g) \/ GoFail(g) \/ GoRegister(g) \/ DispatchId(g) \/ DispatchValue(g)
  PROVE  Apart(ClientOf[g])
  <1> SUFFICES ASSUME NEW d \in Client \ {ClientOf[g]}
               PROVE  /\ issued'[d] = issued[d] /\ executed'[d] = executed[d]
                      /\ requests'[d] = requests[d] /\ replies'[d] = replies[d]
                      /\ answered'[d] = answered[d] /\ calls'[d] = calls[d]
                      /\ panicked'[d] = panicked[d] /\ clean'[d] = clean[d]
                      /\ \A h \in Users(d) : op'[h] = op[h]
    BY DEF Apart
  <1>1. \A h \in Users(d) : h # g /\ h \in Goroutine BY DEF Users
  <1>2. CASE \E call \in NextCalls(g) : GoStart(g, call) BY <1>1, <1>2 DEF GoStart, Types
  <1>3. CASE GoWrite(g) BY <1>1, <1>3 DEF GoWrite, Types
  <1>4. CASE GoFail(g) BY <1>1, <1>4 DEF GoFail, Types
  <1>5. CASE GoRegister(g) BY <1>1, <1>5 DEF GoRegister, Types
  <1>6. CASE DispatchId(g) BY <1>1, <1>6 DEF DispatchId, Types
  <1>7. CASE DispatchValue(g) BY <1>1, <1>7 DEF DispatchValue, Types
  <1> QED BY <1>2, <1>3, <1>4, <1>5, <1>6, <1>7

LEMMA ServersApart ==
  ASSUME Types, NEW c \in Client, Handle(c) \/ HandlePanics(c)
  PROVE  Apart(c)
  <1>1. CASE Handle(c) BY <1>1 DEF Handle, Types, Apart
  <1>2. CASE HandlePanics(c) BY <1>2 DEF HandlePanics, Types, Apart
  <1> QED BY <1>1, <1>2

LEMMA SoundInit == Init => Sound
  <1> SUFFICES ASSUME Init PROVE Sound OBVIOUS
  <1>1. ASSUME NEW c \in Client PROVE CleanInv(c)
    <2>1. /\ issued[c] = <<>> /\ executed[c] = <<>> /\ requests[c] = <<>> /\ replies[c] = <<>>
          /\ answered[c] = <<>> /\ panicked[c] = FALSE
      BY DEF Init
    <2>2. \A g \in Users(c) : op[g].doing = "nothing" BY DEF Init, Users, Idle
    <2>3. /\ OneAtATime(c) /\ LastIsWritten(c)
      BY <2>2 DEF OneAtATime, LastIsWritten
    <2>4. /\ ReturnsAreWanted(c) /\ AllIsWritten(c) /\ Executes(c) /\ Waits(c) /\ AnswersOf(c)
          /\ Requested(c)
      BY <2>1 DEF ReturnsAreWanted, AllIsWritten, Executes, Waits, AnswersOf, AnswersAre, Requested, UnitsOf
    <2>5. Paired(issued[c], Len(executed[c]), answered[c], <<>>)
      <3>1. 0 \in Nat /\ Len(<<>>) = 2 * 0 /\ 1..0 = {} OBVIOUS
      <3> QED BY <3>1 DEF Paired
    <2>6. Replied(c) BY <2>1, <2>2, <2>5 DEF Replied, RepliesAre
    <2> QED BY <2>3, <2>4, <2>6 DEF CleanInv
  <1> QED BY <1>1, IdsInit DEF Sound

LEMMA SoundStep == Types /\ Sound /\ [Next]_vars => Sound'
  <1> SUFFICES ASSUME Types, Sound, [Next]_vars PROVE Sound' OBVIOUS
  <1>1. IdsFresh' BY IdsStep DEF Sound
  <1>2. ASSUME NEW d \in Client, NEW c, d # c, Apart(c), clean'[d] PROVE CleanInv(d)'
    <2>1. CleanInv(d) BY <1>2 DEF Sound, Apart
    <2> QED BY <1>2, <2>1, SameClient DEF Apart
  <1>3. ASSUME UNCHANGED vars, NEW c \in Client, clean'[c] PROVE CleanInv(c)'
    BY <1>3, SameClient DEF vars, Sound
  <1>4. ASSUME NEW g \in Goroutine,
               \/ \E call \in NextCalls(g) : GoStart(g, call)
               \/ GoWrite(g) \/ GoFail(g) \/ GoRegister(g) \/ DispatchId(g) \/ DispatchValue(g),
               NEW d \in Client, clean'[d]
        PROVE  CleanInv(d)'
    <2>1. CASE d # ClientOf[g]
      <3>1. Apart(ClientOf[g]) BY <1>4, GoroutinesApart
      <3> QED BY <1>2, <1>4, <2>1, <3>1
    <2>2. CASE d = ClientOf[g]
      <3>1. clean[d] /\ ~GoFail(g)
        BY <1>4, <2>2 DEF GoStart, GoWrite, GoFail, GoRegister, DispatchId, DispatchValue, Types
      <3>2. CleanInv(d) BY <3>1 DEF Sound
      <3>3. CASE \E call \in NextCalls(g) : GoStart(g, call)
        BY <1>4, <2>2, <3>2, <3>3, CleanGoStart
      <3>4. CASE GoWrite(g) BY <2>2, <3>2, <3>4, CleanGoWrite
      <3>5. CASE GoRegister(g) BY <2>2, <3>2, <3>5, CleanGoRegister
      <3>6. CASE DispatchId(g) BY <1>4, <2>2, <3>2, <3>6, CleanDispatchId
      <3>7. CASE DispatchValue(g) BY <2>2, <3>2, <3>7, CleanDispatchValue
      <3> QED BY <1>4, <3>1, <3>3, <3>4, <3>5, <3>6, <3>7
    <2> QED BY <2>1, <2>2
  <1>5. ASSUME NEW c \in Client, Handle(c) \/ HandlePanics(c), NEW d \in Client, clean'[d]
        PROVE  CleanInv(d)'
    <2>1. CASE d # c BY <1>2, <1>5, <2>1, ServersApart
    <2>2. CASE d = c
      <3>1. clean[c] BY <1>5, <2>2 DEF Handle, HandlePanics
      <3>2. CleanInv(c) BY <3>1 DEF Sound
      <3>3. Handle(c) BY <1>5, <3>2, CleanNoPanic
      <3> QED BY <2>2, <3>2, <3>3, CleanHandle DEF Sound
    <2> QED BY <2>1, <2>2
  <1> QED BY <1>1, <1>3, <1>4, <1>5 DEF Next, Sound

LEMMA SoundAlways == Spec => []Sound
  <1>1. Init => Types /\ WaitsIssued /\ Sound BY TypesInit, SoundInit
  <1>2. Types /\ WaitsIssued /\ Sound /\ [Next]_vars => (Types /\ WaitsIssued /\ Sound)'
    BY TypesStep, SoundStep
  <1> QED BY <1>1, <1>2, PTL DEF Spec

\* The server of a clean client executes the calls issued on it, in their
\* order and each once, however its stream of requests and the other clients
\* are interleaved with them (Go, Handle).
THEOREM ExecutesInOrder == Spec => []ExecutedInOrder
  <1>1. Sound => ExecutedInOrder BY DEF Sound, CleanInv, Executes, ExecutedInOrder
  <1> QED BY <1>1, SoundAlways, PTL

\* A call of a clean client is answered once, with its own result (Dispatch,
\* Handle).
THEOREM AnswersAreOwn == Spec => []AnswersOwn
  <1>1. Sound => AnswersOwn BY DEF Sound, CleanInv, AnswersOf, AnswersAre, IsAnswer, AnswersOwn
  <1> QED BY <1>1, SoundAlways, PTL

=============================================================================
