------------------------------- MODULE GoRpc -------------------------------
(***************************************************************************)
(* The Go client and server of ETN calls (rpc.go).  Goroutines issue calls *)
(* on a client (Go, Call), which writes them to its stream of requests;    *)
(* the server of the client handles them in turn and writes replies;       *)
(* Dispatch reads a reply and gives it to the call with its id.            *)
(*                                                                         *)
(* The streams carry units without a mark of what they are: an id, a       *)
(* method, an argument or a result is a number, so a reader that is out of *)
(* step takes one for another.  Each unit is a Write or a Read of its own, *)
(* and that is where goroutines interleave; nothing locks a client.  The   *)
(* counter of the ids is one for all clients of the program.               *)
(***************************************************************************)
EXTENDS Naturals, Sequences, FiniteSets

CONSTANTS
  Client,
  Goroutine,
  ClientOf,        \* ClientOf[g]: the client that goroutine g uses
  HasResult,       \* HasResult[m + 1]: method m returns a value
  Program          \* bound: Program[g][k] holds the choices of g for its k-th call

Methods == 0..Len(HasResult) - 1

\* A call as the program makes it; wants: it passes a place for the reply.
Calls == [method : Methods, arg : Nat, wants : BOOLEAN]

ASSUME GoRpcAssumption ==
  /\ ClientOf \in [Goroutine -> Client] /\ HasResult \in Seq(BOOLEAN)
  /\ DOMAIN Program = Goroutine
  /\ \A g \in Goroutine : \A k \in DOMAIN Program[g] : Program[g][k] \subseteq Calls

VARIABLES
  cid,             \* the global counter of ids
  op,              \* op[g]: what goroutine g is doing
  calls,           \* calls[c]: Client.calls, the ids that wait for a reply
  requests,        \* requests[c]: units written and not read by the server
  replies,         \* replies[c]: units written and not read by the client
  panicked,        \* panicked[c]: the server of c ran into a panic
  issued,          \* issued[c]: history of the calls that were issued
  executed,        \* executed[c]: history of the calls the server executed
  answered,        \* answered[c]: history of the replies given to calls
  clean            \* clean[c]: history, see below

vars == <<cid, op, calls, requests, replies, panicked, issued, executed, answered, clean>>

Idle == [doing |-> "nothing"]

\* The result of a method, a number that may look like an id.
Result(arg) == arg + 1

-----------------------------------------------------------------------------
(* The client.                                                             *)

\* The choices of a goroutine for its next call.
NextCalls(g) ==
  LET made == {k \in DOMAIN issued[ClientOf[g]] : issued[ClientOf[g]][k].by = g}
      k == Cardinality(made) + 1
  IN  IF k \in DOMAIN Program[g] THEN Program[g][k] ELSE {}

Users(c) == {g \in Goroutine : ClientOf[g] = c}

\* A goroutine starts to use its client while no other is using it.
Alone(g) == \A h \in Users(ClientOf[g]) \ {g} : op[h] = Idle

\* Mutant: the counter is read and written without the lock, so that two
\* goroutines may get the same id.
IncrementUnlocked(next) == next \in {cid, cid + 1}

\* callId.Increment
Increment(next) == next = cid + 1

\* Go: an id is drawn, then the header and the arguments are written.  A
\* client is no longer clean when two goroutines use it at once, or when
\* nobody waits for a reply that the server will write.
GoStart(g, call) ==
  LET c == ClientOf[g]
      todo == <<cid, call.method, call.arg>>
  IN  /\ op[g] = Idle
      /\ \E next \in {cid, cid + 1} : Increment(next) /\ cid' = next
      /\ op' = [op EXCEPT ![g] = [doing |-> "go", id |-> cid, wants |-> call.wants, todo |-> todo]]
      /\ issued' = [issued EXCEPT ![c] = Append(@, [id |-> cid, call |-> call, by |-> g])]
      /\ clean' = [clean EXCEPT ![c] = @ /\ Alone(g) /\ (HasResult[call.method + 1] => call.wants)]
      /\ UNCHANGED <<calls, requests, replies, panicked, executed, answered>>

\* One Write of the encoder.
GoWrite(g) ==
  /\ op[g].doing = "go" /\ op[g].todo # <<>>
  /\ requests' = [requests EXCEPT ![ClientOf[g]] = Append(@, Head(op[g].todo))]
  /\ op' = [op EXCEPT ![g].todo = Tail(@)]
  /\ UNCHANGED <<cid, calls, replies, panicked, issued, executed, answered, clean>>

\* A Write fails: Go returns the error, and what was written stays.
GoFail(g) ==
  /\ op[g].doing = "go" /\ op[g].todo # <<>>
  /\ op' = [op EXCEPT ![g] = Idle]
  /\ clean' = [clean EXCEPT ![ClientOf[g]] = FALSE]
  /\ UNCHANGED <<cid, calls, requests, replies, panicked, issued, executed, answered>>

\* Mutant: the id is taken from the counter again instead of the one drawn.
WaitingByCounter(g) == {cid}

Waiting(g) == IF op[g].wants THEN {op[g].id} ELSE {}

\* The call is put on the map after it was written, if a reply is wanted.
GoRegister(g) ==
  /\ op[g].doing = "go" /\ op[g].todo = <<>>
  /\ calls' = [calls EXCEPT ![ClientOf[g]] = @ \cup Waiting(g)]
  /\ op' = [op EXCEPT ![g] = Idle]
  /\ UNCHANGED <<cid, requests, replies, panicked, issued, executed, answered, clean>>

\* Dispatch: the id is read.  A reply to an unknown id is left on the stream.
DispatchId(g) ==
  LET c == ClientOf[g]
  IN  /\ op[g] = Idle /\ calls[c] # {} /\ replies[c] # <<>>
      /\ replies' = [replies EXCEPT ![c] = Tail(@)]
      /\ op' = [op EXCEPT ![g] = IF Head(replies[c]) \in calls[c]
                                   THEN [doing |-> "dispatch", id |-> Head(replies[c])] ELSE @]
      /\ clean' = [clean EXCEPT ![c] = @ /\ Alone(g)]
      /\ UNCHANGED <<cid, calls, requests, panicked, issued, executed, answered>>

\* The value is read and the call is done.
DispatchValue(g) ==
  LET c == ClientOf[g]
  IN  /\ op[g].doing = "dispatch" /\ replies[c] # <<>>
      /\ replies' = [replies EXCEPT ![c] = Tail(@)]
      /\ answered' = [answered EXCEPT ![c] =
                        Append(@, [id |-> op[g].id, result |-> Head(replies[c])])]
      /\ calls' = [calls EXCEPT ![c] = @ \ {op[g].id}]
      /\ op' = [op EXCEPT ![g] = Idle]
      /\ UNCHANGED <<cid, requests, panicked, issued, executed, clean>>

-----------------------------------------------------------------------------
(* The server.                                                             *)

\* Only a method with results has a reply.
Reply(id, method, arg) == IF HasResult[method + 1] THEN <<id, Result(arg)>> ELSE <<>>

\* Mutant: the arguments of a method without results are left on the stream.
UnitsLeavingArgument(method) == IF HasResult[method + 1] THEN 3 ELSE 2

\* How many units of a request are read: the header and the argument.
Units(method) == 3

\* Handle, for a request that has arrived as a whole.  Nobody else reads or
\* writes the server's ends, so this is one step.
Handle(c) ==
  LET id == requests[c][1]
      method == requests[c][2]
      arg == requests[c][3]
  IN  /\ ~panicked[c] /\ Len(requests[c]) >= 3 /\ method \in Methods
      /\ requests' = [requests EXCEPT ![c] = SubSeq(@, Units(method) + 1, Len(@))]
      /\ executed' = [executed EXCEPT ![c] = Append(@, [id |-> id, method |-> method, arg |-> arg])]
      /\ replies' = [replies EXCEPT ![c] = @ \o Reply(id, method, arg)]
      /\ UNCHANGED <<cid, op, calls, panicked, issued, answered, clean>>

\* A method out of range is a panic.
HandlePanics(c) ==
  /\ ~panicked[c] /\ Len(requests[c]) >= 2 /\ requests[c][2] \notin Methods
  /\ panicked' = [panicked EXCEPT ![c] = TRUE]
  /\ UNCHANGED <<cid, op, calls, requests, replies, issued, executed, answered, clean>>

-----------------------------------------------------------------------------
(* The specification.                                                      *)

Init ==
  /\ cid = 0 /\ op = [g \in Goroutine |-> Idle]
  /\ calls = [c \in Client |-> {}]
  /\ requests = [c \in Client |-> <<>>] /\ replies = [c \in Client |-> <<>>]
  /\ panicked = [c \in Client |-> FALSE] /\ issued = [c \in Client |-> <<>>]
  /\ executed = [c \in Client |-> <<>>] /\ answered = [c \in Client |-> <<>>]
  /\ clean = [c \in Client |-> TRUE]

Next ==
  \/ \E g \in Goroutine :
       \/ \E call \in NextCalls(g) : GoStart(g, call)
       \/ GoWrite(g) \/ GoFail(g) \/ GoRegister(g) \/ DispatchId(g) \/ DispatchValue(g)
  \/ \E c \in Client : Handle(c) \/ HandlePanics(c)

Spec == Init /\ [][Next]_vars

\* A call that was begun goes on, whoever waits keeps dispatching (Call), and
\* the server keeps handling requests.
FairSpec ==
  /\ Spec
  /\ \A g \in Goroutine :
       /\ WF_vars(GoWrite(g) \/ GoFail(g)) /\ WF_vars(GoRegister(g))
       /\ WF_vars(DispatchId(g)) /\ WF_vars(DispatchValue(g))
  /\ \A c \in Client : WF_vars(Handle(c) \/ HandlePanics(c))

-----------------------------------------------------------------------------
(* Properties.                                                             *)

\* Streams carry numbers; what a client waits for was issued on it (Go).
TypeOK ==
  /\ cid \in Nat
  /\ \A c \in Client :
       /\ requests[c] \in Seq(Nat) /\ replies[c] \in Seq(Nat)
       /\ calls[c] \subseteq {issued[c][k].id : k \in DOMAIN issued[c]}
       /\ panicked[c] \in BOOLEAN /\ clean[c] \in BOOLEAN

\* As long as a client is clean, its server has executed calls that were
\* issued on it, in the order of their issue and each once, whatever happens
\* to the other clients of the program (Go, Handle).
ExecutedInOrder ==
  \A c \in Client : clean[c] =>
    /\ ~panicked[c] /\ Len(executed[c]) <= Len(issued[c])
    /\ \A k \in DOMAIN executed[c] :
         LET call == issued[c][k].call
         IN  executed[c][k] = [id |-> issued[c][k].id, method |-> call.method, arg |-> call.arg]

\* As long as a client is clean, the reply that a call gets is the result of
\* its own method and argument, and it gets one only (Dispatch).
AnswersOwn ==
  \A c \in Client : clean[c] =>
    \A k \in DOMAIN answered[c] :
      /\ \E j \in DOMAIN issued[c] :
           LET call == issued[c][j].call
           IN  /\ call.wants /\ HasResult[call.method + 1]
               /\ answered[c][k] = [id |-> issued[c][j].id, result |-> Result(call.arg)]
      /\ \A j \in DOMAIN answered[c] : answered[c][j].id = answered[c][k].id => j = k

\* A call for which a reply is wanted, and will be written, is answered, if
\* the client stays clean: the loop in Call ends.
EveryCallAnswered ==
  \A g \in Goroutine : \A k \in DOMAIN Program[g] :
    LET c == ClientOf[g]
        Mine == {j \in DOMAIN issued[c] :
                   /\ issued[c][j].by = g
                   /\ Cardinality({i \in 1..j : issued[c][i].by = g}) = k
                   /\ issued[c][j].call.wants /\ HasResult[issued[c][j].call.method + 1]}
    IN  Mine # {} ~> \/ ~clean[c]
                     \/ \E j \in Mine, a \in DOMAIN answered[c] : answered[c][a].id = issued[c][j].id
=============================================================================
