------------------------------ MODULE MCGoRpc ------------------------------
(* One client used by two goroutines and one used by a third, which draws  *)
(* ids from the same counter.  Method 0 returns a value, method 1 does not.*)
EXTENDS GoRpc

MCClient == {"a", "b"}
MCGoroutine == 1..3
MCClientOf == <<"a", "a", "b">>
MCHasResult == <<TRUE, FALSE>>

Get(arg) == [method |-> 0, arg |-> arg, wants |-> TRUE]
Post(arg) == [method |-> 0, arg |-> arg, wants |-> FALSE]
Put(arg) == [method |-> 1, arg |-> arg, wants |-> FALSE]

MCProgram ==
  << << {Get(1), Put(1), Post(1)} >>, << {Get(2)} >>, << {Get(0)} >> >>
=============================================================================
