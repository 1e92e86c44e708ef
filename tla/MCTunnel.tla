------------------------------ MODULE MCTunnel ------------------------------
(* Model-checking instances of Tunnel: how many packets each side sends.   *)
EXTENDS Tunnel

OneWay3 == (0 :> 3) @@ (1 :> 0)
OneWay6 == (0 :> 6) @@ (1 :> 0)
TwoWay31 == (0 :> 3) @@ (1 :> 1)
TwoWay21 == (0 :> 2) @@ (1 :> 1)
=============================================================================
