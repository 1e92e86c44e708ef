------------------------ MODULE MCTunnelConnections ------------------------
(* Model-checking instances of TunnelConnections.                          *)
EXTENDS TunnelConnections, TLC

\* With two bytes to a packet: a message that needs two, and one that fills one.
Lengths32 == <<3, 2>>

Two1 == (0 :> 2) @@ (1 :> 1)
Two0 == (0 :> 2) @@ (1 :> 0)
One1 == (0 :> 1) @@ (1 :> 1)
=============================================================================
