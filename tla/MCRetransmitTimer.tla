------------------------- MODULE MCRetransmitTimer -------------------------
(* Model-checking instances of RetransmitTimer.                            *)
EXTENDS RetransmitTimer

CONSTANTS i1, i2
TwoSlots == {i1, i2}
=============================================================================
