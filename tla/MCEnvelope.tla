----------------------------- MODULE MCEnvelope -----------------------------
(* Two hosts; the keys a host may draw compare below, between and above    *)
(* the keys of the other host, so that both sides occur for both.          *)
EXTENDS Envelope

MCHosts == 1..2
MCIncomingKey == <<2, 6>>
MCPermanentKey == <<4, 8>>
MCOutgoingKeys == {1, 5, 7}
MCDials == <<2, 1>>
=============================================================================
