SPECIFICATION Spec
CONSTANTS
  Hosts <- MCHosts
  IncomingKey <- MCIncomingKey
  PermanentKey <- MCPermanentKey
  OutgoingKeys <- MCOutgoingKeys
  MaxNonce = 6
  MaxDials <- MCDials
  MaxDamaged = 1
  MaxAuthenticators = 1
CHECK_DEADLOCK FALSE
INVARIANT TypeOK
INVARIANT NoncesDistinct
 
 
INVARIANT OpenedInOrder
INVARIANT LegitimateOpens
INVARIANT AuthenticatorsDirected
