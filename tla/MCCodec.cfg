SPECIFICATION Spec
CONSTANTS
  Types <- MCTypes
  Hashes <- MCHashes
  HashSize = 1
  CallId = "int"
  Worlds <- AllWorlds
  Places <- MCPlaces
  Extent <- MCExtent
  Nil = Nil
  Junk = Junk
  Room = 24
  Units <- MCUnits
CHECK_DEADLOCK FALSE
INVARIANT TypeOK
INVARIANT RoundTrip
INVARIANT EncodedIsVerified
 
 
