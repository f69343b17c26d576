SPECIFICATION FairSpec
CONSTANTS
  a = a
  b = b
  c = c
  base = base
  Local <- TwoEdits
  Remote <- OneRemote
  Scopes <- Arriving
  MaxEpoch = 2
INVARIANTS
  TypeOK
  NeverMixed
  LiveCovered
PROPERTIES
  ServerKeeps
  KeepsVisible
  EditsArrive
  RestoredArrives
  Converges
