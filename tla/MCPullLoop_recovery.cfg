SPECIFICATION WeakSpec
CONSTANTS
  Index = 0
  Schemes = {1, 2}
  Initial = {1}
  Scopes <- Damaged
PROPERTIES RecoveryEnds
