SPECIFICATION FairSpec
CONSTANTS
  Index = 0
  Schemes = {1, 2}
  Initial = {1}
  Scopes <- MCScopes
INVARIANTS
  TypeOK
PROPERTIES
  Arrives
  Rests
