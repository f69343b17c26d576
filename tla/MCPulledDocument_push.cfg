SPECIFICATION Spec
CONSTANTS
  a = a
  b = b
  c = c
  base = base
  Local <- OneEdit
  Remote <- OneRemote
  Scopes <- Mixing
  MaxEpoch = 1
INVARIANTS
  NeverMixed
