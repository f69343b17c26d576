SPECIFICATION FairSpec
CONSTANTS
  p = p
  q = q
  Op <- MCOp
INVARIANTS
  TypeOK
  NoneStranded
  Truthful
  NewsKept
PROPERTIES
  Told
  WindsDown
