SPECIFICATION FairSpec
CONSTANTS
  SocketOutlivesFailure = TRUE
  Requests = {"change", "status"}
  MaxAsked = 1
INVARIANTS
  TypeOK
  CaughtUpOnline
PROPERTIES
  Landed
  Delivered
