SPECIFICATION Spec
CONSTANTS
  SocketOutlivesFailure = FALSE
  Requests = {"change"}
  MaxAsked = 1
INVARIANTS
  CaughtUp
