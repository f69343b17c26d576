------------------------------ MODULE MCWsClient ------------------------------
\* Two operations over one client: enough for the reply to one to arrive while
\* the other waits, in its own session or in the next.
EXTENDS WsClient

CONSTANTS p, q

MCOp == {p, q}
MCOneOp == {p}
=============================================================================
