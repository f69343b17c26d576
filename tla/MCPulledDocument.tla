--------------------------- MODULE MCPulledDocument ---------------------------
\* Instances of PulledDocument for TLC: what may happen in each of them.
EXTENDS PulledDocument

CONSTANTS a, b, c

TwoEdits == {a, b}
OneEdit == {a}
OneRemote == {c}

Scope(E, F, n, squash) == [edits |-> E, faults |-> F, max |-> n, squashes |-> squash]

\* Runs that fail and quits in mid-run; runs that a save overlaps; what the
\* integrity proof makes up for; and squashes.
Arriving ==
  {Scope({a}, {"pull", "push", "media", "quit", "typing"}, 2, FALSE),
   Scope({a, b}, {"push", "quit", "typing"}, 2, FALSE),
   Scope({a}, {"push", "media", "overlap", "typing"}, 2, FALSE),
   Scope({a}, {"pull", "media", "write", "crash", "quit", "racing", "overlap", "typing"},
         2, FALSE),
   Scope({a}, {"pull", "quit", "signout", "typing"}, 2, FALSE),
   Scope({a}, {"pull", "write", "crash", "typing"}, 3, FALSE),
   Scope({a, b}, {"pull"}, 1, TRUE)}

\* Squashes, and a push that fails, a quit in mid-run, or crashes.
Squashed(F, n) == Scope({a}, F, n, TRUE)
Mixing == {Squashed({"push"}, 1), Squashed({"quit"}, 1), Squashed({"crash"}, 2)}
=============================================================================
