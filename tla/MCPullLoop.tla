------------------------------ MODULE MCPullLoop ------------------------------
\* Instances of PullLoop for TLC: what may happen in each of them.
EXTENDS PullLoop

Scope(U, P, F, n) == [user |-> U, peers |-> P, faults |-> F, max |-> n]

\* Another device makes scheme 2 and writes in both.
Both == {<<Index, <<"bind", 2>>>>, <<2, <<"theirs">>>>, <<1, <<"theirs">>>>}
Written == {<<1, <<"theirs">>>>}
Destroyed == {<<Index, <<"gone", 1>>>>}

\* A scheme that both make, with failing runs; a crash or a damaged journal; a
\* server that is reset; a scheme that both destroy.
MCScopes ==
  {Scope({<<"create", 2>>, <<"type", 1>>, <<"type", 2>>}, Both, {"pull", "push"}, 1),
   Scope({<<"create", 2>>, <<"type", 1>>}, Both, {"crash", "damage", "pull"}, 1),
   Scope({<<"type", 1>>, <<"create", 2>>}, Written, {"purge"}, 1),
   Scope({<<"type", 1>>, <<"destroy", 1>>, <<"create", 2>>}, Written \cup Destroyed,
         {"push", "pull"}, 1)}

\* A damaged journal and nothing else.
Damaged == {Scope({<<"type", 1>>}, {}, {"damage"}, 1)}
=============================================================================
