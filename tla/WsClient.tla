------------------------------- MODULE WsClient -------------------------------
(***************************************************************************)
(* The WebSocket client: the supervisor thread that keeps one socket       *)
(* connected, the threads that send requests over it and wait for the      *)
(* reply with their id, the server at the other end, and the HTTP call an  *)
(* operation falls back to when the socket does not answer it.             *)
(*                                                                         *)
(* A frame is a request id and its operation; the order of frames in a     *)
(* queue is left open, because the server may answer in any order.         *)
(***************************************************************************)
EXTENDS Integers, FiniteSets

CONSTANT Op  \* the pulls and pushes issued, each by its own thread

VARIABLES
  stop,       \* shutdown was asked for
  sup,        \* where the supervisor thread is
  connected,  \* the flag `is_connected` reads
  outgoing,   \* there is a sender to hand frames to
  pending,    \* requests registered for a reply
  next,       \* the last request id given out
  pc,         \* where each operation is
  id,         \* its request id, 0 before it has one
  reply,      \* what its reply channel holds
  outcome,    \* what it returned to the engine
  queue,      \* frames handed to the session and not sent yet
  link,       \* the connection
  wire,       \* frames the server has not processed yet
  replies,    \* replies the client has not read yet
  nudge,      \* a `changed` frame the client has not read yet
  news,       \* a peer's push the sync task has not been told of
  processed,  \* operations the server carried out
  refused     \* operations the server rejected

clientVars == <<stop, sup, connected, outgoing, pending, next>>
callVars == <<pc, id, reply, outcome>>
socketVars == <<queue, link, wire, replies>>
newsVars == <<nudge, news>>
serverVars == <<processed, refused>>
vars == <<clientVars, callVars, socketVars, newsVars, serverVars>>

Frame == [id : Nat, op : Op]
Reply == [id : Nat, what : {"ok", "refused"}]

Ticket(o) == [id |-> id[o], op |-> o]
Ops(F) == {x.op : x \in F}

Init ==
  /\ stop = FALSE
  /\ sup = "connecting"
  /\ connected = FALSE
  /\ outgoing = FALSE
  /\ pending = {}
  /\ next = 0
  /\ pc = [o \in Op |-> "new"]
  /\ id = [o \in Op |-> 0]
  /\ reply = [o \in Op |-> "none"]
  /\ outcome = [o \in Op |-> "none"]
  /\ queue = {}
  /\ link = "none"
  /\ wire = {}
  /\ replies = {}
  /\ nudge = FALSE
  /\ news = FALSE
  /\ processed = {}
  /\ refused = {}

(***************************************************************************)
(* An operation.                                                           *)
(***************************************************************************)
Goto(o, place) == pc' = [pc EXCEPT ![o] = place]

Check(o) ==
  /\ pc[o] = "new"
  /\ Goto(o, IF connected THEN "checked" ELSE "fallback")
  /\ UNCHANGED <<clientVars, id, reply, outcome, socketVars, newsVars, serverVars>>

\* Mutant: the lowest id that looks free.
FreeId == 1 + Cardinality(pending)

NextId == next + 1

Register(o) ==
  /\ pc[o] = "checked"
  /\ Goto(o, "registered")
  /\ next' = NextId
  /\ id' = [id EXCEPT ![o] = NextId]
  /\ pending' = {x \in pending : x.id # NextId} \cup {[id |-> NextId, op |-> o]}
  /\ UNCHANGED <<stop, sup, connected, outgoing, reply, outcome, socketVars,
                 newsVars, serverVars>>

Unregister(o) == pending' = {x \in pending : x.id # id[o]}

Send(o) ==
  /\ pc[o] = "registered"
  /\ outgoing
  /\ queue' = queue \cup {Ticket(o)}
  /\ Goto(o, "waiting")
  /\ UNCHANGED <<clientVars, id, reply, outcome, link, wire, replies, newsVars,
                 serverVars>>

\* NotConnected: the session ended since the check.
SendFails(o) ==
  /\ pc[o] = "registered"
  /\ ~outgoing
  /\ Unregister(o)
  /\ Goto(o, "fallback")
  /\ UNCHANGED <<stop, sup, connected, outgoing, next, id, reply, outcome,
                 socketVars, newsVars, serverVars>>

\* Mutant: the caller gets what the socket said, not what the fallback did.
ReturnReply(o, result) ==
  /\ outcome' = [outcome EXCEPT ![o] = reply[o]]
  /\ Goto(o, "done")

Return(o, result) ==
  /\ outcome' = [outcome EXCEPT ![o] = result]
  /\ Goto(o, "done")

\* A rejection is an answer; a session that dropped is not.
TakeReply(o) ==
  /\ pc[o] = "waiting"
  /\ \/ reply[o] \in {"ok", "refused"} /\ Return(o, reply[o])
     \/ reply[o] = "disconnected" /\ Goto(o, "fallback") /\ UNCHANGED outcome
  /\ UNCHANGED <<clientVars, id, reply, socketVars, newsVars, serverVars>>

\* recv_timeout gives up; the id is unregistered after that.
Expire(o) ==
  /\ pc[o] = "waiting"
  /\ reply[o] = "none"
  /\ Goto(o, "expired")
  /\ UNCHANGED <<clientVars, id, reply, outcome, socketVars, newsVars, serverVars>>

GiveUp(o) ==
  /\ pc[o] = "expired"
  /\ Unregister(o)
  /\ Goto(o, "fallback")
  /\ UNCHANGED <<stop, sup, connected, outgoing, next, id, reply, outcome,
                 socketVars, newsVars, serverVars>>

\* The request over HTTP: answered, or lost on the way there or back.
Http(o) ==
  /\ pc[o] = "fallback"
  /\ \/ processed' = processed \cup {o} /\ UNCHANGED refused
        /\ \E result \in {"ok", "failed"} : Return(o, result)
     \/ refused' = refused \cup {o} /\ UNCHANGED processed /\ Return(o, "refused")
     \/ UNCHANGED serverVars /\ Return(o, "failed")
  /\ UNCHANGED <<clientVars, id, reply, socketVars, newsVars>>

(***************************************************************************)
(* The supervisor.                                                         *)
(***************************************************************************)
Connect ==
  /\ sup = "connecting"
  /\ sup' = "opening"
  /\ link' = "up"
  /\ UNCHANGED <<stop, connected, outgoing, pending, next, callVars, queue, wire,
                 replies, newsVars, serverVars>>

ConnectFails ==
  /\ sup = "connecting"
  /\ sup' = "backoff"
  /\ UNCHANGED <<stop, connected, outgoing, pending, next, callVars, socketVars,
                 newsVars, serverVars>>

Open ==
  /\ sup = "opening"
  /\ sup' = "opened"
  /\ outgoing' = TRUE
  /\ UNCHANGED <<stop, connected, pending, next, callVars, socketVars, newsVars,
                 serverVars>>

Announce ==
  /\ sup = "opened"
  /\ sup' = "announced"
  /\ connected' = TRUE
  /\ UNCHANGED <<stop, outgoing, pending, next, callVars, socketVars, newsVars,
                 serverVars>>

\* Mutant: only `changed` frames tell the sync task.
NoCatchUp == UNCHANGED news

\* on_connect and on_changed signal a run, which pulls all there is.
CatchUp == news' = FALSE

OnConnect ==
  /\ sup = "announced"
  /\ sup' = "live"
  /\ CatchUp
  /\ UNCHANGED <<stop, connected, outgoing, pending, next, callVars, socketVars,
                 nudge, serverVars>>

\* A send over a connection that broke is lost, at best with an error.
Transmit(x) ==
  /\ sup = "live"
  /\ x \in queue
  /\ queue' = queue \ {x}
  /\ wire' = IF link = "up" THEN wire \cup {x} ELSE wire
  /\ UNCHANGED <<clientVars, callVars, link, replies, newsVars, serverVars>>

Complete(F, what) ==
  reply' = [o \in Op |-> IF o \in Ops(F) THEN what ELSE reply[o]]

Deliver(r) ==
  /\ sup = "live"
  /\ r \in replies
  /\ replies' = replies \ {r}
  /\ Complete({x \in pending : x.id = r.id}, r.what)
  /\ pending' = {x \in pending : x.id # r.id}
  /\ UNCHANGED <<stop, sup, connected, outgoing, next, pc, id, outcome, queue,
                 link, wire, newsVars, serverVars>>

DeliverNudge ==
  /\ sup = "live"
  /\ nudge
  /\ nudge' = FALSE
  /\ news' = FALSE
  /\ UNCHANGED <<clientVars, callVars, socketVars, serverVars>>

\* Mutant: a session does not look at the stop flag.
LinkLost == link = "broken"

SessionOver == stop \/ link = "broken"

\* The session ends: on shutdown, or when a read, a send or a keepalive fails.
EndSession ==
  /\ sup = "live"
  /\ SessionOver
  /\ sup' = "closing"
  /\ connected' = FALSE
  /\ UNCHANGED <<stop, outgoing, pending, next, callVars, socketVars, newsVars,
                 serverVars>>

\* The socket is closed: the server has processed any part of what was sent.
StopSending ==
  /\ sup = "closing"
  /\ sup' = "closed"
  /\ outgoing' = FALSE
  /\ queue' = {}
  /\ link' = "none"
  /\ \E F \in SUBSET wire : processed' = processed \cup Ops(F)
  /\ wire' = {}
  /\ replies' = {}
  /\ nudge' = FALSE
  /\ UNCHANGED <<stop, connected, pending, next, callVars, news, refused>>

\* Mutant: the requests in flight are left to their timeouts.
FailNone == UNCHANGED <<pending, reply>>

FailAll == Complete(pending, "disconnected") /\ pending' = {}

FailPending ==
  /\ sup = "closed"
  /\ sup' = IF stop THEN "stopped" ELSE "backoff"
  /\ FailAll
  /\ UNCHANGED <<stop, connected, outgoing, next, pc, id, outcome, socketVars,
                 newsVars, serverVars>>

Backoff ==
  /\ sup = "backoff"
  /\ sup' = IF stop THEN "stopped" ELSE "connecting"
  /\ UNCHANGED <<stop, connected, outgoing, pending, next, callVars, socketVars,
                 newsVars, serverVars>>

Shutdown ==
  /\ ~stop
  /\ stop' = TRUE
  /\ UNCHANGED <<sup, connected, outgoing, pending, next, callVars, socketVars,
                 newsVars, serverVars>>

(***************************************************************************)
(* The server and the network.                                             *)
(***************************************************************************)
Process(x) ==
  /\ link = "up"
  /\ x \in wire
  /\ wire' = wire \ {x}
  /\ \/ /\ processed' = processed \cup {x.op}
        /\ replies' = replies \cup {[id |-> x.id, what |-> "ok"]}
        /\ UNCHANGED refused
     \/ /\ refused' = refused \cup {x.op}
        /\ replies' = replies \cup {[id |-> x.id, what |-> "refused"]}
        /\ UNCHANGED processed
  /\ UNCHANGED <<clientVars, callVars, queue, link, newsVars>>

\* A peer pushes, and the server nudges the sockets it knows.
Change ==
  /\ news' = TRUE
  /\ nudge' = (nudge \/ link = "up")
  /\ UNCHANGED <<clientVars, callVars, socketVars, serverVars>>

Break ==
  /\ link = "up"
  /\ link' = "broken"
  /\ replies' \in SUBSET replies
  /\ nudge' \in {FALSE, nudge}
  /\ UNCHANGED <<clientVars, callVars, queue, wire, news, serverVars>>

Call(o) ==
  \/ Check(o) \/ Register(o) \/ Send(o) \/ SendFails(o) \/ TakeReply(o)
  \/ Expire(o) \/ GiveUp(o) \/ Http(o)

Supervise ==
  \/ Open \/ Announce \/ OnConnect \/ DeliverNudge \/ EndSession \/ StopSending
  \/ FailPending \/ Backoff

Next ==
  \/ \E o \in Op : Call(o)
  \/ Connect \/ ConnectFails \/ Supervise
  \/ \E x \in queue : Transmit(x)
  \/ \E r \in replies : Deliver(r)
  \/ \E x \in wire : Process(x)
  \/ Change \/ Break \/ Shutdown

Spec == Init /\ [][Next]_vars

\* Fairness: the supervisor's thread runs; its loop looks at the stop flag every time round
\* and the keepalive finds out about a broken connection, however busy it is; an
\* endlessly retried connection is made in the end.
FairSpec == Spec /\ WF_vars(Supervise) /\ WF_vars(EndSession) /\ SF_vars(Connect)

(***************************************************************************)
(* Properties.                                                             *)
(***************************************************************************)
TypeOK ==
  /\ stop \in BOOLEAN
  /\ sup \in {"connecting", "opening", "opened", "announced", "live", "closing",
              "closed", "backoff", "stopped"}
  /\ connected \in BOOLEAN
  /\ outgoing \in BOOLEAN
  /\ pending \in SUBSET Frame
  /\ next \in Nat
  /\ pc \in [Op -> {"new", "checked", "registered", "waiting", "expired",
                    "fallback", "done"}]
  /\ id \in [Op -> Nat]
  /\ reply \in [Op -> {"none", "ok", "refused", "disconnected"}]
  /\ outcome \in [Op -> {"none", "ok", "refused", "failed"}]
  /\ queue \in SUBSET Frame
  /\ link \in {"none", "up", "broken"}
  /\ wire \in SUBSET Frame
  /\ replies \in SUBSET Reply
  /\ nudge \in BOOLEAN
  /\ news \in BOOLEAN
  /\ processed \in SUBSET Op
  /\ refused \in SUBSET Op

\* A request's frame is still on its way there or back, or its session is ending.
Ending == link = "broken" \/ sup \in {"closing", "closed"}
Underway(x) == x \in queue \cup wire \/ \E r \in replies : r.id = x.id

\* A caller that waits will be answered, or told that its session dropped: none
\* is left to its timeout because it registered or sent while a session ended or
\* the next one began. (request, run_session, fail_all_pending.)
NoneStranded ==
  \A o \in Op : pc[o] = "waiting" /\ reply[o] = "none" =>
    Ticket(o) \in pending /\ (Ending \/ Underway(Ticket(o)))

\* What the engine is told of an operation is true of that operation, however
\* late, reordered or cut off the replies are: it never takes the answer to
\* another request, or to an earlier one, for its own.
Truthful ==
  \A o \in Op : /\ outcome[o] = "ok" => o \in processed
                /\ outcome[o] = "refused" => o \in refused

\* A peer's push is never missed: the sync task has been told, or a `changed`
\* frame is on its way, or there is a connection still to be made, which tells it.
NewsKept ==
  news => nudge \/ link # "up" \/ sup \in {"opening", "opened", "announced"}

\* And it is told in the end, although nothing polls while the socket is up.
Told == news ~> (~news \/ stop)

\* A client that was shut down leaves no thread and no session behind.
WindsDown == stop ~> [](sup = "stopped" /\ ~connected /\ ~outgoing)
=============================================================================
