---------------------------- MODULE WsClient_proofs ----------------------------
(***************************************************************************)
(* The safety of the WebSocket client for any number of operations.        *)
(***************************************************************************)
EXTENDS WsClient, TLAPS

(***************************************************************************)
(* The inductive invariant.                                                *)
(***************************************************************************)
\* The sender exists from the opening of a session to its end; so does the
\* connection, and nothing is on a connection that is not there.
Phases ==
  /\ outgoing => sup \in {"opened", "announced", "live", "closing"}
  /\ link = "none" <=> sup \in {"connecting", "closed", "backoff", "stopped"}
  /\ link = "none" => queue = {} /\ wire = {} /\ replies = {}

\* A request has an id of its own, given out once.
Ids ==
  /\ \A o \in Op : id[o] <= next
  /\ \A o \in Op : pc[o] \in {"new", "checked"} => id[o] = 0
  /\ \A o \in Op : pc[o] \in {"registered", "waiting", "expired"} => id[o] # 0
  /\ \A o, p \in Op : id[o] = id[p] /\ id[o] # 0 => o = p

\* What is registered or on its way is the frame of the operation it names.
Frames ==
  /\ \A x \in pending \cup queue \cup wire : x.id # 0 /\ id[x.op] = x.id
  /\ \A r \in replies : r.id # 0 /\ r.id <= next

\* A request without a reply stays registered.
Awaited ==
  \A o \in Op : pc[o] \in {"registered", "waiting"} /\ reply[o] = "none" =>
    Ticket(o) \in pending

\* What a reply says is true of the operation that has its id.
Genuine ==
  /\ \A r \in replies : \A o \in Op : id[o] = r.id =>
       /\ r.what = "ok" => o \in processed
       /\ r.what = "refused" => o \in refused
  /\ \A o \in Op : /\ reply[o] = "ok" => o \in processed
                   /\ reply[o] = "refused" => o \in refused

Held == Phases /\ Ids /\ Frames /\ Awaited /\ Genuine
IInv == TypeOK /\ Held /\ NoneStranded /\ Truthful /\ NewsKept

(***************************************************************************)
(* Lemmas.                                                                 *)
(***************************************************************************)
\* The frames of operations name operations.
LEMMA OpsOfFrames ==
  ASSUME NEW F \in SUBSET Frame
  PROVE  Ops(F) \in SUBSET Op
  BY DEF Ops, Frame

\* Failing what is registered leaves no request without a reply.
LEMMA AllTold ==
  ASSUME TypeOK, Awaited, FailPending, NEW o \in Op,
         pc[o] \in {"registered", "waiting"}
  PROVE  reply'[o] # "none"
<1>1. CASE o \in Ops(pending)
  BY <1>1 DEF FailPending, FailAll, Complete
<1>2. CASE o \notin Ops(pending)
  <2>1. Ticket(o) \notin pending
    BY <1>2 DEF Ops, Ticket
  <2>2. reply'[o] = reply[o]
    BY <1>2 DEF FailPending, FailAll, Complete
  <2> QED BY <2>1, <2>2 DEF Awaited
<1> QED BY <1>1, <1>2

LEMMA Start == Init => IInv
<1> SUFFICES ASSUME Init PROVE IInv
  OBVIOUS
<1>1. TypeOK
  BY DEF Init, TypeOK, Frame, Reply
<1>2. Held
  BY DEF Init, Held, Phases, Ids, Frames, Awaited, Genuine
<1>3. NoneStranded /\ Truthful /\ NewsKept
  BY DEF Init, NoneStranded, Truthful, NewsKept
<1> QED BY <1>1, <1>2, <1>3 DEF IInv

LEMMA Step == IInv /\ [Next]_vars => IInv'
<1> SUFFICES ASSUME IInv, [Next]_vars PROVE IInv'
  OBVIOUS
<1>0. TypeOK /\ Phases /\ Ids /\ Frames /\ Awaited /\ Genuine /\ NoneStranded
        /\ Truthful /\ NewsKept
  BY DEF IInv, Held
<1>1. ASSUME NEW o \in Op, Check(o) PROVE IInv'
  <2>1. TypeOK'
    BY <1>0, <1>1 DEF Check, Goto, clientVars, socketVars, newsVars, serverVars,
        TypeOK
  <2>2. Ids'
    BY <1>0, <1>1 DEF Check, Goto, clientVars, socketVars, newsVars, serverVars,
        TypeOK, Ids
  <2>3. Awaited'
    BY <1>0, <1>1 DEF Check, Goto, clientVars, socketVars, newsVars, serverVars,
        TypeOK, Ids, Frames, Awaited, Ticket
  <2>4. NoneStranded'
    BY <1>0, <1>1 DEF Check, Goto, clientVars, socketVars, newsVars, serverVars,
        TypeOK, Phases, Ids, Frames, Awaited, NoneStranded, Ticket, Ending,
        Underway
  <2>5. (Phases /\ Frames /\ Genuine /\ Truthful /\ NewsKept)'
    BY <1>0, <1>1 DEF Check, Goto, clientVars, socketVars, newsVars, serverVars,
        Phases, Frames, Genuine, Truthful, NewsKept
  <2> QED BY <2>1, <2>2, <2>3, <2>4, <2>5 DEF IInv, Held
<1>2. ASSUME NEW o \in Op, Register(o) PROVE IInv'
  <2>1. TypeOK'
    BY <1>0, <1>2 DEF Register, Goto, NextId, socketVars, newsVars, serverVars,
        TypeOK, Ticket, Frame
  <2>2. Ids'
    BY <1>0, <1>2 DEF Register, Goto, NextId, socketVars, newsVars, serverVars,
        TypeOK, Ids
  <2>3. Frames'
    BY <1>0, <1>2 DEF Register, Goto, NextId, socketVars, newsVars, serverVars,
        TypeOK, Ids, Frames, Ticket, Frame, Reply
  <2>4. Awaited'
    BY <1>0, <1>2 DEF Register, Goto, NextId, socketVars, newsVars, serverVars,
        TypeOK, Ids, Frames, Awaited, Ticket, Frame
  <2>5. Genuine'
    BY <1>0, <1>2 DEF Register, Goto, NextId, socketVars, newsVars, serverVars,
        TypeOK, Ids, Frames, Genuine, Frame, Reply
  <2>6. NoneStranded'
    BY <1>0, <1>2 DEF Register, Goto, NextId, socketVars, newsVars, serverVars,
        TypeOK, Phases, Ids, Frames, Awaited, NoneStranded, Ticket, Ending,
        Underway, Frame, Reply
  <2>7. (Phases /\ Truthful /\ NewsKept)'
    BY <1>0, <1>2 DEF Register, Goto, NextId, socketVars, newsVars, serverVars,
        Phases, Truthful, NewsKept
  <2> QED BY <2>1, <2>2, <2>3, <2>4, <2>5, <2>6, <2>7 DEF IInv, Held
<1>3. ASSUME NEW o \in Op, Send(o) PROVE IInv'
  <2>1. TypeOK'
    BY <1>0, <1>3 DEF Send, Goto, Ticket, clientVars, newsVars, serverVars,
        TypeOK, Frame
  <2>2. Phases'
    BY <1>0, <1>3 DEF Send, Goto, Ticket, clientVars, newsVars, serverVars,
        TypeOK, Phases
  <2>3. Ids'
    BY <1>0, <1>3 DEF Send, Goto, Ticket, clientVars, newsVars, serverVars,
        TypeOK, Ids
  <2>4. Frames'
    BY <1>0, <1>3 DEF Send, Goto, Ticket, clientVars, newsVars, serverVars,
        TypeOK, Ids, Frames
  <2>5. Awaited'
    BY <1>0, <1>3 DEF Send, Goto, Ticket, clientVars, newsVars, serverVars,
        TypeOK, Ids, Frames, Awaited
  <2>6. NoneStranded'
    BY <1>0, <1>3 DEF Send, Goto, Ticket, clientVars, newsVars, serverVars,
        TypeOK, Phases, Ids, Frames, Awaited, NoneStranded, Ending, Underway
  <2>7. (Genuine /\ Truthful /\ NewsKept)'
    BY <1>0, <1>3 DEF Send, Goto, Ticket, clientVars, newsVars, serverVars,
        Genuine, Truthful, NewsKept
  <2> QED BY <2>1, <2>2, <2>3, <2>4, <2>5, <2>6, <2>7 DEF IInv, Held
<1>4. ASSUME NEW o \in Op, SendFails(o) PROVE IInv'
  <2>1. TypeOK'
    BY <1>0, <1>4 DEF SendFails, Goto, Unregister, socketVars, newsVars,
        serverVars, TypeOK, Frame
  <2>2. Ids'
    BY <1>0, <1>4 DEF SendFails, Goto, Unregister, socketVars, newsVars,
        serverVars, TypeOK, Ids
  <2>3. Frames'
    BY <1>0, <1>4 DEF SendFails, Goto, Unregister, socketVars, newsVars,
        serverVars, TypeOK, Ids, Frames
  <2>4. Awaited'
    BY <1>0, <1>4 DEF SendFails, Goto, Unregister, socketVars, newsVars,
        serverVars, TypeOK, Ids, Frames, Awaited, Ticket
  <2>5. NoneStranded'
    BY <1>0, <1>4 DEF SendFails, Goto, Unregister, socketVars, newsVars,
        serverVars, TypeOK, Phases, Ids, Frames, Awaited, NoneStranded, Ticket,
        Ending, Underway
  <2>6. (Phases /\ Genuine /\ Truthful /\ NewsKept)'
    BY <1>0, <1>4 DEF SendFails, Goto, Unregister, socketVars, newsVars,
        serverVars, Phases, Genuine, Truthful, NewsKept
  <2> QED BY <2>1, <2>2, <2>3, <2>4, <2>5, <2>6 DEF IInv, Held
<1>5. ASSUME NEW o \in Op, TakeReply(o) PROVE IInv'
  <2>1. TypeOK'
    BY <1>0, <1>5 DEF TakeReply, Goto, Return, clientVars, socketVars, newsVars,
        serverVars, TypeOK
  <2>2. Ids'
    BY <1>0, <1>5 DEF TakeReply, Goto, Return, clientVars, socketVars, newsVars,
        serverVars, TypeOK, Ids
  <2>3. Awaited'
    BY <1>0, <1>5 DEF TakeReply, Goto, Return, clientVars, socketVars, newsVars,
        serverVars, TypeOK, Ids, Frames, Awaited, Ticket
  <2>4. NoneStranded'
    BY <1>0, <1>5 DEF TakeReply, Goto, Return, clientVars, socketVars, newsVars,
        serverVars, TypeOK, Phases, Ids, Frames, Awaited, NoneStranded, Ticket,
        Ending, Underway
  <2>5. Truthful'
    BY <1>0, <1>5 DEF TakeReply, Goto, Return, clientVars, socketVars, newsVars,
        serverVars, TypeOK, Genuine, Truthful
  <2>6. (Phases /\ Frames /\ Genuine /\ NewsKept)'
    BY <1>0, <1>5 DEF TakeReply, Goto, Return, clientVars, socketVars, newsVars,
        serverVars, Phases, Frames, Genuine, NewsKept
  <2> QED BY <2>1, <2>2, <2>3, <2>4, <2>5, <2>6 DEF IInv, Held
<1>6. ASSUME NEW o \in Op, Expire(o) PROVE IInv'
  <2>1. TypeOK'
    BY <1>0, <1>6 DEF Expire, Goto, clientVars, socketVars, newsVars,
        serverVars, TypeOK
  <2>2. Ids'
    BY <1>0, <1>6 DEF Expire, Goto, clientVars, socketVars, newsVars,
        serverVars, TypeOK, Ids
  <2>3. Awaited'
    BY <1>0, <1>6 DEF Expire, Goto, clientVars, socketVars, newsVars,
        serverVars, TypeOK, Ids, Frames, Awaited, Ticket
  <2>4. NoneStranded'
    BY <1>0, <1>6 DEF Expire, Goto, clientVars, socketVars, newsVars,
        serverVars, TypeOK, Phases, Ids, Frames, Awaited, NoneStranded, Ticket,
        Ending, Underway
  <2>5. (Phases /\ Frames /\ Genuine /\ Truthful /\ NewsKept)'
    BY <1>0, <1>6 DEF Expire, Goto, clientVars, socketVars, newsVars,
        serverVars, Phases, Frames, Genuine, Truthful, NewsKept
  <2> QED BY <2>1, <2>2, <2>3, <2>4, <2>5 DEF IInv, Held
<1>7. ASSUME NEW o \in Op, GiveUp(o) PROVE IInv'
  <2>1. TypeOK'
    BY <1>0, <1>7 DEF GiveUp, Goto, Unregister, socketVars, newsVars,
        serverVars, TypeOK, Frame
  <2>2. Ids'
    BY <1>0, <1>7 DEF GiveUp, Goto, Unregister, socketVars, newsVars,
        serverVars, TypeOK, Ids
  <2>3. Frames'
    BY <1>0, <1>7 DEF GiveUp, Goto, Unregister, socketVars, newsVars,
        serverVars, TypeOK, Ids, Frames
  <2>4. Awaited'
    BY <1>0, <1>7 DEF GiveUp, Goto, Unregister, socketVars, newsVars,
        serverVars, TypeOK, Ids, Frames, Awaited, Ticket
  <2>5. NoneStranded'
    BY <1>0, <1>7 DEF GiveUp, Goto, Unregister, socketVars, newsVars,
        serverVars, TypeOK, Phases, Ids, Frames, Awaited, NoneStranded, Ticket,
        Ending, Underway
  <2>6. (Phases /\ Genuine /\ Truthful /\ NewsKept)'
    BY <1>0, <1>7 DEF GiveUp, Goto, Unregister, socketVars, newsVars,
        serverVars, Phases, Genuine, Truthful, NewsKept
  <2> QED BY <2>1, <2>2, <2>3, <2>4, <2>5, <2>6 DEF IInv, Held
<1>8. ASSUME NEW o \in Op, Http(o) PROVE IInv'
  <2>1. TypeOK'
    BY <1>0, <1>8 DEF Http, Goto, Return, clientVars, socketVars, newsVars,
        serverVars, TypeOK
  <2>2. Ids'
    BY <1>0, <1>8 DEF Http, Goto, Return, clientVars, socketVars, newsVars,
        serverVars, TypeOK, Ids
  <2>3. Awaited'
    BY <1>0, <1>8 DEF Http, Goto, Return, clientVars, socketVars, newsVars,
        serverVars, TypeOK, Ids, Frames, Awaited, Ticket
  <2>4. Genuine'
    BY <1>0, <1>8 DEF Http, Goto, Return, clientVars, socketVars, newsVars,
        serverVars, TypeOK, Ids, Frames, Genuine, Frame, Reply
  <2>5. NoneStranded'
    BY <1>0, <1>8 DEF Http, Goto, Return, clientVars, socketVars, newsVars,
        serverVars, TypeOK, Phases, Ids, Frames, Awaited, NoneStranded, Ticket,
        Ending, Underway
  <2>6. Truthful'
    BY <1>0, <1>8 DEF Http, Goto, Return, clientVars, socketVars, newsVars,
        serverVars, TypeOK, Genuine, Truthful
  <2>7. (Phases /\ Frames /\ NewsKept)'
    BY <1>0, <1>8 DEF Http, Goto, Return, clientVars, socketVars, newsVars,
        serverVars, Phases, Frames, NewsKept
  <2> QED BY <2>1, <2>2, <2>3, <2>4, <2>5, <2>6, <2>7 DEF IInv, Held
<1>9. ASSUME Connect PROVE IInv'
  <2>1. TypeOK'
    BY <1>0, <1>9 DEF Connect, callVars, newsVars, serverVars, TypeOK
  <2>2. Phases'
    BY <1>0, <1>9 DEF Connect, callVars, newsVars, serverVars, TypeOK, Phases
  <2>3. NoneStranded'
    BY <1>0, <1>9 DEF Connect, callVars, newsVars, serverVars, TypeOK, Phases,
        NoneStranded, Ticket, Ending, Underway
  <2>4. NewsKept'
    BY <1>0, <1>9 DEF Connect, callVars, newsVars, serverVars, Phases, NewsKept
  <2>5. (Ids /\ Frames /\ Awaited /\ Genuine /\ Truthful)'
    BY <1>0, <1>9 DEF Connect, callVars, newsVars, serverVars, Ids, Frames,
        Awaited, Genuine, Truthful, Ticket
  <2> QED BY <2>1, <2>2, <2>3, <2>4, <2>5 DEF IInv, Held
<1>10. ASSUME ConnectFails PROVE IInv'
  <2>1. TypeOK'
    BY <1>0, <1>10 DEF ConnectFails, callVars, socketVars, newsVars, serverVars,
        TypeOK
  <2>2. Phases'
    BY <1>0, <1>10 DEF ConnectFails, callVars, socketVars, newsVars, serverVars,
        TypeOK, Phases
  <2>3. NoneStranded'
    BY <1>0, <1>10 DEF ConnectFails, callVars, socketVars, newsVars, serverVars,
        TypeOK, Phases, NoneStranded, Ticket, Ending, Underway
  <2>4. NewsKept'
    BY <1>0, <1>10 DEF ConnectFails, callVars, socketVars, newsVars, serverVars,
        Phases, NewsKept
  <2>5. (Ids /\ Frames /\ Awaited /\ Genuine /\ Truthful)'
    BY <1>0, <1>10 DEF ConnectFails, callVars, socketVars, newsVars, serverVars,
        Ids, Frames, Awaited, Genuine, Truthful, Ticket
  <2> QED BY <2>1, <2>2, <2>3, <2>4, <2>5 DEF IInv, Held
<1>11. ASSUME Open PROVE IInv'
  <2>1. TypeOK'
    BY <1>0, <1>11 DEF Open, callVars, socketVars, newsVars, serverVars, TypeOK
  <2>2. Phases'
    BY <1>0, <1>11 DEF Open, callVars, socketVars, newsVars, serverVars, TypeOK,
        Phases
  <2>3. NoneStranded'
    BY <1>0, <1>11 DEF Open, callVars, socketVars, newsVars, serverVars, TypeOK,
        Phases, NoneStranded, Ticket, Ending, Underway
  <2>4. NewsKept'
    BY <1>0, <1>11 DEF Open, callVars, socketVars, newsVars, serverVars, Phases,
        NewsKept
  <2>5. (Ids /\ Frames /\ Awaited /\ Genuine /\ Truthful)'
    BY <1>0, <1>11 DEF Open, callVars, socketVars, newsVars, serverVars, Ids,
        Frames, Awaited, Genuine, Truthful, Ticket
  <2> QED BY <2>1, <2>2, <2>3, <2>4, <2>5 DEF IInv, Held
<1>12. ASSUME Announce PROVE IInv'
  <2>1. TypeOK'
    BY <1>0, <1>12 DEF Announce, callVars, socketVars, newsVars, serverVars,
        TypeOK
  <2>2. Phases'
    BY <1>0, <1>12 DEF Announce, callVars, socketVars, newsVars, serverVars,
        TypeOK, Phases
  <2>3. NoneStranded'
    BY <1>0, <1>12 DEF Announce, callVars, socketVars, newsVars, serverVars,
        TypeOK, Phases, NoneStranded, Ticket, Ending, Underway
  <2>4. NewsKept'
    BY <1>0, <1>12 DEF Announce, callVars, socketVars, newsVars, serverVars,
        Phases, NewsKept
  <2>5. (Ids /\ Frames /\ Awaited /\ Genuine /\ Truthful)'
    BY <1>0, <1>12 DEF Announce, callVars, socketVars, newsVars, serverVars,
        Ids, Frames, Awaited, Genuine, Truthful, Ticket
  <2> QED BY <2>1, <2>2, <2>3, <2>4, <2>5 DEF IInv, Held
<1>13. ASSUME OnConnect PROVE IInv'
  <2>1. TypeOK'
    BY <1>0, <1>13 DEF OnConnect, CatchUp, callVars, socketVars, serverVars,
        TypeOK
  <2>2. Phases'
    BY <1>0, <1>13 DEF OnConnect, CatchUp, callVars, socketVars, serverVars,
        TypeOK, Phases
  <2>3. NoneStranded'
    BY <1>0, <1>13 DEF OnConnect, CatchUp, callVars, socketVars, serverVars,
        TypeOK, Phases, NoneStranded, Ticket, Ending, Underway
  <2>4. NewsKept'
    BY <1>0, <1>13 DEF OnConnect, CatchUp, callVars, socketVars, serverVars,
        Phases, NewsKept
  <2>5. (Ids /\ Frames /\ Awaited /\ Genuine /\ Truthful)'
    BY <1>0, <1>13 DEF OnConnect, CatchUp, callVars, socketVars, serverVars,
        Ids, Frames, Awaited, Genuine, Truthful, Ticket
  <2> QED BY <2>1, <2>2, <2>3, <2>4, <2>5 DEF IInv, Held
<1>14. ASSUME DeliverNudge PROVE IInv'
  <2>1. TypeOK'
    BY <1>0, <1>14 DEF DeliverNudge, clientVars, callVars, socketVars,
        serverVars, TypeOK
  <2>2. NewsKept'
    BY <1>0, <1>14 DEF DeliverNudge, clientVars, callVars, socketVars,
        serverVars, Phases, NewsKept
  <2>3. (Phases /\ Ids /\ Frames /\ Awaited /\ Genuine /\ NoneStranded /\
      Truthful)'
    BY <1>0, <1>14 DEF DeliverNudge, clientVars, callVars, socketVars,
        serverVars, Phases, Ids, Frames, Awaited, Genuine, NoneStranded,
        Truthful, Ticket, Ending, Underway
  <2> QED BY <2>1, <2>2, <2>3 DEF IInv, Held
<1>15. ASSUME EndSession PROVE IInv'
  <2>1. TypeOK'
    BY <1>0, <1>15 DEF EndSession, SessionOver, callVars, socketVars, newsVars,
        serverVars, TypeOK
  <2>2. Phases'
    BY <1>0, <1>15 DEF EndSession, SessionOver, callVars, socketVars, newsVars,
        serverVars, TypeOK, Phases
  <2>3. NoneStranded'
    BY <1>0, <1>15 DEF EndSession, SessionOver, callVars, socketVars, newsVars,
        serverVars, TypeOK, Phases, NoneStranded, Ticket, Ending, Underway
  <2>4. NewsKept'
    BY <1>0, <1>15 DEF EndSession, SessionOver, callVars, socketVars, newsVars,
        serverVars, Phases, NewsKept
  <2>5. (Ids /\ Frames /\ Awaited /\ Genuine /\ Truthful)'
    BY <1>0, <1>15 DEF EndSession, SessionOver, callVars, socketVars, newsVars,
        serverVars, Ids, Frames, Awaited, Genuine, Truthful, Ticket
  <2> QED BY <2>1, <2>2, <2>3, <2>4, <2>5 DEF IInv, Held
<1>16. ASSUME StopSending PROVE IInv'
  <2>1. TypeOK'
    <3>1. PICK F \in SUBSET wire : processed' = processed \cup Ops(F)
      BY <1>16 DEF StopSending
    <3>2. processed' \in SUBSET Op
      BY <1>0, <3>1, OpsOfFrames DEF TypeOK
    <3> QED BY <1>0, <1>16, <3>2 DEF StopSending, callVars, TypeOK
  <2>2. Phases'
    BY <1>0, <1>16 DEF StopSending, callVars, TypeOK, Phases
  <2>3. Frames'
    BY <1>0, <1>16 DEF StopSending, callVars, TypeOK, Ids, Frames, Reply
  <2>4. Genuine'
    BY <1>0, <1>16 DEF StopSending, callVars, TypeOK, Ids, Frames, Genuine,
        Frame, Reply
  <2>5. NoneStranded'
    BY <1>0, <1>16 DEF StopSending, callVars, TypeOK, Phases, NoneStranded,
        Ticket, Ending, Underway
  <2>6. Truthful'
    BY <1>0, <1>16 DEF StopSending, callVars, TypeOK, Genuine, Truthful
  <2>7. NewsKept'
    BY <1>0, <1>16 DEF StopSending, callVars, Phases, NewsKept
  <2>8. (Ids /\ Awaited)'
    BY <1>0, <1>16 DEF StopSending, callVars, Ids, Awaited, Ticket
  <2> QED BY <2>1, <2>2, <2>3, <2>4, <2>5, <2>6, <2>7, <2>8 DEF IInv, Held
<1>17. ASSUME FailPending PROVE IInv'
  <2>1. TypeOK'
    BY <1>0, <1>17 DEF FailPending, FailAll, Complete, socketVars, newsVars,
        serverVars, TypeOK, Frame
  <2>2. Phases'
    BY <1>0, <1>17 DEF FailPending, FailAll, Complete, socketVars, newsVars,
        serverVars, TypeOK, Phases
  <2>3. Frames'
    BY <1>0, <1>17 DEF FailPending, FailAll, Complete, socketVars, newsVars,
        serverVars, TypeOK, Ids, Frames
  <2>4. Awaited'
    BY <1>0, <1>17, AllTold DEF FailPending, Awaited
  <2>5. Genuine'
    BY <1>0, <1>17 DEF FailPending, FailAll, Complete, socketVars, newsVars,
        serverVars, TypeOK, Ids, Frames, Genuine, Frame, Reply
  <2>6. NoneStranded'
    BY <1>0, <1>17, AllTold DEF FailPending, NoneStranded
  <2>7. NewsKept'
    BY <1>0, <1>17 DEF FailPending, FailAll, Complete, socketVars, newsVars,
        serverVars, Phases, NewsKept
  <2>8. (Ids /\ Truthful)'
    BY <1>0, <1>17 DEF FailPending, FailAll, Complete, socketVars, newsVars,
        serverVars, Ids, Truthful
  <2> QED BY <2>1, <2>2, <2>3, <2>4, <2>5, <2>6, <2>7, <2>8 DEF IInv, Held
<1>18. ASSUME Backoff PROVE IInv'
  <2>1. TypeOK'
    BY <1>0, <1>18 DEF Backoff, callVars, socketVars, newsVars, serverVars,
        TypeOK
  <2>2. Phases'
    BY <1>0, <1>18 DEF Backoff, callVars, socketVars, newsVars, serverVars,
        TypeOK, Phases
  <2>3. NoneStranded'
    BY <1>0, <1>18 DEF Backoff, callVars, socketVars, newsVars, serverVars,
        TypeOK, Phases, NoneStranded, Ticket, Ending, Underway
  <2>4. NewsKept'
    BY <1>0, <1>18 DEF Backoff, callVars, socketVars, newsVars, serverVars,
        Phases, NewsKept
  <2>5. (Ids /\ Frames /\ Awaited /\ Genuine /\ Truthful)'
    BY <1>0, <1>18 DEF Backoff, callVars, socketVars, newsVars, serverVars, Ids,
        Frames, Awaited, Genuine, Truthful, Ticket
  <2> QED BY <2>1, <2>2, <2>3, <2>4, <2>5 DEF IInv, Held
<1>19. ASSUME NEW x \in queue, Transmit(x) PROVE IInv'
  <2>1. TypeOK'
    BY <1>0, <1>19 DEF Transmit, clientVars, callVars, newsVars, serverVars,
        TypeOK, Frame
  <2>2. Phases'
    BY <1>0, <1>19 DEF Transmit, clientVars, callVars, newsVars, serverVars,
        TypeOK, Phases
  <2>3. Frames'
    BY <1>0, <1>19 DEF Transmit, clientVars, callVars, newsVars, serverVars,
        TypeOK, Ids, Frames
  <2>4. NoneStranded'
    BY <1>0, <1>19 DEF Transmit, clientVars, callVars, newsVars, serverVars,
        TypeOK, Phases, Ids, Frames, Awaited, NoneStranded, Ticket, Ending,
        Underway
  <2>5. (Ids /\ Awaited /\ Genuine /\ Truthful /\ NewsKept)'
    BY <1>0, <1>19 DEF Transmit, clientVars, callVars, newsVars, serverVars,
        Ids, Awaited, Genuine, Truthful, NewsKept, Ticket
  <2> QED BY <2>1, <2>2, <2>3, <2>4, <2>5 DEF IInv, Held
<1>20. ASSUME NEW x \in replies, Deliver(x) PROVE IInv'
  <2>1. TypeOK'
    BY <1>0, <1>20 DEF Deliver, Complete, Ops, newsVars, serverVars, TypeOK,
        Frame, Reply
  <2>2. Phases'
    BY <1>0, <1>20 DEF Deliver, Complete, Ops, newsVars, serverVars, TypeOK,
        Phases
  <2>3. Frames'
    BY <1>0, <1>20 DEF Deliver, Complete, Ops, newsVars, serverVars, TypeOK,
        Ids, Frames, Frame, Reply
  <2>4. Awaited'
    BY <1>0, <1>20 DEF Deliver, Complete, Ops, newsVars, serverVars, TypeOK,
        Ids, Frames, Awaited, Ticket, Frame, Reply
  <2>5. Genuine'
    BY <1>0, <1>20 DEF Deliver, Complete, Ops, newsVars, serverVars, TypeOK,
        Ids, Frames, Genuine, Frame, Reply
  <2>6. NoneStranded'
    BY <1>0, <1>20 DEF Deliver, Complete, Ops, newsVars, serverVars, TypeOK,
        Phases, Ids, Frames, Awaited, NoneStranded, Ticket, Ending, Underway,
        Frame, Reply
  <2>7. (Ids /\ Truthful /\ NewsKept)'
    BY <1>0, <1>20 DEF Deliver, Complete, Ops, newsVars, serverVars, Ids,
        Truthful, NewsKept
  <2> QED BY <2>1, <2>2, <2>3, <2>4, <2>5, <2>6, <2>7 DEF IInv, Held
<1>21. ASSUME NEW x \in wire, Process(x) PROVE IInv'
  <2>1. TypeOK'
    BY <1>0, <1>21 DEF Process, clientVars, callVars, newsVars, TypeOK, Frame,
        Reply
  <2>2. Phases'
    BY <1>0, <1>21 DEF Process, clientVars, callVars, newsVars, TypeOK, Phases
  <2>3. Frames'
    BY <1>0, <1>21 DEF Process, clientVars, callVars, newsVars, TypeOK, Ids,
        Frames, Frame, Reply
  <2>4. Genuine'
    BY <1>0, <1>21 DEF Process, clientVars, callVars, newsVars, TypeOK, Ids,
        Frames, Genuine, Frame, Reply
  <2>5. NoneStranded'
    <3> SUFFICES ASSUME NEW o \in Op, pc[o] = "waiting", reply[o] = "none"
                 PROVE  Ticket(o) \in pending
                        /\ (Ending \/ Underway(Ticket(o)))'
      BY <1>21 DEF Process, clientVars, callVars, NoneStranded, Ticket
    <3>1. Ticket(o) \in pending /\ (Ending \/ Underway(Ticket(o)))
      BY <1>0 DEF NoneStranded
    <3>2. CASE Ticket(o) = x
      <4>1. \E what \in {"ok", "refused"} :
              [id |-> x.id, what |-> what] \in replies'
        BY <1>21 DEF Process
      <4>2. Ticket(o)' = x
        BY <1>21, <3>2 DEF Process, callVars, Ticket
      <4> QED BY <3>1, <4>1, <4>2 DEF Underway
    <3>3. CASE Ticket(o) # x
      BY <1>21, <3>1, <3>3
      DEF Process, clientVars, callVars, Ending, Underway, Ticket
    <3> QED BY <3>2, <3>3
  <2>6. Truthful'
    BY <1>0, <1>21 DEF Process, clientVars, callVars, newsVars, TypeOK, Genuine,
        Truthful
  <2>7. (Ids /\ Awaited /\ NewsKept)'
    BY <1>0, <1>21 DEF Process, clientVars, callVars, newsVars, Ids, Awaited,
        NewsKept, Ticket
  <2> QED BY <2>1, <2>2, <2>3, <2>4, <2>5, <2>6, <2>7 DEF IInv, Held
<1>22. ASSUME Change PROVE IInv'
  <2>1. TypeOK'
    BY <1>0, <1>22 DEF Change, clientVars, callVars, socketVars, serverVars,
        TypeOK
  <2>2. NewsKept'
    BY <1>0, <1>22 DEF Change, clientVars, callVars, socketVars, serverVars,
        Phases, NewsKept
  <2>3. (Phases /\ Ids /\ Frames /\ Awaited /\ Genuine /\ NoneStranded /\
      Truthful)'
    BY <1>0, <1>22 DEF Change, clientVars, callVars, socketVars, serverVars,
        Phases, Ids, Frames, Awaited, Genuine, NoneStranded, Truthful, Ticket,
        Ending, Underway
  <2> QED BY <2>1, <2>2, <2>3 DEF IInv, Held
<1>23. ASSUME Break PROVE IInv'
  <2>1. TypeOK'
    BY <1>0, <1>23 DEF Break, clientVars, callVars, serverVars, TypeOK, Reply
  <2>2. Phases'
    BY <1>0, <1>23 DEF Break, clientVars, callVars, serverVars, TypeOK, Phases
  <2>3. Frames'
    BY <1>0, <1>23 DEF Break, clientVars, callVars, serverVars, TypeOK, Ids,
        Frames, Reply
  <2>4. Genuine'
    BY <1>0, <1>23 DEF Break, clientVars, callVars, serverVars, TypeOK, Ids,
        Frames, Genuine, Frame, Reply
  <2>5. NoneStranded'
    BY <1>0, <1>23 DEF Break, clientVars, callVars, serverVars, TypeOK, Phases,
        NoneStranded, Ticket, Ending, Underway
  <2>6. NewsKept'
    BY <1>0, <1>23 DEF Break, clientVars, callVars, serverVars, Phases, NewsKept
  <2>7. (Ids /\ Awaited /\ Truthful)'
    BY <1>0, <1>23 DEF Break, clientVars, callVars, serverVars, Ids, Awaited,
        Truthful, Ticket
  <2> QED BY <2>1, <2>2, <2>3, <2>4, <2>5, <2>6, <2>7 DEF IInv, Held
<1>24. ASSUME Shutdown PROVE IInv'
  <2>1. TypeOK'
    BY <1>0, <1>24 DEF Shutdown, callVars, socketVars, newsVars, serverVars,
        TypeOK
  <2>2. (Phases /\ Ids /\ Frames /\ Awaited /\ Genuine /\ NoneStranded /\
      Truthful /\ NewsKept)'
    BY <1>0, <1>24 DEF Shutdown, callVars, socketVars, newsVars, serverVars,
        Phases, Ids, Frames, Awaited, Genuine, NoneStranded, Truthful, NewsKept,
        Ticket, Ending, Underway
  <2> QED BY <2>1, <2>2 DEF IInv, Held
<1>25. CASE UNCHANGED vars
  BY <1>0, <1>25 DEF vars, clientVars, callVars, socketVars, newsVars,
      serverVars, IInv, Held, TypeOK, Phases, Ids, Frames, Awaited, Genuine,
      NoneStranded, Truthful, NewsKept, Ticket, Ending, Underway
<1> QED BY <1>1, <1>2, <1>3, <1>4, <1>5, <1>6, <1>7, <1>8, <1>9, <1>10, <1>11,
    <1>12, <1>13, <1>14, <1>15, <1>16, <1>17, <1>18, <1>19, <1>20, <1>21, <1>22,
    <1>23, <1>24, <1>25 DEF Next, Call, Supervise

(***************************************************************************)
(* Theorems.                                                               *)
(***************************************************************************)
LEMMA Invariant == Spec => []IInv
  BY Start, Step, PTL DEF Spec

\* Every state of the client, its calls and its socket is well typed.
THEOREM TypeCorrect == Spec => []TypeOK
<1>1. IInv => TypeOK
  BY DEF IInv
<1> QED BY <1>1, Invariant, PTL

\* A thread that waits in `request` has its id registered, and a frame of its id
\* on its way or a session that is ending and fails all that is registered: for
\* any number of calls, however their registrations and the sessions interleave.
THEOREM NobodyStranded == Spec => []NoneStranded
<1>1. IInv => NoneStranded
  BY DEF IInv
<1> QED BY <1>1, Invariant, PTL

\* A call returns what the server did with that call's operation, whichever
\* session, reply or HTTP answer it took it from.
THEOREM RepliesTrue == Spec => []Truthful
<1>1. IInv => Truthful
  BY DEF IInv
<1> QED BY <1>1, Invariant, PTL

\* A peer's push the sync task does not know of has a `changed` frame or a
\* connection still to come that makes it run.
THEOREM NewsNeverMissed == Spec => []NewsKept
<1>1. IInv => NewsKept
  BY DEF IInv
<1> QED BY <1>1, Invariant, PTL
================================================================================
