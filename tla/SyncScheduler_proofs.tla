-------------------------- MODULE SyncScheduler_proofs --------------------------
(***************************************************************************)
(* A foreground device that polls nothing is never behind without a run to *)
(* come, unless a run failed offline beside the live socket, or a late     *)
(* answer has signed the user in again.                                    *)
(***************************************************************************)
EXTENDS SyncScheduler, TLAPS

\* No socket is made in a launch whose saves are blocked.
NoSocket == blocked => socket = "none"

Coming == nudge \/ signals # {}

\* Where no run fails offline beside a live socket, a failed run needs no care.
Online == SocketOutlivesFailure => ~offline

\* Between runs: what the last run did not land has a signal coming, unless the
\* server rejected the run, the socket is down, nobody is signed in, or someone is
\* again with no run asked for.
Idle ==
  /\ task = "idle" /\ behind
  /\ account # "none" /\ ~resurrected
  /\ socket = "up" /\ ~rejecting /\ Online
  => Coming

\* And in a run: what was pushed after its pull has one.
Missed == task = "pushing" /\ socket = "up" /\ behind /\ ~pulled => Coming

IInv == TypeOK /\ NoSocket /\ Idle /\ Missed

LEMMA PlacesStep == Places /\ [Next]_vars => Places'
<1> SUFFICES ASSUME Places, [Next]_vars PROVE Places'
  OBVIOUS
<1> USE DEF Places, flags, local, remote, link, answers
<1>1. CASE Timer
  BY <1>1 DEF Timer, BeginRun, RunStart
<1>2. CASE Receive
  BY <1>2 DEF Receive
<1>3. CASE Debounced
  BY <1>3 DEF Debounced, BeginRun, RunStart
<1>4. CASE Refresh
  BY <1>4 DEF Refresh, Teardown
<1>5. CASE SessionGone
  BY <1>5 DEF SessionGone, EndRun
<1>6. CASE Skip
  BY <1>6 DEF Skip, EndRun, Teardown
<1>7. CASE Snapshot
  BY <1>7 DEF Snapshot
<1>8. CASE Pull
  BY <1>8 DEF Pull
<1>9. CASE Succeed
  BY <1>9 DEF Succeed, EndRun, Unserved
<1>10. CASE Unauthorized
  BY <1>10 DEF Unauthorized, Retry, Teardown
<1>11. CASE EpochStale
  BY <1>11 DEF EpochStale, Retry
<1>12. ASSUME NEW unreachable \in BOOLEAN, Fail(unreachable) PROVE Places'
  BY <1>12 DEF Fail, EndRun, Pending
<1>13. CASE SocketUp
  BY <1>13 DEF SocketUp, Signal
<1>14. CASE SocketDrops
  BY <1>14 DEF SocketDrops
<1>15. CASE Nudged
  BY <1>15 DEF Nudged, Signal
<1>16. CASE PeerPush
  BY <1>16 DEF PeerPush
<1>17. CASE Edit
  BY <1>17 DEF Edit, Signal
<1>18. CASE SyncNow
  BY <1>18 DEF SyncNow, Signal
<1>19. CASE Activate
  BY Zenon, <1>19 DEF Activate, Signal
<1>20. CASE Deactivate
  BY <1>20 DEF Deactivate
<1>21. CASE SignOut
  BY <1>21 DEF SignOut
<1>22. CASE SignIn
  BY <1>22 DEF SignIn, Signal
<1>23. ASSUME NEW what \in Requests, Ask(what) PROVE Places'
  BY <1>23 DEF Ask
<1>24. CASE ChangeAnswered
  BY <1>24 DEF ChangeAnswered, Answered
<1>25. CASE StatusAnswered
  BY <1>25 DEF StatusAnswered, Answered, Signal
<1>26. CASE AnswerFails
  BY <1>26 DEF AnswerFails, Answered
<1>27. CASE QuietCheck
  BY <1>27 DEF QuietCheck, Signal
<1>28. CASE UNCHANGED vars
  BY <1>28 DEF vars
<1> QED
  BY <1>1, <1>2, <1>3, <1>4, <1>5, <1>6, <1>7, <1>8, <1>9, <1>10, <1>11,
     <1>12, <1>13, <1>14, <1>15, <1>16, <1>17, <1>18, <1>19, <1>20, <1>21,
     <1>22, <1>23, <1>24, <1>25, <1>26, <1>27, <1>28 DEF Next, Run

LEMMA FlagsStep == Flags /\ [Next]_vars => Flags'
<1> SUFFICES ASSUME Flags, [Next]_vars PROVE Flags'
  OBVIOUS
<1> USE DEF Flags, flags, local, remote, link, answers
<1>1. CASE Timer
  BY Zenon, <1>1 DEF Timer, BeginRun, RunStart
<1>2. CASE Receive
  BY Zenon, <1>2 DEF Receive
<1>3. CASE Debounced
  BY Zenon, <1>3 DEF Debounced, BeginRun, RunStart
<1>4. CASE Refresh
  BY Zenon, <1>4 DEF Refresh, Teardown
<1>5. CASE SessionGone
  BY Zenon, <1>5 DEF SessionGone, EndRun
<1>6. CASE Skip
  BY Zenon, <1>6 DEF Skip, EndRun, Teardown
<1>7. CASE Snapshot
  BY Zenon, <1>7 DEF Snapshot
<1>8. CASE Pull
  BY Zenon, <1>8 DEF Pull
<1>9. CASE Succeed
  BY Zenon, <1>9 DEF Succeed, EndRun, Unserved
<1>10. CASE Unauthorized
  <2>1. UNCHANGED <<blocked, active, flags, local, remote, answers>>
    BY <1>10 DEF Unauthorized, Retry
  <2>2. nudge' \in BOOLEAN
    <3>1. nudge' = FALSE \/ UNCHANGED link
      BY Zenon, <1>10 DEF Unauthorized, Teardown
    <3> QED BY Zenon, <3>1
  <2> QED BY Zenon, <2>1, <2>2
<1>11. CASE EpochStale
  BY Zenon, <1>11 DEF EpochStale, Retry
<1>12. ASSUME NEW unreachable \in BOOLEAN, Fail(unreachable) PROVE Flags'
  BY Zenon, <1>12 DEF Fail, EndRun, Pending
<1>13. CASE SocketUp
  BY Zenon, <1>13 DEF SocketUp, Signal
<1>14. CASE SocketDrops
  BY Zenon, <1>14 DEF SocketDrops
<1>15. CASE Nudged
  BY Zenon, <1>15 DEF Nudged, Signal
<1>16. CASE PeerPush
  BY Zenon, <1>16 DEF PeerPush
<1>17. CASE Edit
  BY Zenon, <1>17 DEF Edit, Signal
<1>18. CASE SyncNow
  BY Zenon, <1>18 DEF SyncNow, Signal
<1>19. CASE Activate
  BY Zenon, <1>19 DEF Activate, Signal
<1>20. CASE Deactivate
  BY Zenon, <1>20 DEF Deactivate
<1>21. CASE SignOut
  BY Zenon, <1>21 DEF SignOut
<1>22. CASE SignIn
  BY Zenon, <1>22 DEF SignIn, Signal
<1>23. ASSUME NEW what \in Requests, Ask(what) PROVE Flags'
  BY Zenon, <1>23 DEF Ask
<1>24. CASE ChangeAnswered
  BY Zenon, <1>24 DEF ChangeAnswered, Answered
<1>25. CASE StatusAnswered
  BY Zenon, <1>25 DEF StatusAnswered, Answered, Signal
<1>26. CASE AnswerFails
  BY Zenon, <1>26 DEF AnswerFails, Answered
<1>27. CASE QuietCheck
  BY Zenon, <1>27 DEF QuietCheck, Signal
<1>28. CASE UNCHANGED vars
  BY Zenon, <1>28 DEF vars
<1> QED
  BY <1>1, <1>2, <1>3, <1>4, <1>5, <1>6, <1>7, <1>8, <1>9, <1>10, <1>11,
     <1>12, <1>13, <1>14, <1>15, <1>16, <1>17, <1>18, <1>19, <1>20, <1>21,
     <1>22, <1>23, <1>24, <1>25, <1>26, <1>27, <1>28 DEF Next, Run

LEMMA NudgeStep == (nudge => socket = "up") /\ [Next]_vars => (nudge => socket = "up")'
<1> SUFFICES ASSUME nudge => socket = "up", [Next]_vars PROVE (nudge => socket = "up")'
  OBVIOUS
<1> USE DEF flags, local, remote, link, answers
<1>1. CASE Timer
  BY <1>1 DEF Timer, BeginRun, RunStart
<1>2. CASE Receive
  BY <1>2 DEF Receive
<1>3. CASE Debounced
  BY <1>3 DEF Debounced, BeginRun, RunStart
<1>4. CASE Refresh
  BY <1>4 DEF Refresh, Teardown
<1>5. CASE SessionGone
  BY <1>5 DEF SessionGone, EndRun
<1>6. CASE Skip
  BY <1>6 DEF Skip, EndRun, Teardown
<1>7. CASE Snapshot
  BY <1>7 DEF Snapshot
<1>8. CASE Pull
  BY <1>8 DEF Pull
<1>9. CASE Succeed
  BY <1>9 DEF Succeed, EndRun, Unserved
<1>10. CASE Unauthorized
  BY <1>10 DEF Unauthorized, Retry, Teardown
<1>11. CASE EpochStale
  BY <1>11 DEF EpochStale, Retry
<1>12. ASSUME NEW unreachable \in BOOLEAN, Fail(unreachable) PROVE (nudge => socket = "up")'
  BY <1>12 DEF Fail, EndRun, Pending
<1>13. CASE SocketUp
  BY <1>13 DEF SocketUp, Signal
<1>14. CASE SocketDrops
  BY <1>14 DEF SocketDrops
<1>15. CASE Nudged
  BY <1>15 DEF Nudged, Signal
<1>16. CASE PeerPush
  BY <1>16 DEF PeerPush
<1>17. CASE Edit
  BY <1>17 DEF Edit, Signal
<1>18. CASE SyncNow
  BY <1>18 DEF SyncNow, Signal
<1>19. CASE Activate
  BY <1>19 DEF Activate, Signal
<1>20. CASE Deactivate
  BY <1>20 DEF Deactivate
<1>21. CASE SignOut
  BY <1>21 DEF SignOut
<1>22. CASE SignIn
  BY <1>22 DEF SignIn, Signal
<1>23. ASSUME NEW what \in Requests, Ask(what) PROVE (nudge => socket = "up")'
  BY <1>23 DEF Ask
<1>24. CASE ChangeAnswered
  BY <1>24 DEF ChangeAnswered, Answered
<1>25. CASE StatusAnswered
  BY <1>25 DEF StatusAnswered, Answered, Signal
<1>26. CASE AnswerFails
  BY <1>26 DEF AnswerFails, Answered
<1>27. CASE QuietCheck
  BY <1>27 DEF QuietCheck, Signal
<1>28. CASE UNCHANGED vars
  BY <1>28 DEF vars
<1> QED
  BY <1>1, <1>2, <1>3, <1>4, <1>5, <1>6, <1>7, <1>8, <1>9, <1>10, <1>11,
     <1>12, <1>13, <1>14, <1>15, <1>16, <1>17, <1>18, <1>19, <1>20, <1>21,
     <1>22, <1>23, <1>24, <1>25, <1>26, <1>27, <1>28 DEF Next, Run

LEMMA TypeStep == TypeOK /\ [Next]_vars => TypeOK'
  BY PlacesStep, FlagsStep, NudgeStep DEF TypeOK

LEMMA StartTyped == Init => TypeOK
<1>1. Init => Places
  BY DEF Init, Places, RunStart
<1>2. Init => Flags
  BY Zenon DEF Init, Flags
<1> QED BY <1>1, <1>2 DEF Init, TypeOK

LEMMA Start == Init => IInv
  BY StartTyped DEF Init, IInv, NoSocket, Idle, Missed

LEMMA Step == IInv /\ [Next]_vars => IInv'
<1> SUFFICES ASSUME IInv, [Next]_vars PROVE IInv'
  OBVIOUS
<1>0. TypeOK /\ NoSocket /\ Idle /\ Missed /\ TypeOK'
  BY TypeStep DEF IInv
<1> USE DEF NoSocket, Idle, Missed, Coming, Online, flags, local, remote, link, answers
\* A run that begins leaves the idle place; only the debounce drains the channel.
<1>1. CASE Timer \/ Receive \/ Debounced
  BY <1>0, <1>1 DEF Timer, Receive, Debounced, BeginRun, RunStart, IInv, TypeOK
\* A run that ends without landing ends signed out, without a socket or rejected.
<1>2. CASE Refresh \/ SessionGone
  BY <1>0, <1>2 DEF Refresh, SessionGone, EndRun, Teardown, IInv, TypeOK
<1>3. CASE Skip \/ Snapshot
  BY <1>0, <1>3 DEF Skip, Snapshot, EndRun, Teardown, IInv, TypeOK
<1>4. ASSUME NEW unreachable \in BOOLEAN, Fail(unreachable) PROVE IInv'
  BY <1>0, <1>4 DEF Fail, EndRun, IInv, TypeOK
<1>5. CASE Unauthorized \/ EpochStale
  BY <1>0, <1>5 DEF Unauthorized, EpochStale, Retry, Teardown, IInv, TypeOK
\* What a run that lands leaves behind was pushed after its pull.
<1>6. CASE Pull
  BY <1>0, <1>6 DEF Pull, IInv
<1>7. CASE Succeed
  BY <1>0, <1>7 DEF Succeed, EndRun, Unserved, IInv
<1>8. CASE SocketUp \/ Nudged
  BY <1>0, <1>8 DEF SocketUp, Nudged, Signal, IInv, TypeOK
<1>9. CASE SocketDrops
  BY <1>0, <1>9 DEF SocketDrops, IInv
<1>10. CASE PeerPush
  BY <1>0, <1>10 DEF PeerPush, IInv
<1>11. CASE Edit \/ SyncNow \/ Activate \/ Deactivate
  BY <1>0, <1>11 DEF Edit, SyncNow, Activate, Deactivate, Signal, IInv
<1>12. CASE SignOut \/ SignIn
  BY <1>0, <1>12 DEF SignOut, SignIn, Signal, IInv
<1>13. ASSUME NEW what \in Requests, Ask(what) PROVE IInv'
  BY <1>0, <1>13 DEF Ask, IInv
\* An answer that signs in without asking for a run is the one remembered.
<1>14. CASE ChangeAnswered \/ StatusAnswered
  <2>1. \/ UNCHANGED signals /\ (resurrected' \/ (account # "none" /\ UNCHANGED resurrected))
        \/ signals' # {}
    <3>1. CASE account = "none"
      BY <1>14, <3>1 DEF ChangeAnswered, StatusAnswered, Signal
    <3>2. CASE account # "none"
      <4>1. (resurrected \/ account = "none") = resurrected
        BY <1>0, <3>2 DEF TypeOK, Flags
      <4> QED BY <1>14, <3>2, <4>1 DEF ChangeAnswered, StatusAnswered, Signal
    <3> QED BY <3>1, <3>2
  <2>2. UNCHANGED <<task, blocked, behind, pulled, socket, nudge, rejecting, offline>>
    BY <1>14 DEF ChangeAnswered, StatusAnswered, Answered
  <2> QED BY <1>0, <2>1, <2>2 DEF IInv
<1>15. CASE AnswerFails \/ QuietCheck
  BY <1>0, <1>15 DEF AnswerFails, QuietCheck, Answered, Signal, IInv
<1>16. CASE UNCHANGED vars
  BY <1>0, <1>16 DEF vars, IInv
<1> QED
  BY <1>1, <1>2, <1>3, <1>4, <1>5, <1>6, <1>7, <1>8, <1>9, <1>10, <1>11,
     <1>12, <1>13, <1>14, <1>15, <1>16 DEF Next, Run

\* The scheduler's state is well typed, and no `changed` frame is on its way to a
\* socket that is not up.
THEOREM TypeCorrect == Spec => []TypeOK
  BY StartTyped, TypeStep, PTL DEF Spec

LEMMA Invariant == Spec => []IInv
  BY Start, Step, PTL DEF Spec

\* The foreground re-check tick (foreground_ws_idle) never leaves a device behind
\* with nothing to wake it, through any interleaving of edits, pushes,
\* reconnections, retries, sign-outs, refused sessions and answers about the account
\* with runs and their debounce, unless the last run failed offline or a late answer
\* has signed the user in again without asking for a run.
THEOREM StaysCaughtUp == Spec => []CaughtUpOnline
<1>1. IInv => CaughtUpOnline
  BY DEF IInv, Idle, Coming, Online, CaughtUpOnline, CaughtUpInTime, CaughtUp,
     ForegroundIdle
<1> QED BY <1>1, Invariant, PTL

\* Where a run that fails offline has lost its socket too, such an answer is all
\* that can.
THEOREM CaughtUpOffline ==
  ASSUME ~SocketOutlivesFailure
  PROVE  Spec => []CaughtUpInTime
<1>1. IInv => CaughtUpInTime
  BY DEF IInv, Idle, Coming, Online, CaughtUpInTime, CaughtUp, ForegroundIdle
<1> QED BY <1>1, Invariant, PTL

\* With sync on, nothing is missing where only a change of the subscription can
\* turn it on without a run.
IdleInSync ==
  /\ task = "idle" /\ behind
  /\ account = "sync" /\ socket = "up" /\ ~rejecting /\ Online
  => Coming

LEMMA InSyncStep ==
  ASSUME "change" \notin Requests, IInv, IdleInSync, [Next]_vars
  PROVE  IdleInSync'
<1>0. TypeOK /\ NoSocket /\ Missed
  BY DEF IInv
<1> USE DEF IdleInSync, Coming, Online, flags, local, remote, link, answers
<1>1. CASE Timer \/ Receive \/ Debounced
  BY <1>1 DEF Timer, Receive, Debounced, BeginRun, RunStart
<1>2. CASE Refresh \/ SessionGone
  BY <1>2 DEF Refresh, SessionGone, EndRun
<1>3. CASE Skip \/ Snapshot
  BY <1>0, <1>3 DEF Skip, Snapshot, EndRun, Teardown, NoSocket
<1>4. ASSUME NEW unreachable \in BOOLEAN, Fail(unreachable) PROVE IdleInSync'
  BY <1>4 DEF Fail, EndRun
<1>5. CASE Unauthorized \/ EpochStale
  BY <1>5 DEF Unauthorized, EpochStale, Retry
<1>6. CASE Pull
  BY <1>6 DEF Pull
<1>7. CASE Succeed
  BY <1>0, <1>7 DEF Succeed, EndRun, Unserved, Missed
<1>8. CASE SocketUp \/ Nudged
  BY <1>8 DEF SocketUp, Nudged, Signal
<1>9. CASE SocketDrops
  BY <1>9 DEF SocketDrops
<1>10. CASE PeerPush
  BY <1>10 DEF PeerPush
<1>11. CASE Edit \/ SyncNow \/ Activate \/ Deactivate
  BY <1>11 DEF Edit, SyncNow, Activate, Deactivate, Signal
<1>12. CASE SignOut \/ SignIn
  BY <1>12 DEF SignOut, SignIn, Signal
<1>13. ASSUME NEW what \in Requests, Ask(what) PROVE IdleInSync'
  BY <1>13 DEF Ask
<1>14. CASE ChangeAnswered
  BY <1>0, <1>14 DEF ChangeAnswered, Answered, TypeOK, Places
<1>15. CASE StatusAnswered
  BY <1>15 DEF StatusAnswered, Answered, Signal
<1>16. CASE AnswerFails \/ QuietCheck
  BY <1>16 DEF AnswerFails, QuietCheck, Answered, Signal
<1>17. CASE UNCHANGED vars
  BY <1>17 DEF vars
<1> QED
  BY <1>1, <1>2, <1>3, <1>4, <1>5, <1>6, <1>7, <1>8, <1>9, <1>10, <1>11,
     <1>12, <1>13, <1>14, <1>15, <1>16, <1>17 DEF Next, Run

\* And where the subscription is not changed in the app either, nothing can: a token
\* refresh that turns sync on is part of a run, and every status check that does
\* asks for one.
THEOREM CaughtUpUnchanged ==
  ASSUME ~SocketOutlivesFailure, "change" \notin Requests
  PROVE  Spec => []CaughtUp
<1>1. Init => IdleInSync
  BY DEF Init, IdleInSync
<1>2. IInv /\ IdleInSync /\ [Next]_vars => IdleInSync'
  BY InSyncStep
<1>3. IdleInSync => CaughtUp
  BY DEF IdleInSync, Coming, Online, CaughtUp, ForegroundIdle
<1> QED BY <1>1, <1>2, <1>3, Invariant, PTL DEF Spec
=============================================================================
