----------------------------- MODULE SyncScheduler -----------------------------
(***************************************************************************)
(* The task that decides when a sync run starts: signals from edits, from  *)
(* the socket and from the account code, their debounce, the poll timer,   *)
(* the retries inside a run, and the flags a run leaves for the next       *)
(* decision. While a socket is up in the foreground the timer starts no    *)
(* run: only signals do.                                                   *)
(*                                                                         *)
(* Durations are left out: a timer may fire at any time. One unpushed edit *)
(* and one push of a peer are followed at a time, since another one of     *)
(* either only adds a signal. There is one account: it may be signed out   *)
(* of and into again, and what was asked of it may be answered meanwhile.  *)
(***************************************************************************)
EXTENDS Naturals, FiniteSets

CONSTANTS
  SocketOutlivesFailure,  \* a run may fail offline beside a live socket
  Requests,               \* what the user asks of the account
  MaxAsked                \* how many requests are in flight at a time

ASSUME OutlivesAssumption == SocketOutlivesFailure \in BOOLEAN

\* A change of the subscription (cancel or resume), or its status.
ASSUME RequestsAssumption == Requests \subseteq {"change", "status"}

ASSUME MaxAskedAssumption == MaxAsked \in Nat

VARIABLES
  task,       \* where the sync task is
  tried,      \* the retries this run has used
  signals,    \* the kinds of signal in the channel
  account,    \* signed out, signed in without sync, or with it
  asked,      \* the requests in flight
  blocked,    \* the workspace may not be saved in this launch
  socket,     \* no WebSocket client, one without a connection, one with
  nudge,      \* a `changed` frame on its way to the socket
  active,     \* the window is active
  offline,    \* the last run failed at the transport
  rejecting,  \* the last run failed otherwise
  hint,       \* the last run left edits pending
  queued,     \* the store has unpushed edits
  saved,      \* and so have the files: an earlier launch's, or a failed run's own
  edited,     \* the user edited since the run's snapshot
  behind,     \* the server has a push of a peer this device has not landed
  pulled,     \* the run in flight has pulled it
  resurrected \* ghost: an answer has signed the user in again and asked for no run

flags == <<offline, rejecting, hint>>
local == <<queued, saved, edited>>
remote == <<behind, pulled>>
link == <<socket, nudge>>
answers == <<asked, resurrected>>
vars == <<task, tried, signals, account, blocked, link, active, flags, local, remote,
          answers>>

\* A run starts with the account's token, and nothing to refresh without one.
RunStart(signedIn) == IF signedIn = "none" THEN "attempt" ELSE "refresh"

\* What an earlier launch left in the files is restored to the store's queue.
Init ==
  /\ tried = {}
  /\ signals = {}
  /\ account \in {"none", "free", "sync"}
  /\ task = RunStart(account)
  /\ asked = {}
  /\ resurrected = FALSE
  /\ blocked \in BOOLEAN
  /\ socket = "none"
  /\ nudge = FALSE
  /\ active = FALSE
  /\ offline = FALSE
  /\ rejecting = FALSE
  /\ hint = FALSE
  /\ saved \in BOOLEAN
  /\ queued = saved
  /\ edited = FALSE
  /\ behind \in BOOLEAN
  /\ pulled = FALSE

Signal(kind) == signals' = signals \cup {kind}

(***************************************************************************)
(* Deciding on a run.                                                      *)
(***************************************************************************)
\* Mutant: a server that rejects is as good as one that was asked.
IdleDespiteRejection == active /\ socket = "up" /\ ~(queued \/ hint)

ForegroundIdle == active /\ socket = "up" /\ ~(queued \/ hint) /\ ~rejecting

BeginRun == task' = RunStart(account)

\* The run is over, and what it knew with it.
EndRun == task' = "idle" /\ tried' = {} /\ edited' = FALSE /\ pulled' = FALSE

\* In foreground WebSocket mode the timer is no more than a re-check.
Timer ==
  /\ task = "idle"
  /\ ~ForegroundIdle
  /\ BeginRun
  /\ UNCHANGED <<tried, signals, account, blocked, link, active, flags, local, remote,
                 answers>>

\* The first signal opens the debounce, the others are taken during it.
Receive ==
  /\ task \in {"idle", "debounce"}
  /\ \E kind \in signals : signals' = signals \ {kind}
  /\ task' = "debounce"
  /\ UNCHANGED <<tried, account, blocked, link, active, flags, local, remote, answers>>

Debounced ==
  /\ task = "debounce"
  /\ signals' = {}
  /\ BeginRun
  /\ UNCHANGED <<tried, account, blocked, link, active, flags, local, remote, answers>>

(***************************************************************************)
(* A run.                                                                  *)
(***************************************************************************)
\* Mutant: only the client is dropped.
DropClient == socket' = "none" /\ UNCHANGED nudge

Teardown == socket' = "none" /\ nudge' = FALSE

\* ensure_fresh_token: the token is good, was refreshed with what the server
\* thinks of the entitlement, or could not be; forced after a rejection, it also
\* gives up the socket that was authenticated with the old one. A sign-out during
\* it leaves nothing to write the tokens to.
Refresh ==
  /\ task \in {"refresh", "reauth"}
  /\ task' = "attempt"
  /\ account' \in IF account = "none" THEN {"none"} ELSE {"free", "sync"}
  /\ IF task = "reauth" THEN Teardown ELSE UNCHANGED link
  /\ UNCHANGED <<tried, signals, blocked, active, flags, local, remote, answers>>

\* The refresh token is refused: the run is given up where it is, and so is the
\* account, but neither the socket nor the flags know.
SessionGone ==
  /\ task \in {"refresh", "reauth"}
  /\ account' = "none"
  /\ EndRun
  /\ UNCHANGED <<signals, blocked, link, active, flags, queued, saved, behind,
                 answers>>

\* The start of an attempt: no run while saves are blocked or without sync, else
\* the socket is made sure of and the edits are snapshotted.
Skip ==
  /\ task = "attempt"
  /\ blocked \/ account # "sync"
  /\ IF blocked THEN UNCHANGED link ELSE Teardown
  /\ EndRun
  /\ UNCHANGED <<signals, account, blocked, active, flags, queued, saved, behind,
                 answers>>

Snapshot ==
  /\ task = "attempt"
  /\ ~blocked
  /\ account = "sync"
  /\ task' = "pulling"
  /\ socket' = IF socket = "none" THEN "down" ELSE socket
  /\ edited' = FALSE
  /\ pulled' = FALSE
  /\ resurrected' = FALSE
  /\ UNCHANGED <<tried, signals, account, asked, blocked, nudge, active, flags, queued,
                 saved, behind>>

Pull ==
  /\ task = "pulling"
  /\ task' = "pushing"
  /\ pulled' = TRUE
  /\ UNCHANGED <<tried, signals, account, blocked, link, active, flags, local, behind,
                 answers>>

\* Mutant: what arrived during the run is taken for served by it.
ServedByRun == {}

Unserved == signals

Succeed ==
  /\ task = "pushing"
  /\ EndRun
  /\ offline' = FALSE
  /\ rejecting' = FALSE
  /\ hint' = FALSE
  /\ queued' = (queued /\ edited)
  /\ saved' = FALSE
  /\ behind' = (behind /\ ~pulled)
  /\ signals' = Unserved
  /\ UNCHANGED <<account, blocked, link, active, answers>>

\* Mutant: only the store's queue counts.
StorePending == queued

Pending == queued \/ saved

\* A push that fails has saved what its run queued, and never lands it in the store.
Fail(unreachable) ==
  /\ task \in {"pulling", "pushing"}
  /\ unreachable => SocketOutlivesFailure \/ socket # "up"
  /\ EndRun
  /\ offline' = unreachable
  /\ rejecting' = ~unreachable
  /\ UNCHANGED queued
  /\ saved' \in IF task = "pushing" THEN {saved, TRUE} ELSE {saved}
  /\ hint' = Pending'
  /\ UNCHANGED <<signals, account, blocked, link, active, behind, answers>>

\* An expired token and a stale epoch are each retried once, without a trace.
Retry(why, place) ==
  /\ why \notin tried
  /\ tried' = tried \cup {why}
  /\ task' = place
  /\ UNCHANGED <<signals, account, blocked, active, flags, local, remote, answers>>

EpochStale == task = "pushing" /\ Retry("epoch", "attempt") /\ UNCHANGED link

\* Signed out meanwhile, there is no token to refresh and the socket goes at once.
Unauthorized ==
  /\ task \in {"pulling", "pushing"}
  /\ IF account = "none"
       THEN Retry("auth", "attempt") /\ Teardown
       ELSE Retry("auth", "reauth") /\ UNCHANGED link

(***************************************************************************)
(* The socket and the server.                                              *)
(***************************************************************************)
\* The connection that is made asks for a run.
SocketUp ==
  /\ socket = "down"
  /\ socket' = "up"
  /\ Signal("immediate")
  /\ UNCHANGED <<task, tried, account, blocked, nudge, active, flags, local, remote,
                 answers>>

SocketDrops ==
  /\ socket = "up"
  /\ socket' = "down"
  /\ nudge' = FALSE
  /\ UNCHANGED <<task, tried, signals, account, blocked, active, flags, local, remote,
                 answers>>

Nudged ==
  /\ nudge
  /\ nudge' = FALSE
  /\ Signal("immediate")
  /\ UNCHANGED <<task, tried, account, blocked, socket, active, flags, local, remote,
                 answers>>

PeerPush ==
  /\ ~behind
  /\ behind' = TRUE
  /\ pulled' = FALSE
  /\ nudge' = (nudge \/ socket = "up")
  /\ UNCHANGED <<task, tried, signals, account, blocked, socket, active, flags, local,
                 answers>>

(***************************************************************************)
(* The user and the account.                                               *)
(***************************************************************************)
Edit ==
  /\ ~queued
  /\ queued' = TRUE
  /\ edited' = TRUE
  /\ Signal("local")
  /\ UNCHANGED <<task, tried, account, blocked, link, active, flags, saved, remote,
                 answers>>

SyncNow ==
  /\ account = "sync"
  /\ Signal("immediate")
  /\ UNCHANGED <<task, tried, account, blocked, link, active, flags, local, remote,
                 answers>>

\* A window that comes to the front asks for a run if no socket is up and the last
\* poll is old.
Activate ==
  /\ ~active
  /\ active' = TRUE
  /\ \/ UNCHANGED signals
     \/ socket # "up" /\ Signal("immediate")
  /\ UNCHANGED <<task, tried, account, blocked, link, flags, local, remote, answers>>

Deactivate ==
  /\ active
  /\ active' = FALSE
  /\ UNCHANGED <<task, tried, signals, account, blocked, link, flags, local, remote,
                 answers>>

\* What is asked of the account stays asked.
SignOut ==
  /\ account # "none"
  /\ account' = "none"
  /\ UNCHANGED <<task, tried, signals, blocked, link, active, flags, local, remote,
                 answers>>

\* A sign-in takes the place of a change of the subscription that is in flight, and
\* installs its account even if an answer has put one back since it began.
SignIn ==
  /\ account' \in {"free", "sync"}
  /\ asked' = asked \ {"change"}
  /\ IF account = "none" THEN behind' = TRUE /\ pulled' = FALSE
     ELSE UNCHANGED remote
  /\ Signal("immediate")
  /\ UNCHANGED <<task, tried, blocked, link, active, flags, local, resurrected>>

(***************************************************************************)
(* What the account is asked, and the answers. Each is computed from the   *)
(* account as it was when asked, and installed whatever it is by then.     *)
(***************************************************************************)
Ask(what) ==
  /\ account # "none"
  /\ what \notin asked /\ Cardinality(asked) < MaxAsked
  /\ asked' = asked \cup {what}
  /\ UNCHANGED <<task, tried, signals, account, blocked, link, active, flags, local,
                 remote, resurrected>>

Answered(what) ==
  /\ what \in asked
  /\ asked' = asked \ {what}
  /\ UNCHANGED <<task, tried, blocked, link, active, flags, local, remote>>

\* The subscription was cancelled or resumed: no run is asked for.
ChangeAnswered ==
  /\ Answered("change")
  /\ account' \in {"free", "sync"}
  /\ resurrected' = (resurrected \/ account = "none")
  /\ UNCHANGED signals

\* A status check, or the poll after a checkout, asks for one if there is sync.
StatusAnswered ==
  /\ Answered("status")
  /\ \/ account' = "sync" /\ Signal("immediate") /\ UNCHANGED resurrected
     \/ account' = "free" /\ UNCHANGED signals
        /\ resurrected' = (resurrected \/ account = "none")

AnswerFails ==
  /\ \E what \in asked : Answered(what)
  /\ UNCHANGED <<signals, account, resurrected>>

\* A quiet check, alone, does not resurrect the account: only its answer counts. It
\* asks for a run if it turns sync on.
QuietCheck ==
  /\ account # "none"
  /\ account' \in {"free", "sync"}
  /\ IF account' = "sync" /\ account # "sync" THEN Signal("immediate")
     ELSE UNCHANGED signals
  /\ UNCHANGED <<task, tried, blocked, link, active, flags, local, remote, answers>>

Run ==
  \/ Timer \/ Receive \/ Debounced \/ Refresh \/ SessionGone \/ Skip \/ Snapshot
  \/ Pull \/ Succeed \/ Unauthorized \/ EpochStale
  \/ \E unreachable \in BOOLEAN : Fail(unreachable)

Next ==
  \/ Run
  \/ SocketUp \/ SocketDrops \/ Nudged \/ PeerPush
  \/ Edit \/ SyncNow \/ Activate \/ Deactivate \/ SignOut \/ SignIn
  \/ \E what \in Requests : Ask(what)
  \/ ChangeAnswered \/ StatusAnswered \/ AnswerFails \/ QuietCheck

Spec == Init /\ [][Next]_vars

\* Fairness: the task runs, its timers fire, its debounce ends however many signals
\* arrive, the socket hands over what it received, and a server that is asked again
\* and again answers a pull and a push in the end.
FairSpec ==
  /\ Spec
  /\ WF_vars(Run) /\ WF_vars(Debounced) /\ WF_vars(Nudged)
  /\ SF_vars(Pull) /\ SF_vars(Succeed)

(***************************************************************************)
(* Properties.                                                             *)
(***************************************************************************)
Places ==
  /\ task \in {"idle", "debounce", "refresh", "attempt", "pulling", "pushing", "reauth"}
  /\ tried \in SUBSET {"auth", "epoch"}
  /\ signals \in SUBSET {"immediate", "local"}
  /\ account \in {"none", "free", "sync"}
  /\ asked \in SUBSET Requests
  /\ socket \in {"none", "down", "up"}

Flags ==
  /\ blocked \in BOOLEAN /\ active \in BOOLEAN /\ nudge \in BOOLEAN
  /\ offline \in BOOLEAN /\ rejecting \in BOOLEAN /\ hint \in BOOLEAN
  /\ queued \in BOOLEAN /\ saved \in BOOLEAN /\ edited \in BOOLEAN
  /\ behind \in BOOLEAN /\ pulled \in BOOLEAN /\ resurrected \in BOOLEAN

TypeOK == Places /\ Flags /\ (nudge => socket = "up")

\* "Foreground pure-WS mode: window active, socket live, and caught up": while the
\* timer starts no run, a device that is behind has a signal coming. Not so when
\* a run failed offline beside the live socket, nor when its session was refused and
\* the account came back with an answer that asks for no run.
CaughtUp ==
  task = "idle" /\ account = "sync" /\ ForegroundIdle /\ behind =>
    nudge \/ signals # {}

\* In the absence of such an answer.
CaughtUpInTime == ~resurrected => CaughtUp

\* And of such a failure.
CaughtUpOnline == ~offline => CaughtUpInTime

\* Left by either, with nothing on its way to wake the task.
Outage ==
  /\ task = "idle" /\ ForegroundIdle /\ ~nudge /\ signals = {}
  /\ offline \/ resurrected

\* A peer's push is landed in the end, through any drops and reconnections of the
\* socket, unless such a run or such an answer has left the device waiting.
Landed ==
  behind /\ account = "sync" /\ ~blocked ~> ~behind \/ account # "sync" \/ Outage

\* What the user edited is pushed in the end, and so is what an earlier launch left
\* and what a failed run queued.
Delivered ==
  (queued \/ saved) /\ account = "sync" /\ ~blocked
    ~> ~(queued \/ saved) \/ account # "sync"
=============================================================================
