---------------------------- MODULE PulledDocument ----------------------------
(***************************************************************************)
(* What one device holds of one scheme document, and what its pull cursor  *)
(* says it holds: the live document, the copy and the cursor on disk, the  *)
(* sync run between them, the server, and the squashes that give the       *)
(* document a new history (a new epoch) on the server.                     *)
(*                                                                         *)
(* A document is a set of structs <<epoch, content>>: a piece of content   *)
(* as one history of the document expresses it. `base` is the population   *)
(* of a history: a Yjs struct without it stays pending, shows nothing, and *)
(* is not in the document's next encoding.                                 *)
(***************************************************************************)
EXTENDS Integers, FiniteSets, Sequences

CONSTANTS
  Local,      \* edits this device makes
  Remote,     \* edits other devices make
  base,       \* the population of the document
  Scopes,     \* what may happen: a behaviour is in one of them
  MaxEpoch    \* bound on squashes

ASSUME ContentAssumption ==
  /\ Local \cap Remote = {}
  /\ base \notin Local \cup Remote
\* A scope: the edits made, what may go wrong or get in the way and how often,
\* and whether histories are squashed.
FaultKinds ==
  {"pull", "push", "media", "write", "crash", "quit", "racing", "overlap", "signout",
   "typing"}
ASSUME ScopeAssumption ==
  /\ Scopes \subseteq [edits : SUBSET Local, faults : SUBSET FaultKinds,
                       max : Nat, squashes : BOOLEAN]
  /\ MaxEpoch \in Nat

VARIABLES
  scope,   \* the scope of the behaviour; never changes
  server,  \* the server's document, its sequence and its epoch
  log,     \* what the server showed at each sequence (history variable)
  up,      \* the app is running
  live,    \* the live document and the updates queued for it
  disk,    \* the saved document, and sync-state.json
  saving,  \* the workspace save being written, if any
  phase,   \* where the sync run is
  run,     \* the run's copies
  faults   \* failures so far

vars == <<scope, server, log, up, live, disk, saving, phase, run, faults>>

Content == Local \cup Remote \cup {base}
Struct == (0 .. MaxEpoch) \X Content

\* The structs of S that integrate, and what a document shows.
Held(S) == {s \in S : <<s[1], base>> \in S}
Visible(S) == {s[2] : s \in Held(S)}

\* The histories a document holds.
Lineages(S) == {s[1] : s \in Held(S)}

Fresh(k, C) == {k} \X C

\* Where a document is rebuilt without its history.
Rebuilt(S, k) == Fresh(k, Visible(S))

Cursor == [seq : Nat, epoch : 0 .. MaxEpoch]
NoSync == [cur |-> [seq |-> 0, epoch |-> 0], unlanded |-> FALSE, reoffered |-> FALSE]
NoSave == [step |-> "none", doc |-> {}, pend |-> {}, sync |-> NoSync]
NoRun == [doc |-> {}, pend |-> {}, cur |-> [seq |-> 0, epoch |-> 0],
          pulled |-> FALSE, sent |-> {}, edited |-> FALSE, reoffered |-> FALSE,
          retried |-> FALSE]

Forget(cur) == [cur EXCEPT !.seq = 0]

\* The document is known everywhere and synced.
Init ==
  /\ scope \in Scopes
  /\ server = [doc |-> Fresh(0, {base}), seq |-> 1, epoch |-> 0]
  /\ log = <<{base}>>
  /\ up = TRUE
  /\ live = [doc |-> Fresh(0, {base}), pend |-> {}]
  /\ disk = [doc |-> Fresh(0, {base}), pend |-> {},
             cur |-> [seq |-> 1, epoch |-> 0],
             unlanded |-> FALSE, reoffered |-> FALSE]
  /\ saving = NoSave
  /\ phase = "idle"
  /\ run = NoRun
  /\ faults = 0

Fault(f) == f \in scope.faults /\ faults < scope.max /\ faults' = faults + 1

(***************************************************************************)
(* The server.                                                             *)
(***************************************************************************)
Commit(doc, epoch) ==
  /\ server' = [doc |-> doc, seq |-> server.seq + 1, epoch |-> epoch]
  /\ log' = Append(log, Visible(doc))

\* Another device pushes.
RemotePush(e) ==
  /\ e \in Remote \ Visible(server.doc)
  /\ Commit(server.doc \cup Fresh(server.epoch, {e}), server.epoch)
  /\ UNCHANGED <<up, live, disk, saving, phase, run, faults>>

\* Another device, fully synced, squashes the document.
RemoteSquash ==
  /\ scope.squashes
  /\ server.epoch < MaxEpoch
  /\ Commit(Rebuilt(server.doc, server.epoch + 1), server.epoch + 1)
  /\ UNCHANGED <<up, live, disk, saving, phase, run, faults>>

(***************************************************************************)
(* The user and the save task.                                             *)
(***************************************************************************)
\* An edit goes into the history the live document has.
ApplyLocal(e) ==
  /\ up
  /\ phase = "idle" \/ "typing" \in scope.faults
  /\ e \in scope.edits \ (Visible(live.doc) \cup Visible(server.doc))
  /\ \E k \in Lineages(live.doc) :
       /\ \A l \in Lineages(live.doc) : l <= k
       /\ live' = [doc |-> live.doc \cup Fresh(k, {e}),
                   pend |-> live.pend \cup Fresh(k, {e})]
  /\ run' = IF phase = "idle" THEN run ELSE [run EXCEPT !.edited = TRUE]
  /\ UNCHANGED <<server, log, up, disk, saving, phase, faults>>

\* Refused while a run is Running; signing out sets a run's status to Idle.
SaveSnapshot ==
  /\ up
  /\ phase = "idle" \/ "signout" \in scope.faults
  /\ saving = NoSave
  /\ live.doc # disk.doc \/ live.pend # disk.pend
  /\ saving' = [NoSave EXCEPT !.step = "encode", !.doc = live.doc, !.pend = live.pend]
  /\ UNCHANGED <<server, log, up, live, disk, phase, run, faults>>

\* The documents are encoded by the writer, from handles: an edit made since is
\* in, its queued update is not. A document replaced since is the old one.
SaveEncode ==
  /\ saving.step = "encode"
  /\ saving' \in {[saving EXCEPT !.step = "queue", !.doc = d] :
                   d \in {saving.doc, live.doc}}
  /\ UNCHANGED <<server, log, up, live, disk, phase, run, faults>>

\* The rest of sync-state.json is read, and written back with the queue: a run may
\* have saved its own in between.
ReadSync ==
  /\ saving.step = "queue"
  /\ saving' = [saving EXCEPT !.step = "write", !.sync = [k \in DOMAIN NoSync |-> disk[k]]]
  /\ UNCHANGED <<server, log, up, live, disk, phase, run, faults>>

WithSync(sync) == [k \in DOMAIN disk |-> IF k \in DOMAIN sync THEN sync[k] ELSE disk[k]]

SaveQueue ==
  /\ saving.step = "write"
  /\ disk' = [WithSync(saving.sync) EXCEPT !.pend = saving.pend]
  /\ saving' = [saving EXCEPT !.step = "doc", !.sync = NoSync]
  /\ UNCHANGED <<server, log, up, live, phase, run, faults>>

SaveDoc ==
  /\ saving.step = "doc"
  /\ disk' = [disk EXCEPT !.doc = saving.doc]
  /\ saving' = NoSave
  /\ UNCHANGED <<server, log, up, live, phase, run, faults>>

(***************************************************************************)
(* The sync run, up to its push.                                           *)
(***************************************************************************)
\* Nothing makes a run wait for a save whose write has started: "overlap".
StartRun ==
  /\ up
  /\ phase \in {"idle", "stale"}
  /\ saving = NoSave \/ "overlap" \in scope.faults
  /\ phase' = "starting"
  /\ run' = [NoRun EXCEPT !.pend = live.pend, !.retried = phase = "stale"]
  /\ UNCHANGED <<server, log, up, live, disk, saving, faults>>

\* The store's document wins over the one on disk; the queues are merged.
LoadRun ==
  /\ phase = "starting"
  /\ phase' = "pulling"
  /\ run' = [run EXCEPT !.doc = live.doc, !.pend = @ \cup disk.pend,
                        !.cur = disk.cur, !.reoffered = disk.reoffered]
  /\ UNCHANGED <<server, log, up, live, disk, saving, faults>>

ServerHead == [seq |-> server.seq, epoch |-> server.epoch]

\* Mutant: every document is merged.
MergeAlways(r) == FALSE

\* The document of the response replaces the local one: its epoch is not the
\* one the cursor has.
Adopts(r) == server.epoch # r.cur.epoch

Merged(r) ==
  [r EXCEPT !.doc = Held(@ \cup server.doc), !.cur = ServerHead,
            !.pulled = Held(r.doc \cup server.doc) # r.doc]

\* Mutant: queued edits are not re-expressed.
AdoptedWithoutRescue(r) ==
  [r EXCEPT !.doc = server.doc, !.pend = {}, !.cur = ServerHead, !.pulled = TRUE]

\* The queued edits the adopted document lacks are expressed again in its
\* history; the old updates of the queue are dropped.
Adopted(r) ==
  LET rescue == Fresh(server.epoch, (Visible(r.doc) \cap {s[2] : s \in r.pend})
                                      \ Visible(server.doc))
  IN [r EXCEPT !.doc = server.doc \cup rescue, !.pend = rescue, !.cur = ServerHead,
               !.pulled = TRUE]

\* Mutant: a mismatch is settled in the server's favour.
RepairedFromServer(r) ==
  [Merged(r) EXCEPT !.doc = server.doc, !.pulled = server.doc # r.doc]

\* A mismatch is settled by pulling the full state again, and offering the local
\* one to the server, once while mismatches are reported.
Repaired(r) ==
  [Merged(r) EXCEPT !.pend = IF r.reoffered THEN {} ELSE Merged(r).doc,
                    !.reoffered = TRUE]

\* Mutant: no proof is ever asked for.
NeverProved(r) == FALSE

\* A caught-up pull with nothing queued proves the document by its state vector.
Mismatched(r) == r.pend = {} /\ r.doc # server.doc

Pull ==
  /\ phase = "pulling"
  /\ phase' = "pulled"
  /\ run' = IF server.seq > run.cur.seq
            THEN [(IF Adopts(run) THEN Adopted(run) ELSE Merged(run))
                    EXCEPT !.reoffered = FALSE]
            ELSE IF Mismatched(run) THEN Repaired(run)
            ELSE [run EXCEPT !.reoffered = FALSE]
  /\ UNCHANGED <<server, log, up, live, disk, saving, faults>>

\* Nothing has been saved: the run leaves no trace.
PullFails ==
  /\ phase = "pulling"
  /\ Fault("pull")
  /\ phase' = "idle"
  /\ run' = NoRun
  /\ UNCHANGED <<server, log, up, live, disk, saving>>

\* What was pulled is saved before the push.
SaveContent ==
  /\ phase = "pulled"
  /\ phase' = "pushing"
  /\ disk' = IF run.pulled THEN [disk EXCEPT !.doc = run.doc] ELSE disk
  /\ UNCHANGED <<server, log, up, live, saving, run, faults>>

(***************************************************************************)
(* The push, and what follows it.                                          *)
(***************************************************************************)
PushNothing ==
  /\ phase = "pushing"
  /\ run.pend = {}
  /\ phase' = "pushed"
  /\ UNCHANGED <<server, log, up, live, disk, saving, run, faults>>

CurrentEpoch == run.cur.epoch = server.epoch

Accept ==
  /\ phase = "pushing"
  /\ run.pend # {}
  /\ CurrentEpoch
  /\ Commit(Held(server.doc \cup run.pend), server.epoch)
  /\ phase' = "pushed"
  /\ run' = [run EXCEPT !.sent = run.pend, !.pend = {}]
  /\ UNCHANGED <<up, live, disk, saving, faults>>

\* The state the run saves, once its push has ended.
Saved(cur) ==
  [disk EXCEPT !.pend = run.pend, !.cur = cur, !.unlanded = run.pulled,
               !.reoffered = run.reoffered]

\* Mutant: a failed push keeps the cursor of what it pulled.
FailedPushKeepsCursor == disk' = Saved(run.cur)

\* The push fails: the run will not land, so what it pulled is to be pulled again.
FailedPush == disk' = Saved(IF run.pulled THEN Forget(run.cur) ELSE run.cur)

\* The document was squashed since the pull. The driver makes a second attempt.
RejectStale ==
  /\ phase = "pushing"
  /\ run.pend # {}
  /\ ~CurrentEpoch
  /\ FailedPush
  /\ phase' = IF run.retried THEN "idle" ELSE "stale"
  /\ run' = NoRun
  /\ UNCHANGED <<server, log, up, live, saving, faults>>

\* The request or its answer is lost.
PushFails ==
  /\ phase = "pushing"
  /\ run.pend # {}
  /\ Fault("push")
  /\ \/ UNCHANGED <<server, log>>
     \/ CurrentEpoch /\ Commit(Held(server.doc \cup run.pend), server.epoch)
  /\ FailedPush
  /\ phase' = "idle"
  /\ run' = NoRun
  /\ UNCHANGED <<up, live, saving>>

SaveCursor ==
  /\ phase = "pushed"
  /\ phase' = "saved"
  /\ disk' = Saved(run.cur)
  /\ UNCHANGED <<server, log, up, live, saving, run, faults>>

\* Media fail: what was pulled is forgotten. Other errors are returned as they
\* are: the run has saved its cursors and does not land either.
MediaFails ==
  /\ phase = "saved"
  /\ Fault("media")
  /\ disk' = IF run.pulled THEN [disk EXCEPT !.cur = Forget(run.cur)] ELSE disk
  /\ phase' = "idle"
  /\ run' = NoRun
  /\ UNCHANGED <<server, log, up, live, saving>>

WriteFails ==
  /\ phase \in {"pulled", "saved", "adopted"}
  /\ Fault("write")
  /\ phase' = "idle"
  /\ run' = NoRun
  /\ UNCHANGED <<server, log, up, live, disk, saving>>

(***************************************************************************)
(* A squash of this device's own, proposed by a quiet run.                 *)
(***************************************************************************)
\* Mutant: the proposal names no base.
AnyHead == server.epoch = run.cur.epoch

AtHead == ServerHead = run.cur

ProposeSquash ==
  /\ scope.squashes
  /\ phase = "saved"
  /\ run.pend = {} /\ run.sent = {} /\ ~run.pulled
  /\ run.cur.seq > 0
  /\ server.epoch < MaxEpoch
  /\ AtHead
  /\ Commit(Rebuilt(run.doc, server.epoch + 1), server.epoch + 1)
  /\ phase' = "squashed"
  /\ UNCHANGED <<up, live, disk, saving, run, faults>>

\* The squashed state is pulled and saved at once; when that fails the run lands
\* as it is, and a later one adopts.
AdoptSquash ==
  /\ phase = "squashed"
  /\ run' = Adopted(run)
  /\ disk' = [disk EXCEPT !.doc = run'.doc]
  /\ phase' = "adopted"
  /\ UNCHANGED <<server, log, up, live, saving, faults>>

SkipAdoption ==
  /\ phase = "squashed"
  /\ Fault("pull")
  /\ phase' = "landing"
  /\ UNCHANGED <<server, log, up, live, disk, saving, run>>

SaveSquashCursor ==
  /\ phase = "adopted"
  /\ disk' = [disk EXCEPT !.pend = run.pend, !.cur = run.cur]
  /\ phase' = "landing"
  /\ UNCHANGED <<server, log, up, live, saving, run, faults>>

(***************************************************************************)
(* The landing.                                                            *)
(***************************************************************************)
\* Mutants: the unsent edits are not replayed; updates of another history are
\* taken for content.
LandedWithoutReplay(pend) == run.doc
ReplayedAnyHistory(pend) == run.doc \cup pend

\* The run's document, with the unsent edits replayed on it.
Replaced(pend) == Held(run.doc \cup pend)

Land ==
  /\ phase \in {"saved", "landing"}
  /\ LET pend == live.pend \ run.sent
     IN live' \in {[doc |-> d, pend |-> pend] :
          d \in IF ~run.pulled THEN {live.doc}
                ELSE IF run.edited
                THEN {Held(live.doc \cup run.doc \cup pend), Replaced(pend)}
                ELSE {Replaced(pend)}}
  /\ phase' = "idle"
  /\ run' = NoRun
  /\ UNCHANGED <<server, log, up, disk, saving, faults>>

(***************************************************************************)
(* The end of the process, and the next launch.                            *)
(***************************************************************************)
Stop ==
  /\ up' = FALSE
  /\ live' = [doc |-> {}, pend |-> {}]
  /\ saving' = NoSave
  /\ phase' = "idle"
  /\ run' = NoRun

Crash ==
  /\ up
  /\ Fault("crash")
  /\ Stop
  /\ UNCHANGED <<server, log, disk>>

\* Quitting while Running abandons the pulls of a run that has not landed. A run
\* whose account was signed out is no longer Running.
AbandonUnlanded ==
  IF phase # "idle" /\ disk.unlanded
  THEN [disk EXCEPT !.cur = Forget(disk.cur), !.unlanded = FALSE]
  ELSE disk

\* The flush writes the live document and then the queue. A save that is being
\* written is not waited for: what it still had to write may come before, between
\* or after the two, or not at all.
Late(steps, written) == IF saving.step \in steps THEN {written} ELSE {}
Quit ==
  /\ up
  /\ saving = NoSave \/ "racing" \in scope.faults
  /\ Fault("quit")
  /\ \E sync \in {AbandonUnlanded} \cup Late({"encode", "queue"}, disk)
                   \cup (IF "signout" \in scope.faults THEN {disk} ELSE {})
                   \cup Late({"write"}, WithSync(saving.sync)),
        doc \in {live.doc} \cup Late({"queue", "write", "doc"}, saving.doc),
        pend \in {live.pend} \cup Late({"encode", "queue", "write"}, saving.pend) :
       disk' = [sync EXCEPT !.doc = doc, !.pend = pend]
  /\ Stop
  /\ UNCHANGED <<server, log>>

\* The saved queue is folded into the saved document, and kept.
Restart ==
  /\ ~up
  /\ up' = TRUE
  /\ live' = [doc |-> Held(disk.doc \cup disk.pend), pend |-> disk.pend]
  /\ UNCHANGED <<server, log, disk, saving, phase, run, faults>>

RunStep ==
  /\ UNCHANGED scope
  /\ \/ StartRun \/ LoadRun \/ Pull \/ SaveContent
     \/ PushNothing \/ Accept \/ RejectStale \/ SaveCursor
     \/ AdoptSquash \/ SaveSquashCursor \/ Land

SaveStep == UNCHANGED scope /\ (SaveEncode \/ ReadSync \/ SaveQueue \/ SaveDoc)

Next ==
  /\ UNCHANGED scope
  /\ \/ \E e \in Remote : RemotePush(e)
     \/ RemoteSquash
     \/ \E e \in Local : ApplyLocal(e)
     \/ SaveSnapshot \/ SaveStep
     \/ RunStep
     \/ PullFails \/ PushFails \/ MediaFails \/ WriteFails
     \/ ProposeSquash \/ SkipAdoption
     \/ Crash \/ Quit \/ Restart

Spec == Init /\ [][Next]_vars

\* Runs are timed and end; a save that started is written; the user comes back.
FairSpec ==
  Spec /\ WF_vars(RunStep) /\ WF_vars(SaveStep) /\ WF_vars(Restart /\ UNCHANGED scope)

(***************************************************************************)
(* Properties.                                                             *)
(***************************************************************************)
Phases == {"idle", "starting", "pulling", "pulled", "pushing", "pushed", "saved",
           "squashed", "adopted", "landing", "stale"}

TypeOK ==
  /\ server \in [doc : SUBSET Struct, seq : Nat, epoch : 0 .. MaxEpoch]
  /\ log \in Seq(SUBSET Content) /\ Len(log) = server.seq
  /\ up \in BOOLEAN
  /\ live \in [doc : SUBSET Struct, pend : SUBSET Struct]
  /\ disk \in [doc : SUBSET Struct, pend : SUBSET Struct, cur : Cursor,
               unlanded : BOOLEAN, reoffered : BOOLEAN]
  /\ saving \in [step : {"none", "encode", "queue", "write", "doc"}, doc : SUBSET Struct,
                 pend : SUBSET Struct, sync : [cur : Cursor, unlanded : BOOLEAN, reoffered : BOOLEAN]]
  /\ phase \in Phases
  /\ run \in [doc : SUBSET Struct, pend : SUBSET Struct, cur : Cursor,
              pulled : BOOLEAN, sent : SUBSET Struct, edited : BOOLEAN,
              reoffered : BOOLEAN, retried : BOOLEAN]
  /\ scope \in Scopes /\ faults \in 0 .. scope.max
  /\ \A S \in {server.doc, live.doc, disk.doc, saving.doc, run.doc} : Held(S) = S

\* What the saved cursor says the device has of the document.
Claim == IF disk.cur.seq = 0 THEN {} ELSE log[disk.cur.seq]

\* A pull cursor is a claim about content: between runs, what the server showed
\* at the saved cursor is in the live document the next run starts from. The
\* server never resends what is below it. A lost or outdated file or a squash may
\* leave a cursor that claims more: the integrity proof is for those.
LiveCovered ==
  scope.faults \cap {"crash", "write", "racing", "overlap", "signout"} = {} /\ ~scope.squashes =>
    (up /\ phase = "idle" => Claim \subseteq Visible(live.doc))

\* No document ever holds two histories: a state of another epoch replaces the
\* local one and is never merged into it, which would double its text.
NeverMixed ==
  \A S \in {server.doc, live.doc, disk.doc, run.doc} : Cardinality(Lineages(S)) <= 1

\* What the server shows it keeps showing: no squash, push or re-offer, of a
\* device whose document is behind, takes content of another one away.
ServerKeeps == [][Visible(server.doc) \subseteq Visible(server.doc')]_vars

\* While the app runs, what the user sees stays, whatever a run pulls, adopts
\* or lands.
KeepsVisible ==
  [][up /\ up' => Visible(live.doc) \subseteq Visible(live.doc')]_vars

\* While the app runs, what the user sees reaches the server, across squashes by
\* this device and by others: an edit queued for a history that is gone is
\* expressed in the new one.
EditsArrive ==
  \A e \in Local :
    up /\ e \in Visible(live.doc) ~> e \in Visible(server.doc) \/ ~up

\* A re-offer the server does not get is not made again before the device and
\* the server have agreed once: the next two are about the other scopes.
OffersArrive == "push" \notin scope.faults

\* Content a launch restores reaches the server, even when the queue that would
\* have carried it was lost: a mismatch makes the device offer it again.
RestoredArrives ==
  \A e \in Local :
    OffersArrive /\ ~up /\ e \in Visible(disk.doc \cup disk.pend) ~> e \in Visible(server.doc)

\* When nothing more happens, device and server come to hold the same document,
\* whatever cursor or copy was left behind.
Converges == OffersArrive => <>[](up /\ phase = "idle" => live.doc = server.doc)
=============================================================================
