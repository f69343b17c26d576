# A verification project for KnotQ's sync core

KnotQ is a local-first notes and calendar application. Every device keeps the
whole workspace as plain files, keeps the same workspace a second time as a set
of Yjs (CRDT) documents, and synchronises the documents with a server. The user
edits at any time, with or without a connection, and everything a device owes
the server or has taken from it is spread over several files that are written at
different moments.

The part of the program that is hard to get right is that machinery: which copy
of a document is the newest, which queue carries which edit, what a pull cursor
claims, which signal starts the next run, and what is left when a run, a save, a
request or the process stops half way. This project models it in TLA+, checks it
with TLC on small instances, and proves the central invariants with TLAPS for
every value of the constants.

All paths below are relative to `src/`.

## 1. Inventory

### 1.1 The parts that keep the sync state

**Edit store and outbox** (`desktop/state/src/store.rs`).
State: the plain workspace, its CRDT documents, the documents whose changes are
*deferred* (made in the workspace, not yet written into the document) with the
sequence at which the deferral began, the pending operations with their captured
updates, the next sequence. Operations: apply a command (`apply_local`), flush
(`flush_crdt`), list the queue (`pending_crdt_edits`), drop what a push carried
(`clear_pushed_crdt_edits_exact`), drop what can never be sent
(`drop_unbound_pending_crdt_edits_at_landing`), adopt the result of a run
(`replace_from_sync`, `merge_sync_crdt_states`), repair the index. What makes it
hard: a run works on a *copy* of all of this in the background while the user
goes on editing, and the landing has to reconcile the two. Correct when no
visible edit is ever outside server, queue and deferral; when an operation a run
has read is never extended; when a landing takes nothing away.

**Sync engine** (`shared/sync/src/engine.rs`). Operations:
`batch_pull_and_apply…` (repair before the pull, paging, adoption of squashed
documents, merge, integrity proof, re-offer, repair after the pull),
`batch_push_pending` (requests under document, update and byte limits, exact
acknowledgement, rejection and reseed with full snapshots, stale epochs),
`build_squash_proposal`. Hard: partial acknowledgement, retries of what may have
been done, two histories of one document. Correct when the server never gets an
update without its base, when nothing pending is dropped that was not accepted,
when a document of another epoch replaces and never merges.

**Local sync state** (`shared/sync/src/local_state.rs`,
`desktop/storage-json/src/sync_state.rs`). State: one cursor (sequence and epoch)
per document, the durable queue, the list of pulls that have not landed, the
documents already re-offered, the account the cursors belong to. It is one file,
`sync-state.json`, that the run, the save task, the quit and the launch all read,
change and write. Correct when a cursor never claims content the device lacks.

**CRDT documents** (`shared/sync/src/crdt/`). The workspace index and one
document per scheme; encoding, validation, materialization of a workspace,
adoption of a squashed document, change capture. The text CRDT is the Yrs library
and is not modelled: integrating updates is union.

**Desktop sync run** (`desktop/app/src/app/sync_service/snapshot.rs`,
`landing.rs`). One run: load the files, overlay the store, pull, save what was
pulled, push, save queue and cursors, media, propose a squash if the run was
quiet, land on the UI thread. Every step can fail, and what has been saved by then
differs. Correct when every way out leaves files the next run or launch recovers
from.

**Save task and shutdown** (`desktop/app/src/app/services/tasks.rs`,
`shutdown.rs`). Debounced saves in the background, refused while a run is
`Running`; the flush at quit, which gives up the cursors of an unlanded run.

**Launch** (`desktop/app/src/app/constructor.rs`,
`desktop/storage-json/src/crdt_state.rs`). Loads the documents and folds the
saved queue into them.

**Sync scheduler** (`desktop/app/src/app/sync_service/tasks.rs`,
`services/bus.rs`). A task that waits for a signal or a timer, debounces, checks
the token, runs, retries once on a rejected token and once on a stale epoch, and
leaves flags (`sync_offline`, `sync_server_rejecting`, the pending hint) from
which the next decision is taken. While a socket is up in the foreground the
timer starts nothing. Correct when no push of a peer and no edit waits for ever.

**WebSocket client** (`shared/sync/src/ws/client.rs`,
`sync_service/ws_transport.rs`, `ws_lifecycle.rs`). A supervisor thread with a
session, threads that send requests and wait for replies with a timeout, a
fallback to HTTP, reconnection with backoff, shutdown. Correct when no caller is
stranded, no reply reaches the wrong caller, and no nudge is lost for good.

**Moved lines** (`desktop/state/src/moved_edits.rs`, `shared/sync/src/crdt/`). A
scheme is a document of its own, so a move is a removal in one document and an
insertion in another. State: for each line and document, presence tags, added and
removed, with the reason of a removal; the placements and fields a landing has to
put back. Correct when a line is never in no document, comes back only if somebody
wanted it back, and the devices stop correcting each other.

**Folder tree and trash** (`shared/model/src/workspace/`,
`shared/sync/src/crdt/workspace_index.rs`, `desktop/commands/src/apply/`). State:
the index document, one register per field of a node; the tree a device shows; the
folder edits not yet acknowledged. Operations: create, rename, move, archive,
restore, destroy; materialise, normalise (rescue of cycles, strays and the trash),
write the repair back. Correct when any merge of legal edits is repaired to one tree
on every device, nothing vanishes, and what was destroyed stays so.

**Sync server** (`shared/sync/src/testing.rs`). The production server is another
repository; the in-memory server the tests run against has the same refusals
(invalid schema, stale epoch, squash base) and is what the models follow.

### 1.2 How they interact

```
 user ──commands──> store ──flush──> documents + pending operations
                      │ snapshot at the start of a run (queue copied,
                      v  documents shared through handles)
 signals ──> scheduler ──> run: load files ─> pull ─> save ─> push ─> save ─> media
 (edits, socket,                     │          ^  |            |
  window, account)                   │          |  v            v
                      ^              │      WebSocket client / HTTP ──> server
                      │              v
                      └── landing on the UI thread: clear what was pushed,
                          replay what was not, replace the documents
 save task ──> files <── run, quit, launch
```

Shared state: the document handles (the run and a save encode a document the user
may still be writing to), `sync-state.json` (read-modify-write by two background
jobs without a lock), the run status (the save task and the quit read it), the
flags of the scheduler.

### 1.3 The other parts

| part | why it is not modelled, or how far |
| --- | --- |
| account sign-in and tokens (`sync_auth/`) | its events in `SyncScheduler`, its effect on a run's status in `PulledDocument`; whose token, socket or answer it is: section 2 |
| undo history | only the undo of a line's deletion (`MovedLine`) |
| daily queue | sequential; to the sync core an edit like any other |
| fractional index, adoption merge of item lists, queue compaction | pure algorithms: section 2 |
| plain workspace storage | atomic file replacement is assumed; formats are conversions |
| item model, content commands | data; an edit is any edit |
| editor, UI, theme, localisation, calendar index, recurrence rules | rendering, derived data, calendar arithmetic |
| notifications, Google import, MCP server, auto-update, tools | external effects, or front ends that issue commands |

`PROJECT.json` lists every part with its files, and under `hazards` each place
where the code can go wrong in a way a test would hardly reach, with the
properties that would catch it or the reason why none does yet.

## 2. Plan

The order follows what a user loses when it goes wrong.

| stage | modules | state |
| --- | --- | --- |
| 1 | `EditDelivery`, `Outbox`, `Outbox_proofs`, `OutboxDelivery_proofs`: what the user wrote reaches the server | done |
| 2 | `PulledDocument`, `PulledDocument_proofs`: what a cursor claims, squashes, crashes, launches, saves and quits that race a run | done |
| 3 | `WsClient`, `WsClient_proofs`: requests and nudges over a socket | done |
| 4 | `SyncScheduler`, `SyncScheduler_proofs`: when a run starts | done |
| 5 | `MovedLine`, `MovedLine_proofs`: one line in several documents, what a landing puts back | done |
| 6 | `FolderTree`, `FolderTree_proofs`: the index as a tree, its repair, the trash | done |
| 7 | `PullLoop`, `PullLoop_proofs`: a run over the index and its schemes, page by page | done |
| 8 | the registers' merge of `FolderTree` as a semilattice, and that no step goes back in it (`FolderTree_proofs`) | done |
| 9 | `AccountSession`: sign-out, sign-in as someone else, token refresh and status checks across an `await`, the socket of the old account, cursors owned by an account (`sync_auth/`, `ws_lifecycle.rs`, `LocalSyncState::reset_for_account_change`, `queue_account_switch_reseed`) | next |
| 10 | pure algorithms against reference definitions over bounded inputs: `fractional::between`, `merge_items_for_adoption`, `compact_pending_documents`, `fold_pending_edits_into_state` | then |
| 11 | the recovery marker of a paired save and the launch after each prefix of its writes; undo over foreign edits | last |

Composition. `Outbox` abstracts histories of a document (epochs) and the saved
documents; `PulledDocument` abstracts operations, coalescing and request limits.
Both contain the run, the save task and the server, seen from the two sides, and
`PulledDocument` is where the copies on disk are. `WsClient` is the transport
under the push and pull of both (its `Truthful` is what `Accept`, `Reject` and the
lost answers of `Outbox` take for granted), and its `Told` is what the `Nudged`
and `SocketUp` actions of `SyncScheduler` stand for. `SyncScheduler` gives the
fairness of runs in the data models its reason. `PullLoop` is `PulledDocument` the
other way round: several documents and the index that binds them, without epochs and
with cursors known only by how they compare with the server's. `MovedLine` and
`FolderTree` take delivery for granted and look at what the documents mean once they
are merged, on several devices. `AccountSession` is to compose with `SyncScheduler`.

Abstract specifications. `EditDelivery` is the promise of the outbox. Planned: a
replica abstraction (one document with a claim that only grows) that
`PulledDocument` implements in the absence of squashes, and an abstract account
(every byte belongs to one user) for `AccountSession`.

Theorems: every safety invariant and every action property of the passing runs is
proved (section 5); what the runs alone show is liveness.

## 3. The models

Every definition that stands for code is listed in `PROJECT.json` under `map`, with
the lines it stands for.

### 3.1 `Outbox` and `EditDelivery`

One device and one or more documents. An edit is an element of `Edit`; `DocOf`
says which document it writes, `Prior` which edits of that document it builds on,
`Unbinds` which schemes it deletes for good, `Starter` which content is shown on
every device before a document was populated with it. Documents, updates and
states are sets of edits: integrating is union and repeating it harmless, as with
Yjs updates.

| variable | code |
| --- | --- |
| `store.plain`, `.crdt` | `WorkspaceStore::workspace`, its `WorkspaceCrdtDocuments` |
| `store.deferred`, `.since` | `deferred_crdt`, `deferred_since` |
| `store.ops`, `.next` | `pending_operations`, `next_sequence` |
| `diskQueue` | `pending` of `sync-state.json` |
| `saving`, `savedQueue` | the background write of `write_save_snapshot` |
| `phase`, `queue`, `runDocs`, `watermark`, `pushed`, `reseeded`, `request` | the locals of `sync_snapshot_in` and `batch_push_pending` |
| `server` | the server's documents |
| `minted` | operation ids made by runs for snapshots (history) |

Actions: `ApplyLocal`, `RepairIndex` (edits), `SaveSnapshot`, `SaveWrite` (save
task), `StartRun`, `LoadRun`, `Pull`, `BuildRequest`, `Accept`, `Reject`,
`RejectAgain`, `LoseRequest`, `LoseResponse`, `PushDone`, `FailAfterPush`, `Land`
(the run), `RemotePush` (another device). `Land` is one step because it runs on the
UI thread; everything else of a run interleaves with edits. The three outcomes of
a landing (nothing to adopt, merge, replace) are separate disjuncts of `Land`; the
model leaves open which of the latter two is taken when both are possible.

Properties. `NoLostEdit`: a visible edit of the user's is on the server, in an
operation, or in a deferral that a flush will write. `ProjectionLaw`: what is
shown is what the documents hold but for such deferrals and unpopulated starter
content. `ServerCausal`: the server never gets an edit without those it builds on.
`CapturedIsComplete`: an operation a run has read is never extended.
`KeepsVisible`: no step takes a visible edit away. `QueueDrains`: the device comes
to rest with an empty queue. `DeliversSafely`, `Delivers`: the refinement of
`EditDelivery`, in which an edit is owed from the moment it is made until the
server has it or its scheme is gone; `Promise`, that in the end nothing else is owed. `Forgets` says the former, and is part of `Settle` and of
`Make`: the edit that is made may be the deletion that frees others.

### 3.2 `PulledDocument`

One device and one scheme document. A document is a set of structs
`<<epoch, content>>`: a piece of content as one history of the document expresses
it. `base` is the population of a history; structs of a history without its base
are pending in Yrs and show nothing (`Held`, `Visible`). A squash rebuilds the
visible content in a new history (`Rebuilt`).

| variable | code |
| --- | --- |
| `server`, `log` | the server's document, sequence, epoch; what it showed at each sequence (history) |
| `live.doc`, `.pend` | the store's document and queue |
| `disk.doc` | the document's file; the workspace files follow it |
| `disk.pend`, `.cur`, `.unlanded`, `.reoffered` | `pending`, `document_cursors`, `unlanded_pulls`, `integrity_reoffered` of `sync-state.json` |
| `saving` | a save: what it captured, what it read of `sync-state.json`, how far its writes are |
| `phase`, `run` | the run and its copies |
| `up` | whether the process runs |

Actions follow the run from one write to the next (`SaveContent` before the push,
`SaveCursor` after it, the own squash with `AdoptSquash` and `SaveSquashCursor`),
and every exit between them: `PullFails` (no trace), `RejectStale` and `PushFails`
(cursors of what was pulled are reset), `MediaFails`
(`forget_pull_of_failed_run`), `WriteFails` (returned as it is), `Quit`
(`abandon_unlanded_sync_run`, then the flush), `Crash`. `Restart` loads the files
and folds the saved queue into the document. The save writes from handles
(`SaveEncode`), the queue first, then the document (`SaveDoc`); the queue goes into
`sync-state.json` by reading the file (`ReadSync`) and writing it back
(`SaveQueue`), and a run may have written it in between.
The claims of the code hold under different conditions. A behaviour is therefore
in one of `Scopes`, which says what it may contain: the edits, the kinds of fault
and how many of them, whether there are squashes. `overlap` lets a run start while a
save is being written, `racing` a quit, `typing` lets the user write during a run,
`signout` has the account of a run signed out under it, so that its status is no
longer Running for the save task and the quit.

Properties. `LiveCovered`: a cursor is a claim about content, and between runs the
live document has what the saved cursor claims, since the server never resends
what is below it. `NeverMixed`: no document holds two histories. `ServerKeeps`:
what the server shows it keeps showing. `KeepsVisible`, `EditsArrive` as above,
across squashes. `RestoredArrives`, `Converges`: whatever was left behind, the
integrity proof brings device and server together without giving up what the
device restored.

### 3.3 `WsClient`

| variable | code |
| --- | --- |
| `stop`, `connected`, `outgoing`, `pending`, `next` | the shared fields of `WsClient` |
| `sup` | where `run_supervisor` / `run_session` is |
| `pc`, `id`, `reply`, `outcome` | one thread per operation in `FallbackTransport` and `WsClient::request` |
| `queue`, `link`, `wire`, `replies`, `nudge` | the sender's channel and the socket in both directions |
| `news` | a peer's push the sync task has not been told of |
| `processed`, `refused` | what the server did (history) |

A request checks `is_connected`, registers, sends, waits with a timeout, gives up,
and falls back to HTTP; each of these is a step of its own because the supervisor
takes the same locks in between. Queues are sets: the server may answer in any
order. `NoneStranded`, `Truthful`, `NewsKept`, and `Told`, `WindsDown` under
fairness. The fallback may carry out an operation whose socket answer is merely
late: `Truthful` says that what is returned is true of the operation even so.
A request that registered in one session and is sent in the next returns
`Disconnected` although its frame goes out; like one that is given up while its
frame is queued it may be carried out twice. Pushes are idempotent, so that is
harmless, and the model has it.

### 3.4 `SyncScheduler`

`task` is where `spawn_sync_task` is (waiting, debouncing, refreshing the token,
in an attempt, pulling, pushing, reauthenticating), `tried` the retries used,
`signals` the channel, `offline`, `rejecting`, `hint` the flags a run leaves,
`queued`, `saved` unpushed edits in the store and on disk, `behind`, `pulled` a
peer's push and whether the run in flight has it, `asked` the requests about the
account that are in flight. The environment sends edits, peer pushes, nudges, window
activation, sign-in, sign-out, connections and drops. Durations are left out: a
timer may fire at any time.

A run's token refresh may be refused (`SessionGone`): the account is dropped, the run
ends, the socket and the flags stay as they are. Requests about the account are
started by `Ask` and answered any time later; what is in between may have dropped the
account or signed in again. `ChangeAnswered` is `finish_cancel_subscription` and
`finish_reenable_subscription`, which install their account over whatever there is
and ask for no run. `StatusAnswered` is a status check or the poll after a checkout,
which install it as well but ask for a run when there is sync. Only the quiet check
looks whether anyone is still signed in; since nothing but its answer has an effect,
`QuietCheck` is one step, the check that follows a change included. A sign-in replaces
the change's task (`flow.rs:113`), not the poll's. There is one account: signing in as someone else,
and answers meant for that other account, are stage 9; so is a server that stops
sending `changed` to a session that was signed out of.

At launch the saved queue is restored to the store (`constructor.rs:293`); later
the files can hold more than the store, since a push that fails has saved what its run
queued (re-offers, a reseed) and never lands it. `StorePending` shows that the files
must be counted for that.

`CaughtUp` is what the doc of `foreground_ws_idle` says of a device whose timer
starts no runs; it does not hold (section 6). `resurrected` is a ghost: since the last
snapshot an answer has put back an account that was gone, and asked for no run.
`CaughtUpInTime` is `CaughtUp` in its absence, `CaughtUpOnline` is the same unless the
last run failed at the transport besides. `Landed` and `Delivered` are the liveness
properties; `Landed` excepts the devices the two cases leave waiting (`Outage`), and
`Delivered` needs no exception, since pending edits keep the timer running.

### 3.5 `MovedLine`

One line, several devices, several schemes. A document's entry for the line is an
observed-remove set of tags with the reason of each removal: the line lives
elsewhere now, or the user deleted it.

| variable | code |
| --- | --- |
| `server`, `docs` | the line's presence map in every scheme document |
| `view` | the schemes the workspace shows it in |
| `ops` | `pending_operations`, as far as they place or delete the line |
| `undo` | the undo stack's step that would bring it back |
| `run` | the sync run in flight: its merged documents and what it sent |
| `told` | ghost: the wishes to have the line, the deletions, which of both each replica has heard of, and the tags written for each wish |

`Shown` is the projection: a line in several documents is shown in the one with the
lowest id, a line whose copies were all removed only as placements is shown again.
`MoveLine`, `DeleteLine`, `UndoDelete`, `EditScheme` are the commands with the
tidying that every write of a scheme does; `Pull` and `Land` a run; a landing adopts
(by merge if the user went on editing), re-asserts the placements of queued moves
(`Placed`: the last move that is `Standing`, that is with no later move or deletion;
`Reassert`) and reconciles (`Reconcile`). `LoseAnswer` is a push that the
server took and the device never hears of.

Properties. `NeverLost`: a device that knows of no deletion shows the line
somewhere. `StaysDeleted`: while no answer is lost, a device shows the line only if it
knows of a wish to have it that no deletion it knows of was aware of. A move, an undo
of a deletion and an edit that makes a removed copy live are wishes. A deletion is aware
of the wishes its device has heard of, unless it leaves another copy on show: then it is
a wish for that copy. A landing that makes a move again renews the wish, if it still
stands; a landing that makes one again against a deletion is what the property is about.
`Settles`: in the end nobody owes anything, and all devices hold and show the same.

Left out: a flush is immediate; schemes hold other lines, so no document becomes
empty; documents of builds without a presence map; fields of the line and their
re-assertion; redo, and undo of moves; squashes.

### 3.6 `FolderTree`

The index is a map of last-writer registers: for each node its entry, its parent
(`kid` among the children of a folder, `up` as its own field), its name, its place in
the trash and the origin to restore it to. A register knows the writes it was written
over, so `Later` decides between concurrent writes as Yjs does, by client.

| variable | code |
| --- | --- |
| `server`, `docs` | the index document |
| `ws` | the workspace: folders, schemes, parents, names, trash, origins |
| `run` | a run: the document and the workspace it will hand over |
| `edits` | `recent_folder_edits`, the folder fields to re-assert |
| `made`, `wrecked`, `named` | what users made, destroyed and renamed (ghost) |

What is below what (the subtree of a folder, what the walk from the root visits, what
the trash takes along) is the least set closed under the child lists, `Below`, where the
code walks; the loops over the folders (`Rescue`, `Reasserted`) are functions on their
rounds. `Rescue` has as many rounds as there are folders, and a round that finds nothing
stranded does nothing: the code leaves its loop there.

`Materialize` reads a tree from the registers, `Normalize` repairs it (`Walk`,
`Rescue`, `Settle`), `Write` writes the difference between a workspace and the
document. The actions are the commands with their guards, `StartRun` (repair, pull,
materialise, normalise, write back) and `FinishRun` (push, adopt or merge, re-assert
folder edits), `LoseAnswer`.

Properties. `Projected`: what a device shows is what its document stands for.
`RunsRepair`: whatever two devices did, a run's result is a sound tree.
`NothingVanishes`: a node a device shows stays unless a user destroyed it.
`TombstonesLast`: no edit, repair or merge writes over the mark of a permanent deletion
or takes it away, so that only the write of a device that had not heard of it can win
over it (and then it does: `foldertree_tombstone`). `Settles`:
devices end with the same sound tree, every node made and not destroyed in it, and
names where users gave names.

Left out: undo and redo; the order of siblings; a scheme's name, colour and other
fields; daily pages and the legacy root; the limits and restarts of the journal of
folder edits; merge failures that fall back to replacing; account switches. Every
device's store and runs write as fixed clients, in one order.

### 3.7 `PullLoop`

One device, the index and the schemes it lists. A document is a set of structs; the
server accepts none without its population. A cursor is what it says against the
server's number: none, zero, behind, at, ahead.

| variable | code |
| --- | --- |
| `server` | the server's documents |
| `docs`, `queue` | the store's documents and queue |
| `sync` | `sync-state.json`: cursors, queued leftovers, re-offers, the recovery marker |
| `run` | the locals of the pull loop and the push |

`PullPage` takes any part of what the server would send; `PullMismatch`,
`PullReconcile`, `PullNothing` are the three ways a round without changes ends: a
proof that fails for some documents, heads that refute cursors, the end of the pull.
`PullEnds` re-offers what the proof found missing, gives the server every document it
lacks (`Bootstrapped`) and goes on to the push (`Accept`, `Reject`, per document).
`PullFails`, `PushFails`, `Crash`, `Damage` (an unreadable `sync-state.json`) and
`Purge` (a server whose numbers start again) are the faults of the scopes.

Properties. `Arrives`: device and server come to hold the same index and the same
content of every listed scheme, in whatever order pages brought them. `Rests`: every
run ends, and a device with nothing to say stops pushing.

Left out: the cap of 32 rounds (`Rests` shows it is never needed), the repair before
a pull and the re-expression after it, squashes (`PulledDocument`), account switches,
documents outside the loaded window, delta hints, media. A server reset and paging
are the production server's, modelled from what the engine does about them.

## 4. The runs

Passing runs explore all their states; the counts are distinct states.

| run | instance | checks | states |
| --- | --- | --- | --- |
| `outbox_all` | starter content, which another device may push, two lines, one building on the other, the deletion of the scheme; two faults; requests of one update; fair | types, `NoLostEdit`, `ProjectionLaw`, `ServerCausal`, `CapturedIsComplete`, `KeepsVisible`, `DeliversSafely`, `Delivers`, `QueueDrains` | 651,322 |
| `pulled_arriving` | seven scopes: runs that fail and quits in mid-run; two own edits; saves that overlap runs; crashes, failed writes, quits during a save; a sign-out during a run; three faults; two own edits and two squashes. Fair | types, `NeverMixed`, `LiveCovered`, `ServerKeeps`, `KeepsVisible`, `EditsArrive`, `RestoredArrives`, `Converges` | 410,793 |
| `ws_all` | two operations, any number of sessions; fair | types, `NoneStranded`, `Truthful`, `NewsKept`, `Told`, `WindsDown` | 708,359 |
| `scheduler_all` | everything, one request about the account in flight; fair | types, `CaughtUpOnline`, `Landed`, `Delivered` | 278,010 |
| `movedline_safety` | two devices, three schemes, three things done or lost, two commands queued per device; fair | types, `NeverLost`, `StaysDeleted`, `Settles` | 114,725 |
| `foldertree_safety` | two devices, two folders, one scheme; a scheme in a folder with three things done, or two folders and two things; fair | types, `Projected`, `RunsRepair`, `TombstonesLast`, `NothingVanishes`, `Settles` | 60,187 |
| `pullloop_all` | the index and two schemes; four scopes: a scheme both make, with failing runs; a crash or a damaged journal; a server that is reset; a scheme both destroy. Fair | types, `Arrives`, `Rests` | 383,472 |
| `pulled_push`, `scheduler_late`, `movedline_answer`, `foldertree_tombstone`, `pullloop_recovery` | the smallest instance that shows it | one property each, violated (section 6) | |

Each property has a mutant in `PROJECT.json`: a change to a definition, of the kind
a slip in that code would be, under which the run finds the property violated.

**Bounds, and why they are enough.**
*Outbox.* One update per request and one document per request make every push a
sequence of partial acknowledgements; a second line that builds on the first makes
order matter; the deletion exercises the documents nothing can be sent for; two
faults let a document be refused twice in one run, or a fault meet what another left;
refusals that the data itself provokes are not counted. Larger request limits
only merge steps. With a line of another device besides, all of it was checked once with one
fault and passes (594,937 states); safety is proved for any sets and bounds (section 5).
*PulledDocument.* One document, since cursor, epoch and queue of a document are
independent of others' within a run (several are in `PullLoop`); two own edits, so
that one may be queued and one sent; one peer edit, so that the server gets ahead;
two squashes, so that a device can miss one and meet the next; two or three faults,
so that a fault meets what an earlier one left behind.
*WsClient.* Two operations are the smallest number in which a reply can meet the
wrong caller. `next` needs no bound: an operation registers once.
*SyncScheduler.* No data is bounded but one unpushed edit and one unlanded push at
a time: another one only adds a signal. Of the account at most one change of the
subscription and one status can be asked at a time, as `sync_auth_task` and the poll
allow; the run has one of the two in flight (`MaxAsked`), since neither answer
looks at the other. With both in flight all four properties were checked once and
pass (370,680 states), and safety is proved for any number.
*MovedLine.* Two devices that move the line at once leave it in two documents; the
third scheme lets one of them move it on. Three acts are two concurrent ones and one
that follows either. Three devices with two acts pass too. Safety for any devices, schemes
and bounds is proved.
*FolderTree.* Two folders make a cycle, and a scheme in one of them is what a cycle
or a trashed folder would take along. Larger instances were checked once and pass:
two folders and a scheme with `<<2, 1>>` acts (164,785 states) and with `<<1, 2>>`
(164,066), both folders renamable (171,068), a second scheme (325,595). Safety for any devices,
folders, schemes and starts is proved.
*PullLoop.* The index and one scheme that is there from the start and one that is
made: content can come before or after the entry that binds it.

**Conditions of the passing runs, and what lies outside.**
*PulledDocument.* The squash scope of `pulled_arriving` allows failed pulls only: with
failed pushes `NeverMixed` fails (that is `pulled_push`), and so it does when the
user types while a run adopts a squash (the landing then merges: `landing.rs:107`),
when a quit comes between the device's own squash and its landing (`unlanded_pulls`
was recorded before the squash), and when two crashes leave a full snapshot of the
old history queued beside the adopted document (`constructor.rs:54` folds one into
the other without looking at epochs). `scheme_content.rs` masks the exact, unedited
doubling of a document by its creation run, not edited ones, so these are real and
listed as hazards; the quit and the crashes are scopes of `pulled_push`. Crashes are
not combined with squashes for another reason too: an adoption after a crash that
lost the queue drops a durable, unqueued line, which the code also names
(`crdt/mod.rs:1527`).
`LiveCovered` speaks of the scopes without crash, failed write, overlapping or racing
save and sign-out. In the others a cursor may claim more than the live document has:
the echo of the device's own push advances the saved cursor past the file written
before the push (`snapshot.rs:429`, `:471`), and a save that read `sync-state.json`
before a failing run forgot its pulls writes the advanced cursor back. The integrity
proof is for those, and `RestoredArrives` and `Converges` show that it repairs all of
them. These two speak of the scopes without failed pushes (`OffersArrive`): a re-offer
that is lost is not repeated in its mismatch episode; the code says so and accepts it.
*PullLoop.* For the same reason a scope has one fault and a crash or a reset comes
without failed pushes: two losses in one mismatch episode strand the second for ever.
*MovedLine.* `StaysDeleted` is conditioned on no answer lost; without that it is
`movedline_answer`. An earlier form of it counted every user's act as a wish or a
deletion of all copies; the proof would not close, and with four acts TLC refuted it (a
deletion on a device that shows another copy, and an edit that makes a restored copy
live). The wishes of section 3.5 are what holds for any number of acts.

**Fairness, and why the code justifies it.**
`Outbox!FairSpec`: weak fairness of the run's own steps (the scheduler starts runs
by timer while anything is pending, and every call has a timeout) and of a save
that has started. A server that keeps failing is not fair; faults are bounded.
`PulledDocument!FairSpec`: the same, a save's writes, and `Restart` (the user comes
back).
`WsClient!FairSpec`: weak fairness of the supervisor thread; of ending a session
whose stop flag is set or whose link is broken, which its loop looks at every time
round however busy it is; strong fairness of `Connect`, since the supervisor
retries for ever. Nothing is assumed of the server, nor of callers.
`MovedLine`, `FolderTree`: every device keeps starting runs and its runs end, as
`SyncScheduler` shows of an open device; lost answers are bounded.
`PullLoop!FairSpec`: a run's step is taken again and again (`Ran` is true of every
step of a run, and a run can always be started); with bounded faults that is
`WeakSpec`, weak fairness of `RunStep`, which `pullloop_recovery` uses. Which pages come
and which documents a push answers for is left to the server.
`SyncScheduler!FairSpec`: weak fairness of the task, of the end of the debounce
(it has a deadline, however many signals arrive), of the socket's callback; strong
fairness of a pull's and a push's success: a server that is asked again and again
answers in the end.

## 5. The proofs

Checked by TLAPS from nothing, for every value of the constants that satisfies the
named assumptions.

| module | theorem | statement |
| --- | --- | --- |
| `Outbox_proofs` | `TypeCorrect`, `NoEditLost`, `ProjectionHolds`, `CapturedComplete` | `Spec => []` of `TypeOK`, `NoLostEdit`, `ProjectionLaw`, `CapturedIsComplete` |
| `Outbox_proofs` | `VisibleKept` | `Spec => KeepsVisible`, an action property |
| `OutboxDelivery_proofs` | `ImplementsDelivery` | `Spec => DeliversSafely`: `Outbox` refines the safety part of `EditDelivery` |
| `OutboxDelivery_proofs` | `SeenInvariance` | `Spec => []DInv`, its inductive invariant |
| `OutboxDelivery_proofs` | `ServerIsCausal` | `Spec => []ServerCausal` |
| `OutboxDelivery_proofs` | `CausalInvariance` | `Spec => []CInv`, its inductive invariant |
| `PulledDocument_proofs` | `TypeCorrect`, `CursorClaims` | `Spec => []` of `TypeOK`, `LiveCovered` |
| `PulledDocument_proofs` | `ServerKeepsContent` | `Spec => ServerKeeps`, an action property |
| `PulledDocument_proofs` | `OneHistory`, `UserKeepsVisible` | where only pulls fail in scopes with squashes, `Spec => []NeverMixed` and `Spec => KeepsVisible` |
| `MovedLine_proofs` | `LinesTyped`, `LineNeverLost`, `DeletedStaysDeleted` | `Spec => []` of `TypeOK`, `NeverLost`, `StaysDeleted` |
| `MovedLine_proofs` | `ReplicasAgree` | `Spec => []MInv`, their inductive invariant |
| `PullLoop_proofs` | `TypeCorrect`, `EditsStayQueued` | `Spec => []` of `TypeOK`, `NothingForgotten` (defined there) |
| `PullLoop_proofs` | `RunsCarry` | `Spec => []PInv`, their inductive invariant |
| `FolderTree_proofs` | `TypeCorrect`, `RunsProject`, `RunsRepaired`, `TombstonesStay` | `Spec => []` of `TypeOK`, `Projected`, `RunsRepair`, `TombstonesLast` |
| `FolderTree_proofs` | `NodesStay` | `Spec => NothingVanishes`, an action property |
| `FolderTree_proofs` | `MergesAgree` | the documents of every reachable state merge alike in whatever order and however often: `Join` is commutative, associative and idempotent on them |
| `FolderTree_proofs` | `HistoryGrows` | no step replaces a document, on the server or a device, by one it would add to: an action property |
| `FolderTree_proofs` | `ReadBack` | a workspace a device can show, written to any document, is read from it as it was |
| `FolderTree_proofs` | `RescueSteady` | the rescue loop leaves no cycle out of reach and keeps every node, whatever it starts from |
| `WsClient_proofs` | `TypeCorrect`, `NobodyStranded`, `RepliesTrue`, `NewsNeverMissed` | `Spec => []` of `TypeOK`, `NoneStranded`, `Truthful`, `NewsKept` |
| `SyncScheduler_proofs` | `TypeCorrect`, `StaysCaughtUp` | `Spec => []` of `TypeOK`, `CaughtUpOnline` |
| `SyncScheduler_proofs` | `CaughtUpOffline` | where no run fails offline beside a live socket, `Spec => []CaughtUpInTime` |
| `SyncScheduler_proofs` | `CaughtUpUnchanged` | where the subscription is not changed in the app either, `Spec => []CaughtUp` |

**Assumptions.** `Outbox`: `EditAssumption` (finitely many documents; each edit has
one, and its predecessors and deletions; starter content is not a remote edit),
`IndexAssumption` (deleting a scheme writes the index, which is never deleted; no
starter content deletes anything), `BoundAssumption` (limits are positive),
`PriorAssumption` (an edit builds on edits of its document, and starter content on
starter content only).
`PulledDocument`: `ContentAssumption` (own edits, others' edits and the population of a
document are different things), `ScopeAssumption` (what a scope is made of).
`OneHistory` and `UserKeepsVisible` have a hypothesis besides, `OnlyPullsFail`: a scope
with squashes has no fault but failed pulls. The code does not keep the claim without it:
`pulled_push` shows what a failed push does, section 4 what other faults do.
`MovedLine`: `DevicesAssumption` (no device is called as the seed tag is),
`SchemesAssumption` (schemes are numbered, as the lowest identifier wins),
`BoundsAssumption`. `PullLoop`: `ScopeAssumption` (the index is no scheme, what a scope
is made of). `FolderTree`: `IdsAssumption` (devices, folders and schemes are numbers, which
is how the code orders them; the folders are finitely many, the schemes need not be; a
start is a tree of them), `ClientsAssumption` (each device's store and runs have a
client). `SyncScheduler`: `OutlivesAssumption` (the constant
is Boolean), `RequestsAssumption` (there are two kinds of request), `MaxAskedAssumption` (a number).
`WsClient`: none; `Op` is any set.

**Outbox.** No property is inductive: that a landing loses nothing depends on what
the run copied, which depends on what was flushed when it started. `IInv` adds to
the types: `StoreInv` (sequences identify operations, documents hold nothing the
workspace lacks); `NoLostIn`; `CapturedIn` and `AckedIn` (an operation some queue
or acknowledgement knows is *frozen*: no flush can extend it, because the deferral
began after it, so what was captured or acknowledged of it is all there is);
`RunFits` (while a run is on, the workspace is what the run works on plus later
operations plus deferrals, and the run's documents are delivered or queued). The
proof has lemmas for the operators of the store (what a flush, an edit, a clearing
and an adoption preserve), one lemma per action, and `Inductive`.

**Outbox refines EditDelivery.** What is owed is what is shown and not on the server,
so a step that brought a queued edit back after the user had deleted it would make it
owed without being made. `Seen` excludes that: what a queue, a run or the server holds
of this device's edits was shown once. With `IInv` it is inductive because a shown edit
stays shown until its scheme goes. Each action of `Outbox` then maps to `Make`,
`Deliver`, `Settle` or a stutter.

**ServerCausal.** A request may end anywhere, so that the server is causal depends on
the order of everything before it. `CInv` follows an edit from the store to the server:
what an operation's edits build on is on the server, in it or in an earlier operation
(`OpsCausal`); the entries of the saved, the captured and the run's queue have the
same property per document (`Supplied`); the run's documents are closed under what
their content builds on, and what the run read of the queue is still queued or
delivered (`RunCausal`); a request takes entries from the first (`RequestWhole`). A
reseed keeps it because it sends a whole document.

**PulledDocument.** Each claim has the part of the invariant it needs and each part
holds in some scopes. `TInv`, in all: documents hold their population (`Doc`), a
cursor is of a state the server had (`Behind`), and a run that found nothing to do has
what the server showed (`QuietRun`, why a squash hides nothing: `ServerKeeps`).
`PlainOK` and `PlainLive`, without squashes: there is one history, and a run's document
and the live one differ only by what is queued or pulled. `OneSave` and `Covered`, where
in addition no file is lost: the live document shows what the saved cursor claims, the
run's document what the run's cursor claims, and only between the save of the run's
cursor and the landing is the first not so, which every exit from there undoes by
forgetting the pull (`LiveCovered`). `QInv`, with squashes: every document is of one
epoch, a queue holds no population of another epoch than the cursor's, and a cursor of the server's
epoch means a document of that epoch, so that what is merged is of one history
(`NeverMixed`, `KeepsVisible`). `COInv` and `EInv` put them together. `PlainOK` gives
`NeverMixed` in the scopes without squashes.

**MovedLine.** Presence maps only grow, so a device that has heard of a wish has the
tags written for it: `Reflects` says so of every replica, and that a replica which has
heard of a deletion has removed all tags of the wishes it was aware of. A live copy
therefore carries a wish no known deletion was aware of, which is `StaysDeleted`; what
is left is that a landing does not write a tag of its own against a deletion, which is
`Pending`: the wish of a queued move is nobody else's knowledge, so no deletion was
aware of it. A lost answer can make `Pending` false, so `Reflects` and `Pending` are
claimed while none is lost; the rest (`Holds`: what is removed for good was deleted by
someone the replica has heard of) gives `NeverLost` whatever is lost. `RunFits` says that a run without news has nothing the device lacks.

**PullLoop.** `Carried` says of a run in flight that what its documents hold and the
server lacks is queued, by the store or by the run, that what it was acknowledged is on
the server, and that a request carries all the store's edits of its document; `Whole`
that nothing queued is replaced until the pull is over; `BoundFirst` that a scheme's
content comes after its entry. Together with what is known of the live documents this is
kept by every page, refused push and landing, as long as nothing but pulls and pushes fails
(`Gentle`): a crash loses what was not saved.

**FolderTree.** The invariant has two halves. `SoundDoc` is of a document: every register
that was written holds a value its key is for; a node has registers only if some user
made it, its entry is removed and its origin a tombstone only if some user destroyed it
(`Lived`); a tombstone is the last of the writes it stands on (`Marked`). Merging keeps
this because a merged register is one of the two, or both removals of the same write
(`JoinSound`). `Canonical` is of a workspace: what a document can stand for, shallow
enough to hold before any repair (a folder in the trash hangs from nothing, every other
node from a folder there is), deep enough for `ReadBack`. `MaterializeCanonical` says
that any document gives such a workspace, however the tree in it was merged;
`Steady`, that a command, a repair or a re-asserted edit leaves such a workspace, the
same nodes and the same tombstones, and each has its lemma. What creating and
destroying do instead is `Follows`, and whatever follows on what a document stands for
can be written to it and read again (`FollowsWritten`). The third part of the invariant,
`RunOK`, is what the interleaving needs: a run lacks nothing the device shows unless the
device was edited meanwhile, in which case its result is merged and not adopted.
The two loops need induction: that they are functions at all, that each round is `Steady`,
and that each round of the rescue leaves fewer folders stranded. The library's induction theorems cannot be instantiated here, so `SetInduction` (a set with 0
in it and with each number the next has all of them) is proved from the pigeonhole
principle of `FiniteSetTheorems`, which needs no operator; `Below` needs none, as a
least set.

What a merge is at all is a matter of the registers. A second invariant, `Merges`, has
of every document that a register's value is its last write's and that the writes to a
key are of one length (`Tracked`). On such registers `After` is a strict total order,
two of one place have one value, and `Winner` is a semilattice; so is `Join`, which is
`MergesAgree`: it holds because a write in the model carries its value, and would not if
the order were by clients alone, as two runs of one device may write over the same winner.
`Under` is the semilattice's order. An edit, a repair and a merge only go up in it; that the
adoption of a result does is the other half of `Merges`: a run that was not overtaken has
all the device's document has. That is `HistoryGrows`, and with `MergesAgree` the safety
half of the agreement of the documents in `Settles`; that the rest arrives is liveness.

**WsClient.** `Phases` ties sender, connection and queues to the place of the
supervisor; `Ids` makes request ids unique; `Frames` says that what is registered or
on its way names its operation; `Awaited` that an unanswered request stays
registered; `Genuine` that a reply tells the truth of its operation. `NoneStranded`
then survives the ending of a session because everything registered is failed in
the same step in which the supervisor leaves it.

**SyncScheduler.** `Idle` generalises `CaughtUp` over the flags a run leaves,
`Missed` says that a push which arrived after a run's pull has a signal that the
run does not drain, `NoSocket` that a launch whose saves are blocked has no socket.
`Idle` speaks of whoever is signed in, with sync or without, since a change of the subscription
may turn sync on unheard; it excepts only what `resurrected` remembers. `IdleInSync`
speaks of accounts with sync and excepts nothing: it is inductive where no change is
asked for, which is `CaughtUpUnchanged`, so `scheduler_late` shows the one way left.

**Only model-checked.** Liveness (`Delivers`, `QueueDrains`, `EditsArrive`,
`RestoredArrives`, `Converges`, `Told`, `WindsDown`, `Landed`, `Delivered`, `Arrives`,
`Rests`, `Settles` of both): it rests on fairness, which the installed provers do not
reach. `NeverMixed` and `KeepsVisible` of `PulledDocument` are proved under
`OnlyPullsFail`, every other safety property of the passing runs as it stands.

## 6. Where code and comments disagree

Five runs are expected to find a violation; `PROJECT.json` quotes the lines.

* `pulled_push` (11 states): a run adopts a squashed document and its push fails.
  `reset_pull_cursor` zeroes the sequence but keeps the new epoch, while the store
  never landed and has the old history. The next run finds the epochs equal and
  merges what `engine.rs:537` says must be replaced.
* `scheduler_late` (11 states): the user resumes (or cancels) the subscription; before the
  answer is in, a run that a peer's push or a reconnection asked for has its token refresh
  refused, which a session rotated by that very request (`account.rs:665`) can cause.
  `tasks.rs:674-685` drops the account and leaves the socket up. The answer installs the account again
  (`account.rs:248`, `:173`) and asks for no run, and the status check that follows sees
  sync on already. The device is idle in the foreground, behind, with nothing to wake
  it, where `tasks.rs:172` says it is caught up. The quiet check alone has the guard
  (`account.rs:429`: "don't resurrect the account").
* `movedline_answer`: a placement lives as long as its queued move. If the answer to
  the push is lost, another device may pull the move and delete the line, and the
  mover's next landing inserts it again, which `moved_edits.rs:698` says a landing
  must not do.
* `foldertree_tombstone`: the tombstone of a permanent deletion is the value of the
  node's origin key. An archive of the same node on another device writes that key
  too, and if it wins, the node is in everyone's trash again, from where a restore returns
  it to the tree; `workspace_index.rs:890` calls the tombstone durable.
* `pullloop_recovery`: after a damaged `sync-state.json` every run queues every
  document whole again: `storage_recovery_pending` has no one to clear it, though
  `local_state.rs:254` says it is cleared once the recovery was pushed.

Observations without a run, made while modelling:

* A write error between the save of the cursors and the landing is returned without
  `forget_pull_of_failed_run`, whose comment says why that loses content; an integrity
  proof later makes up for it (`pulled_arriving` includes these failures).
* The save task waits for runs, so as not to write older content over newer, but a run
  does not wait for a save whose write has begun; and `sync-state.json` is read, changed
  and written without a lock by both (`sync_state.rs:165`), so a save can restore a
  cursor a failed run had forgotten. The proof makes up for both.
* `foreground_ws_idle` does not look at `sync_offline`. After a run whose fallback
  failed at the transport beside a socket that stayed up, the device is behind, the
  timer starts no run, and nothing else will until the next edit, nudge or
  reconnection (`CaughtUpOnline` and `CaughtUpOffline` say what holds).
* A signed-out account's socket is kept: it is rebuilt only when the server's address
  changes (`ws_lifecycle.rs:29`). Answers of token refreshes, status checks, the checkout
  poll, cancel and resume are not compared with the account they were asked for; all but
  the refresh and the quiet check install theirs even over none.
* `engine.rs:363` says a mismatched document's full state must replace the local one,
  545–556 merges it, with the reason. 476–481 says mismatched documents that are not
  loaded are hydrated; the filter before it leaves them out.
* `engine.rs:786` says that an unknown document must be fetched again once its index
  entry is present. The retry needs the document to be unknown and listed after the
  same page, which cannot be, so its budget (`MAX_CURSOR_RESETS_PER_DOCUMENT`) is never
  used; the proof of the next run is what recovers the document (`Arrives`).
* `integrity_reoffered` is cleared also by a pull that asked for no proof
  (`engine.rs:1146`); a second loss in one mismatch episode is never offered again.
* A first page without the index fails the whole pull of a device whose index is not
  populated yet (`crdt/mod.rs:2163`).
* After a landing that merged, an undo of a deletion can show one line in two schemes
  until the next landing. The `InsertItem` commands that `reassert_item_edits` builds
  are never applied.
* `is_descendant` (`commands/src/invariants.rs:35`) keeps no set of what it has seen:
  on a folder cycle that has not been normalised yet it does not end. The restore button
  checks that the origin folder exists, not that it is outside the trash
  (`trash.rs:282`), and the command is then rejected. A scheme put in the trash by
  itself, inside a folder in the trash that another device destroys, would be live at
  the root.

## 7. What is left out of the modelled parts

* Bytes, wording and layout: an update is the set of edits it carries; the byte
  limit of a request may end it anywhere.
* Documents outside the loaded window (deferred, not yet decoded).
* Re-assertion of a line's text and fields after a landing; of the rest, sections 3.5
  and 3.6 say what is left out.
* The recovery marker of a paired save and unreadable document files: stage 11.
* Small differences no property depends on. `PulledDocument`: a failure of
  `save_local_sync_state` itself (`snapshot.rs:469`) is none of the failures of `WriteFail`;
  the integrity proof covers what it leaves. `WsClient`: a reply that does not decode
  falls back to HTTP like a lost one and is not a kind of its own.
  `PullLoop`: `restore_unpublished_schemes_dropped_by_pull`
  (`snapshot.rs:333`) is left out.
* Account changes beyond their events: stage 9. An account switch re-labels and reseeds
  every document, in `PullLoop` terms a start with no cursors and everything queued.
* Media transfers, beyond their failure in mid-run, and presence frames, on which no
  state depends.
* File replacement is atomic, as `write_atomic` makes it.
* Everything outside the sync core (user interface, editor, calendar arithmetic,
  imports, packaging), which is most of the repository's lines: see 1.3.

## 8. Running it

    tlc -workers 2 -config MCOutbox_safety.cfg MCOutbox.tla
    tlapm Outbox_proofs.tla

A run's configuration is `MC<module>_<name>.cfg`. `CHECK_DEADLOCK` is on
everywhere.
