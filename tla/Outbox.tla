------------------------------- MODULE Outbox -------------------------------
(***************************************************************************)
(* How one device delivers its edits: the live store with its deferred     *)
(* CRDT writes and its pending operations, the queue on disk, the sync run *)
(* working on a copy of them, the server, and the landing of the run on a  *)
(* store the user kept editing meanwhile.                                  *)
(*                                                                         *)
(* An edit is an element of Edit; a document, a state or an update is the  *)
(* set of the edits it carries: integrating a Yjs update is union, and     *)
(* sending one twice is harmless, as it is in the code.                    *)
(***************************************************************************)
EXTENDS Integers, FiniteSets

CONSTANTS
  Doc,         \* synced documents (scheme contents and the workspace index)
  Edit,        \* every edit that may ever be made
  DocOf,       \* the document an edit writes
  Prior,       \* the edits of the same document an edit builds on
  Unbinds,     \* the documents whose scheme an (index) edit deletes for good
  Starter,     \* content shown before any document was populated with it
  Remote,      \* edits other devices make
  MaxDocs,     \* PUSH_MAX_DOCUMENTS_PER_REQUEST
  MaxUpdates,  \* PUSH_MAX_UPDATES_PER_DOCUMENT
  MaxFaults    \* bound on failures and refusals

ASSUME EditAssumption ==
  /\ IsFiniteSet(Doc)
  /\ DocOf \in [Edit -> Doc]
  /\ Prior \in [Edit -> SUBSET Edit]
  /\ Unbinds \in [Edit -> SUBSET Doc]
  /\ Starter \subseteq Edit
  /\ Remote \subseteq Edit \ Starter
\* An edit builds on edits of its document, a starter on no edit made later.
ASSUME PriorAssumption ==
  /\ \A e \in Edit : \A p \in Prior[e] : DocOf[p] = DocOf[e]
  /\ \A e \in Starter : Prior[e] \subseteq Starter
\* Deleting a scheme writes the workspace index, which is never deleted.
ASSUME IndexAssumption ==
  /\ \A e, f \in Edit : DocOf[e] \in Unbinds[f] => Unbinds[e] = {}
  /\ \A e \in Starter : Unbinds[e] = {}
ASSUME BoundAssumption ==
  /\ MaxDocs \in Nat \ {0}
  /\ MaxUpdates \in Nat \ {0}
  /\ MaxFaults \in Nat

VARIABLES
  store,      \* the live WorkspaceStore
  diskQueue,  \* `pending` of sync-state.json
  saving,     \* a workspace save is being written in the background
  savedQueue, \* the queue that save captured
  phase,      \* where the sync run is
  queue,      \* the store's queue as the run was given it, then the run's own
  runDocs,    \* the run's CRDT documents, once it has read them
  watermark,  \* the store's next sequence when the run took its snapshot
  pushed,     \* what the run will report as pushed
  reseeded,   \* documents this push already replaced by a snapshot
  request,    \* the entries of the push request in flight
  minted,     \* operation ids minted by runs
  server,     \* the edits the server holds
  faults      \* failures so far

diskVars == <<diskQueue, saving, savedQueue>>
copyVars == <<queue, runDocs, watermark, pushed, reseeded>>
vars == <<store, diskVars, phase, copyVars, request, minted, server, faults>>

Local == Edit \ (Starter \cup Remote)
In(S, d) == {e \in S : DocOf[e] = d}

\* The documents a workspace still binds to a scheme.
Bound(S) == Doc \ UNION {Unbinds[e] : e \in S}

\* Whether the updates of S rebuild a valid document: its population is there.
Populated(d, S) == In(Starter, d) \subseteq S

(***************************************************************************)
(* The store. plain is the workspace the user sees, crdt its documents,    *)
(* deferred the documents whose changes crdt has not been given yet, since *)
(* the value of next when deferred was last filled. An operation's id is a *)
(* fresh uuid; the store's sequence numbers already tell its operations    *)
(* apart, so they stand for it, and runs mint negative ones.               *)
(***************************************************************************)
Operation == [seq : Nat, ups : SUBSET Edit]
Store == [plain : SUBSET Edit, crdt : SUBSET Edit, deferred : SUBSET Doc,
          since : Nat, ops : SUBSET Operation, next : Nat]
Entry == [op : Int, seq : Nat, doc : Doc, body : SUBSET Edit, pos : Nat]
Key == [op : Int, seq : Nat, doc : Doc]
KeyOf(x) == [op |-> x.op, seq |-> x.seq, doc |-> x.doc]

\* The edits the operations of the queue carry.
Carried(O) == UNION {o.ups : o \in O}

\* The difference sync_changes finds between the workspace and its documents.
Unwritten(st) ==
  {e \in st.plain \ st.crdt : DocOf[e] \in st.deferred \cap Bound(st.plain)}

\* Mutant: the deferral's start is ignored.
LatestCarries(st) == {o \in st.ops : \A p \in st.ops : p.seq <= o.seq}

\* The latest operation, when it was made after the deferral began.
Carriers(st) ==
  {o \in st.ops : o.seq >= st.since /\ \A p \in st.ops : p.seq <= o.seq}

NewOp(st, ups) ==
  [st EXCEPT !.ops = @ \cup {[seq |-> st.next, ups |-> ups]}, !.next = @ + 1]

Attach(st, ups) ==
  [st EXCEPT !.ops = (@ \ Carriers(st))
                       \cup {[o EXCEPT !.ups = @ \cup ups] : o \in Carriers(st)}]

\* Mutant: updates without an operation to carry them wait for one.
FlushWithCarrier(st) ==
  LET ups == Unwritten(st)
      written == [st EXCEPT !.crdt = @ \cup ups, !.deferred = {}]
  IN IF ups = {} THEN written
     ELSE IF Carriers(st) = {} THEN st
     ELSE Attach(written, ups)

Flush(st) ==
  LET ups == Unwritten(st)
      written == [st EXCEPT !.crdt = @ \cup ups, !.deferred = {}]
  IN IF ups = {} THEN written
     ELSE IF Carriers(st) = {} THEN NewOp(written, ups)
     ELSE Attach(written, ups)

Defer(st, d) ==
  [st EXCEPT !.deferred = @ \cup {d},
             !.since = IF st.deferred = {} THEN st.next ELSE @]

\* The workspace changes now, its documents at the next flush.
Edited(st, e) == Defer([st EXCEPT !.plain = @ \cup {e}], DocOf[e])

\* A command; and a repair of the index, flushed on both sides and without an
\* operation of its own.
Applied(st, e) == NewOp(Edited(st, e), {})
Repaired(st, e) == Flush(Edited(Flush(st), e))

(***************************************************************************)
(* The queue of a run. pos is the place of an entry in the queue.          *)
(***************************************************************************)
\* The last place in a queue, and the highest sequence queued.
LastPos(q) == {n \in {0} \cup {x.pos : x \in q} : \A x \in q : x.pos <= n}
LastSeq(q) == {n \in {0} \cup {x.seq : x \in q} : \A x \in q : x.seq <= n}

\* The store's queue as entries, one per operation and document.
Entries(O) ==
  {x \in {[op |-> o.seq, seq |-> o.seq, doc |-> d, body |-> In(o.ups, d),
           pos |-> o.seq] : o \in O, d \in Doc} : x.body # {}}

\* merge_pending: what the queue does not already hold goes to its end.
Merged(q, new, n) ==
  q \cup {[x EXCEPT !.pos = n + @] :
            x \in {y \in new : \A z \in q : KeyOf(z) # KeyOf(y)}}

Pending(q, d) == {x \in q : x.doc = d}
Bodies(q) == UNION {x.body : x \in q}

Ranks(D) == {r \in [D -> 1 .. Cardinality(D)] :
               \A a, b \in D : a # b => r[a] # r[b]}

\* Full snapshots of the documents D, queued one after the other.
Snapshots(D, docs, s, n, r) ==
  {[op |-> - (minted + r[d]), seq |-> s + r[d], doc |-> d, body |-> In(docs, d),
    pos |-> n + r[d]] : d \in D}

Before(q, a, b) ==
  \E x \in Pending(q, a) : \A y \in Pending(q, b) : x.pos < y.pos

\* Mutant: the entries of a document go out in any order.
RequestInAnyOrder(q, r) ==
  /\ r # {}
  /\ Cardinality({x.doc : x \in r}) <= MaxDocs
  /\ \A d \in Doc : Cardinality(Pending(r, d)) <= MaxUpdates

\* What build_push_request may send: of the documents in order of appearance,
\* the first entries of each, every document but the last up to the limit. The
\* byte limits may end a request anywhere.
IsRequest(q, r) ==
  LET docs == {x.doc : x \in r}
  IN /\ r # {}
     /\ Cardinality(docs) <= MaxDocs
     /\ \A d \in docs : Cardinality(Pending(r, d)) <= MaxUpdates
     /\ \A x \in r, y \in q : x.doc = y.doc /\ y.pos < x.pos => y \in r
     /\ \A x \in r, y \in q : Before(q, y.doc, x.doc) =>
          \/ Pending(q, y.doc) \subseteq r
          \/ Cardinality(Pending(r, y.doc)) = MaxUpdates

Init ==
  /\ store = [plain |-> Starter, crdt |-> {}, deferred |-> {}, since |-> 0,
              ops |-> {}, next |-> 1]
  /\ diskQueue = {}
  /\ saving = FALSE
  /\ savedQueue = {}
  /\ phase = "idle"
  /\ queue = {}
  /\ runDocs = {}
  /\ watermark = 0
  /\ pushed = {}
  /\ reseeded = {}
  /\ request = {}
  /\ minted = 0
  /\ server = {}
  /\ faults = 0

(***************************************************************************)
(* The user, and other devices.                                            *)
(***************************************************************************)
CanEdit(e) ==
  /\ e \in Local \ store.plain
  /\ Prior[e] \subseteq store.plain
  /\ DocOf[e] \in Bound(store.plain)

ApplyLocal(e) ==
  /\ CanEdit(e)
  /\ store' = Applied(store, e)
  /\ UNCHANGED <<diskVars, phase, copyVars, request, minted, server, faults>>

RepairIndex(e) ==
  /\ CanEdit(e)
  /\ store' = Repaired(store, e)
  /\ UNCHANGED <<diskVars, phase, copyVars, request, minted, server, faults>>

\* Another device pushes; a starter is the same content on every device.
RemotePush(e) ==
  /\ e \in (Remote \cup Starter) \ server
  /\ Prior[e] \subseteq server
  /\ DocOf[e] \in Bound(server)
  /\ Populated(DocOf[e], server \cup {e})
  /\ server' = server \cup {e}
  /\ UNCHANGED <<store, diskVars, phase, copyVars, request, minted, faults>>

(***************************************************************************)
(* Saving the workspace. The snapshot is refused while a run is Running;   *)
(* the write it starts is not.                                             *)
(***************************************************************************)
SaveSnapshot ==
  /\ ~saving
  /\ phase = "idle"
  /\ store' = Flush(store)
  /\ saving' = TRUE
  /\ savedQueue' = Entries(store'.ops)
  /\ UNCHANGED <<diskQueue, phase, copyVars, request, minted, server, faults>>

SaveWrite ==
  /\ saving
  /\ diskQueue' = savedQueue
  /\ saving' = FALSE
  /\ savedQueue' = {}
  /\ UNCHANGED <<store, phase, copyVars, request, minted, server, faults>>

(***************************************************************************)
(* The sync run.                                                           *)
(***************************************************************************)
\* Mutant: the request in flight outlives its run.
EndRunKeepingRequest ==
  /\ phase' = "idle"
  /\ queue' = {}
  /\ runDocs' = {}
  /\ watermark' = 0
  /\ pushed' = {}
  /\ reseeded' = {}
  /\ UNCHANGED request

EndRun ==
  /\ phase' = "idle"
  /\ queue' = {}
  /\ runDocs' = {}
  /\ watermark' = 0
  /\ pushed' = {}
  /\ reseeded' = {}
  /\ request' = {}

StartRun ==
  /\ phase = "idle"
  /\ phase' = "starting"
  /\ store' = Flush(store)
  /\ queue' = Entries(store'.ops)
  /\ watermark' = store'.next
  /\ UNCHANGED <<diskVars, runDocs, pushed, reseeded, request, minted, server,
                 faults>>

\* In the background, the run reads the queue on disk, and the documents through
\* handles the store still writes to.
LoadRun ==
  /\ phase = "starting"
  /\ phase' = "pulling"
  /\ \E n \in LastPos(diskQueue) : queue' = Merged(diskQueue, queue, n)
  /\ runDocs' = store.crdt
  /\ UNCHANGED <<store, diskVars, watermark, pushed, reseeded, request, minted,
                 server, faults>>

Fail == faults < MaxFaults /\ faults' = faults + 1

\* Nothing has been saved yet, so the run leaves no trace.
PullFails ==
  /\ phase = "pulling"
  /\ Fail
  /\ EndRun
  /\ UNCHANGED <<store, diskVars, minted, server>>

\* The documents the server has no base for that still have a scheme, and
\* those of them whose own document would not validate: they are repopulated
\* from the workspace.
Open(docs) == {d \in Bound(docs) : In(server, d) = {}}
Healed(D, docs) ==
  docs \cup UNION {In(Starter, d) : d \in D \cap Bound(docs)}

\* The pull, and queue_workspace_bootstrap_updates after it.
Pull ==
  /\ phase = "pulling"
  /\ phase' = "pushing"
  /\ LET merged == runDocs \cup server
         open == Open(merged)
         docs == Healed(open, merged)
         trusted == {d \in open : /\ Pending(queue, d) # {}
                                  /\ Populated(d, merged)
                                  /\ Populated(d, Bodies(Pending(queue, d)))}
         fresh == {d \in open \ trusted : In(docs, d) # {}}
         kept == {x \in queue : x.doc \in trusted \/ In(server, x.doc) # {}}
     IN /\ runDocs' = docs
        /\ \E r \in Ranks(fresh), s \in LastSeq(queue), n \in LastPos(queue) :
             queue' = kept \cup Snapshots(fresh, docs, s, n, r)
        /\ minted' = minted + Cardinality(fresh)
  /\ UNCHANGED <<store, diskVars, watermark, pushed, reseeded, request, server,
                 faults>>

BuildRequest ==
  /\ phase = "pushing"
  /\ request = {}
  /\ \E r \in SUBSET queue : IsRequest(queue, r) /\ request' = r
  /\ UNCHANGED <<store, diskVars, phase, copyVars, minted, server, faults>>

Valid(r) ==
  \A d \in {x.doc : x \in r} : Populated(d, server \cup Bodies(Pending(r, d)))

Accept ==
  /\ request # {}
  /\ Valid(request)
  /\ server' = server \cup Bodies(request)
  /\ queue' = queue \ request
  /\ pushed' = pushed \cup {KeyOf(x) : x \in request}
  /\ request' = {}
  /\ UNCHANGED <<store, diskVars, phase, runDocs, watermark, reseeded, minted,
                 faults>>

\* The push fails and its error is returned, after the queue has been saved.
PushFailsWith(q) ==
  /\ diskQueue' = q
  /\ EndRun
  /\ UNCHANGED <<store, saving, savedQueue>>

LoseRequest ==
  /\ request # {}
  /\ Fail
  /\ PushFailsWith(queue)
  /\ UNCHANGED <<minted, server>>

\* The server commits and its answer is lost, or acknowledges the documents of
\* the request only up to one it omits or miscounts.
LoseResponse ==
  /\ request # {}
  /\ Valid(request)
  /\ Fail
  /\ server' = server \cup Bodies(request)
  /\ \/ PushFailsWith(queue)
     \/ \E d \in {x.doc : x \in request} :
          PushFailsWith(queue \ {x \in request : Before(queue, x.doc, d)})
  /\ UNCHANGED minted

\* The server refuses the batch: every document of it is replaced in the queue
\* by its full snapshot, once.
Refused(D) ==
  LET docs == Healed({x.doc : x \in request}, runDocs)
      snapped == {d \in D \cap Bound(docs) : In(docs, d) # {}}
  IN /\ minted' = minted + Cardinality(snapped)
     /\ runDocs' = docs
     /\ \E r \in Ranks(snapped), s \in LastSeq(queue), n \in LastPos(queue) :
          queue' = {x \in queue : x.doc \notin D}
                     \cup Snapshots(snapped, docs, s, n, r)

Reject ==
  /\ request # {}
  /\ Valid(request) => faults < MaxFaults
  /\ faults' = IF Valid(request) THEN faults + 1 ELSE faults
  /\ {x.doc : x \in request} \cap reseeded = {}
  /\ Refused({x.doc : x \in request})
  /\ reseeded' = reseeded \cup {x.doc : x \in request}
  /\ request' = {}
  /\ UNCHANGED <<store, diskVars, phase, watermark, pushed, server>>

\* A document refused again after its snapshot ends the run; the documents
\* before it in the request have been replaced by then.
RejectAgain ==
  /\ request # {}
  /\ Valid(request) => faults < MaxFaults
  /\ faults' = IF Valid(request) THEN faults + 1 ELSE faults
  /\ \E d \in {x.doc : x \in request} \cap reseeded :
       LET D == {x.doc : x \in {y \in request : Before(queue, y.doc, d)}}
           docs == Healed({x.doc : x \in request}, runDocs)
           snapped == {c \in D \cap Bound(docs) : In(docs, c) # {}}
       IN /\ D \cap reseeded = {}
          /\ minted' = minted + Cardinality(snapped)
          /\ \E r \in Ranks(snapped), s \in LastSeq(queue), n \in LastPos(queue) :
               PushFailsWith({x \in queue : x.doc \notin D}
                               \cup Snapshots(snapped, docs, s, n, r))
  /\ UNCHANGED server

\* Nothing is left to push: the run saves its queue and goes on to its end.
PushDone ==
  /\ phase = "pushing"
  /\ request = {}
  /\ queue = {}
  /\ phase' = "pushed"
  /\ diskQueue' = queue
  /\ UNCHANGED <<store, saving, savedQueue, copyVars, request, minted, server,
                 faults>>

\* A failure after the push (a write, the media): the run never lands.
FailAfterPush ==
  /\ phase = "pushed"
  /\ Fail
  /\ EndRun
  /\ UNCHANGED <<store, diskVars, minted, server>>

(***************************************************************************)
(* The landing, one step of the UI thread.                                 *)
(***************************************************************************)
\* The operations and edits that may have to go, and what is left of the queue
\* without some of them; an operation left with none goes as well.
Stamped(st) == {o.seq : o \in st.ops} \X Edit
Without(st, gone) ==
  [st EXCEPT !.ops =
     {o \in {[seq |-> p.seq, ups |-> {e \in p.ups : <<p.seq, e>> \notin gone}]
               : p \in @} : o.ups # {}}]

\* Mutant: cleared by document and sequence, whatever the operation.
ClearPushedBySequence(st) ==
  Without(st, {p \in Stamped(st) :
                 \E k \in pushed : k.seq = p[1] /\ k.doc = DocOf[p[2]]})

ClearPushed(st) ==
  IF pushed = {} THEN st
  ELSE Without(st, {p \in Stamped(st) :
                      [op |-> p[1], seq |-> p[1], doc |-> DocOf[p[2]]] \in pushed})

\* Mutant: edits of a scheme deleted for good stay queued.
KeepUnbound(st) == st

\* An edit the run never saw is kept when the run's workspace binds its document.
DropUnbound(st) ==
  LET gone == {p \in Stamped(st) :
                 /\ DocOf[p[2]] \notin Bound(st.plain)
                 /\ ~(p[1] >= watermark /\ DocOf[p[2]] \in Bound(runDocs))}
  IN IF \A o \in st.ops : \A e \in o.ups : <<o.seq, e>> \notin gone THEN st
     ELSE Without(st, gone)

\* What documents show, beside them starter content whose document is empty.
Shown(st, docs) ==
  docs \cup {e \in st.plain \cap Starter : In(docs, DocOf[e]) = {}}

\* Mutants: the unsent edits are not replayed; the workspace is not taken from
\* the documents.
AdoptedWithoutReplay(st, base) == [st EXCEPT !.crdt = base, !.plain = base]
AdoptedBeside(st, base) == [st EXCEPT !.crdt = base]

\* The documents become base with the unsent edits replayed on it, and the
\* workspace what they hold.
Adopted(st, base) ==
  LET docs == base \cup Carried(st.ops)
  IN [st EXCEPT !.crdt = docs, !.plain = Shown(st, docs)]

Land ==
  /\ phase = "pushed"
  /\ LET kept == DropUnbound(Flush(ClearPushed(store)))
     IN \/ runDocs \subseteq store.crdt /\ store' = kept
        \/ kept.next # watermark /\ store' = Adopted(kept, kept.crdt \cup runDocs)
        \/ store' = Adopted(kept, runDocs)
  /\ EndRun
  /\ UNCHANGED <<diskVars, minted, server, faults>>

Next ==
  \/ \E e \in Edit : ApplyLocal(e) \/ RepairIndex(e) \/ RemotePush(e)
  \/ SaveSnapshot \/ SaveWrite
  \/ StartRun \/ LoadRun \/ PullFails \/ Pull
  \/ BuildRequest \/ Accept \/ LoseRequest \/ LoseResponse
  \/ Reject \/ RejectAgain \/ PushDone \/ FailAfterPush
  \/ Land

Spec == Init /\ [][Next]_vars

\* A run ends: its timer starts the next one, and the server answers when no
\* fault is left.
RunStep == StartRun \/ LoadRun \/ Pull \/ BuildRequest \/ Accept \/ Reject \/ RejectAgain
             \/ PushDone \/ Land
FairSpec == Spec /\ WF_vars(RunStep) /\ WF_vars(SaveWrite)

(***************************************************************************)
(* Properties.                                                             *)
(***************************************************************************)
TypeOK ==
  /\ store \in Store
  /\ diskQueue \in SUBSET Entry
  /\ saving \in BOOLEAN
  /\ savedQueue \in SUBSET Entry
  /\ phase \in {"idle", "starting", "pulling", "pushing", "pushed"}
  /\ queue \in SUBSET Entry
  /\ runDocs \in SUBSET Edit
  /\ watermark \in Nat
  /\ pushed \in SUBSET Key
  /\ reseeded \in SUBSET Doc
  /\ request \in SUBSET queue
  /\ minted \in Nat
  /\ server \in SUBSET Edit
  /\ faults \in 0 .. MaxFaults

\* An edit the user made here and still sees is on the server, or in an
\* operation of the store's queue, or in the deferral of its document: whatever
\* runs fail, are refused or land in between, no edit falls out of all three.
\* (flush_crdt, clear_pushed_crdt_edits_exact, the landing.)
NoLostEdit ==
  \A e \in store.plain \cap Local :
    DocOf[e] \in Bound(store.plain) =>
      e \in server \cup Carried(store.ops) \cup Unwritten(store)

\* What the user sees is what the documents hold, but for changes a flush will
\* still write and starter content no document was populated with: the
\* projection law every landing has to end with.
ProjectionLaw ==
  \A e \in store.plain \ store.crdt :
    DocOf[e] \in Bound(store.plain) => e \in Unwritten(store) \cup Starter

\* The server holds an edit only with the edits of its document it builds on:
\* batches, limits, refusals and retries never push a document with a gap that
\* Yjs would leave pending for ever.
ServerCausal == \A e \in server : Prior[e] \subseteq server

\* An operation only carries edits it was given before a run read it: once
\* captured in a run's queue under its identity, its update is never extended.
\* (deferred_since: an older operation must not carry newer updates.)
CapturedIsComplete ==
  \A x \in queue : \A o \in store.ops :
    x.op = o.seq => In(o.ups, x.doc) \subseteq x.body

\* A step never takes a visible edit of the user's away, except with its
\* scheme: a landing merges or replays what was made while the run was on.
KeepsVisible ==
  [][\A e \in store.plain \cap Local :
       e \in store'.plain \/ DocOf[e] \notin Bound(store'.plain)]_vars

\* The device comes to rest with nothing left to push: the indicator of unsent
\* work does not stay on for an edit no run will ever send.
QueueDrains == <>[](Carried(store.ops) = {})

(***************************************************************************)
(* The outbox implements EditDelivery.                                     *)
(***************************************************************************)
Owed == Local \cap (Carried(store.ops) \cup
          {e \in store.plain \ store.crdt : DocOf[e] \in store.deferred})
Delivery == INSTANCE EditDelivery WITH
  owed <- Owed,
  delivered <- server \cap Local,
  void <- {e \in Edit : DocOf[e] \notin Bound(store.plain)}

\* The device owes an edit from the moment it is made, and forgets it only once
\* the server has it or its scheme is gone.
DeliversSafely == Delivery!Safe

\* And it gets to deliver it, whatever failed in between.
Delivers == Delivery!Promise
=============================================================================
