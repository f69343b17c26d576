------------------------------- MODULE PullLoop -------------------------------
(***************************************************************************)
(* A sync run over all the documents of a workspace: the workspace index,  *)
(* which says which schemes there are, and one content document for each   *)
(* scheme. The server answers a pull page by page, in any order, while     *)
(* other devices push; the run reconciles its cursors with the server's    *)
(* heads, proves its documents by their state vectors, offers again what   *)
(* the proof finds missing, gives the server every document it lacks, and  *)
(* pushes what is queued.                                                  *)
(*                                                                         *)
(* A document is a set of structs. <<"base">> is its population: the       *)
(* server takes no document without it.                                    *)
(***************************************************************************)
EXTENDS Integers, FiniteSets

CONSTANTS
  Index,     \* the workspace index document
  Schemes,   \* schemes, and their content documents
  Initial,   \* the schemes everyone has at first
  Scopes     \* what may happen: a behaviour is in one of them

Docs == {Index} \cup Schemes
Facts == {"bind", "gone"} \X Schemes
Struct == Facts \cup {<<"base">>, <<"mine">>, <<"theirs">>}

FaultKinds == {"pull", "push", "crash", "damage", "purge"}

\* A scope: what this device's user and the other devices may do, what may go
\* wrong, and how often.
ASSUME ScopeAssumption ==
  /\ Index \notin Schemes
  /\ Initial \subseteq Schemes
  /\ Scopes \subseteq
       [user : SUBSET ({"create", "type", "destroy"} \X Schemes),
        peers : SUBSET (Docs \X Struct), faults : SUBSET FaultKinds, max : Nat]

VARIABLES
  scope,   \* the scope of the behaviour; never changes
  server,  \* what the server holds of each document
  docs,    \* the live documents
  queue,   \* the edits of each document the store has queued
  sync,    \* sync-state.json: cursors, queued leftovers, re-offers, recovery
  phase,   \* where the sync run is
  run,     \* the run's copies
  faults   \* failures so far

vars == <<scope, server, docs, queue, sync, phase, run, faults>>

Nothing == [d \in Docs |-> {}]
Populated(S) == <<"base">> \in S

\* What everyone populates a document with.
Population(d) ==
  {<<"base">>} \cup IF d = Index THEN {"bind"} \X Initial ELSE {}

\* The schemes an index lists: a destroyed one never comes back.
Listed(S) == {s \in Schemes : <<"bind", s>> \in S /\ <<"gone", s>> \notin S}
Known(D) == {Index} \cup Listed(D[Index])

\* Mutant: the content of a scheme that is not listed is kept.
Unrestricted(D) == D

\* Only the index and what it lists are documents of the workspace.
Bound(D) == [d \in Docs |-> IF d \in Known(D) THEN D[d] ELSE {}]

(***************************************************************************)
(* A cursor is kept as what it says against the server's sequence number:  *)
(* there is none, it is zero, it is behind, at, or ahead of it.            *)
(***************************************************************************)
Cursors == [Docs -> {"none", "zero", "behind", "at", "ahead"}]
NoCursors == [d \in Docs |-> "none"]
Zeroed(cur, D) ==
  [d \in Docs |-> IF d \in D /\ cur[d] # "none" THEN "zero" ELSE cur[d]]

\* The server's number of each document of D moves on; after a reset of the
\* server it may come to be the one an old cursor has.
Moved(cur, D) ==
  {[d \in Docs |-> IF d \notin D THEN cur[d]
                   ELSE IF cur[d] = "at" THEN "behind"
                   ELSE IF d \in met THEN "at" ELSE cur[d]] :
     met \in SUBSET {d \in D : cur[d] = "ahead"}}

NoRun == [docs |-> Nothing, held |-> {}, queue |-> Nothing, own |-> Nothing,
          sent |-> Nothing, cur |-> NoCursors, proof |-> FALSE, asked |-> FALSE,
          turn |-> FALSE, repair |-> {}, reoffered |-> {}, changed |-> {}, skipped |-> {},
          replaced |-> {}, reseeded |-> {}]

\* What everyone has is known everywhere and synced.
Init ==
  /\ scope \in Scopes
  /\ docs = [d \in Docs |-> IF d \in {Index} \cup Initial THEN Population(d) ELSE {}]
  /\ server = docs
  /\ queue = Nothing
  /\ sync = [cur |-> [d \in Docs |-> IF docs[d] = {} THEN "none" ELSE "at"],
             pend |-> Nothing, reoffered |-> {}, recovering |-> FALSE]
  /\ phase = "idle"
  /\ run = NoRun
  /\ faults = 0

Fault(f) == f \in scope.faults /\ faults < scope.max /\ faults' = faults + 1

(***************************************************************************)
(* The server and the other devices.                                       *)
(***************************************************************************)
\* S is merged into the server's documents D.
Commit(D, S) ==
  /\ server' = [d \in Docs |-> IF d \in D THEN server[d] \cup S[d] ELSE server[d]]
  /\ \E c \in Moved(sync.cur, D) : sync' = [sync EXCEPT !.cur = c]

\* Another device pushes, with the population when the server lacks it. Content
\* may come before the index entry that binds it.
PeerPush(d, e) ==
  /\ <<d, e>> \in scope.peers
  /\ e \notin server[d]
  /\ Commit({d}, [x \in Docs |-> Population(d) \cup {e}])
  /\ \E c \in Moved(run.cur, {d}) : run' = [run EXCEPT !.cur = c]
  /\ UNCHANGED <<scope, docs, queue, phase, faults>>

\* The server is reset: it has nothing, and its numbers start again.
Purge ==
  /\ Fault("purge")
  /\ server' = Nothing
  /\ LET Lost(cur) == [d \in Docs |-> IF cur[d] \in {"behind", "at"} THEN "ahead" ELSE cur[d]]
     IN /\ sync' = [sync EXCEPT !.cur = Lost(@)]
        /\ run' = [run EXCEPT !.cur = Lost(@)]
  /\ UNCHANGED <<scope, docs, queue, phase>>

(***************************************************************************)
(* The user.                                                               *)
(***************************************************************************)
\* An edit goes into the live document and is queued.
Edit(S) ==
  /\ docs' = [d \in Docs |-> docs[d] \cup S[d]]
  /\ queue' = [d \in Docs |-> queue[d] \cup (S[d] \ docs[d])]
  /\ UNCHANGED <<scope, server, sync, phase, run, faults>>

Create(s) ==
  /\ <<"create", s>> \in scope.user
  /\ {<<"bind", s>>, <<"gone", s>>} \cap docs[Index] = {}
  /\ Edit([Nothing EXCEPT ![Index] = {<<"bind", s>>}, ![s] = {<<"base">>}])

\* An edit of a scheme whose content never came populates its document.
Type(s) ==
  /\ <<"type", s>> \in scope.user
  /\ s \in Listed(docs[Index])
  /\ <<"mine">> \notin docs[s]
  /\ Edit([Nothing EXCEPT ![s] = {<<"base">>, <<"mine">>}])

Destroy(s) ==
  /\ <<"destroy", s>> \in scope.user
  /\ s \in Listed(docs[Index])
  /\ Edit([Nothing EXCEPT ![Index] = {<<"gone", s>>}])

(***************************************************************************)
(* The pull.                                                               *)
(***************************************************************************)
NothingQueued(q) == \A d \in Docs : q[d] = {}

\* The run takes the store's documents and queue, and what an earlier run left
\* queued. It has a document for every scheme the index lists, and proves them
\* when nothing is queued.
StartRun ==
  /\ phase = "idle"
  /\ phase' = "pulling"
  /\ LET q == [d \in Docs |-> queue[d] \cup sync.pend[d]]
     IN run' = [NoRun EXCEPT
                  !.docs = Bound(docs),
                  !.held = Known(docs), !.queue = q, !.own = queue,
                  !.cur = sync.cur, !.reoffered = sync.reoffered,
                  !.proof = NothingQueued(q)]
  /\ UNCHANGED <<scope, server, docs, queue, sync, faults>>

\* What the server has to send.
Due(r) == {d \in Docs : server[d] # {} /\ r.cur[d] \in {"none", "zero", "behind"}}

\* Only a pull with nothing to send compares the state vectors.
Proved(r) == r.proof /\ Due(r) = {}

\* Mutant: a proof never finds anything.
NoMismatches(r) == {}

\* The documents the proof finds different and nothing is queued for.
Mismatches(r) ==
  {d \in r.held : server[d] # {} /\ server[d] # r.docs[d] /\ r.queue[d] = {}}

\* The cursors the server's heads refute.
Refuted(r) ==
  {d \in Docs : r.cur[d] # "none" /\ (server[d] = {} \/ r.cur[d] = "ahead")}

\* Mutant: the cursor of a document the server lacks is kept.
ReconciledToZero(r) == [r EXCEPT !.cur = Zeroed(@, Refuted(r))]

Reconciled(r) ==
  [r EXCEPT !.cur = [d \in Docs |-> IF d \notin Refuted(r) THEN @[d]
                                    ELSE IF server[d] = {} THEN "none" ELSE "zero"]]

\* A listed scheme without a document, or whose content was skipped, is to be
\* pulled again unless its cursor says that it has been pulled: content that
\* came before its index entry is not asked for again.
Refetched(r, unknown) ==
  LET gaps == {s \in Listed(r.docs[Index]) : s \notin r.held \/ s \in r.skipped}
      again == {s \in gaps : \/ r.cur[s] \in {"none", "zero"}
                             \/ s \in unknown /\ s \notin r.held}
  IN [r EXCEPT !.cur = Zeroed(@, again)]

\* A page is applied, the index first: a scheme it does not list is no longer
\* held, and its content is skipped. The cursor moves on for what was skipped as
\* well.
Applied(r, P) ==
  LET index == r.docs[Index] \cup IF Index \in P THEN server[Index] ELSE {}
      unknown == P \ ({Index} \cup Listed(index))
      taken == P \ unknown
      got == Bound([d \in Docs |-> r.docs[d] \cup IF d \in taken THEN server[d] ELSE {}])
  IN Refetched(
       [r EXCEPT !.docs = got,
                 !.held = (@ \cup taken) \cap Known(got),
                 !.cur = [d \in Docs |-> IF d \in P THEN "at" ELSE @[d]],
                 !.changed = @ \cup {d \in taken : got[d] # r.docs[d]},
                 !.skipped = @ \cup unknown],
       unknown)

\* What the proof found different is offered to the server whole, once as long
\* as it finds anything, by a run that has nothing else to push.
Reoffered(r) ==
  IF r.repair = {} THEN [r EXCEPT !.reoffered = {}]
  ELSE IF ~NothingQueued(r.queue) THEN r
  ELSE LET offer == (r.repair \cap r.held) \ r.reoffered
       IN [r EXCEPT !.reoffered = @ \cup r.repair,
                    !.queue = [d \in Docs |-> IF d \in offer THEN r.docs[d] ELSE {}]]

\* Everyone populates an unpopulated document with the same structs.
Healed(r, D) ==
  [r EXCEPT !.docs = [d \in Docs |->
     IF d \in D \cap r.held /\ ~Populated(@[d]) THEN @[d] \cup Population(d) ELSE @[d]]]

\* The queued edits of the documents D are replaced by the whole document.
Snapshotted(r, D) ==
  [r EXCEPT !.queue = [d \in Docs |->
                         IF d \notin D THEN @[d] ELSE IF d \in r.held THEN r.docs[d] ELSE {}],
            !.replaced = @ \cup D]

\* A document the server lacks, and any document while the journal is being
\* recovered, is queued whole unless its queued edits are a whole document. What
\* is queued for a document neither side can populate is dropped.
Bootstrapped(r) ==
  LET whole == {d \in r.held : server[d] = {} \/ sync.recovering}
      kept == {d \in whole : Populated(r.docs[d]) /\ Populated(r.queue[d])}
      s == Snapshotted(Healed(r, whole), whole \ kept)
  IN [s EXCEPT !.queue = [d \in Docs |->
        IF d \in whole \/ server[d] # {} THEN @[d] ELSE {}]]

\* The pull asks again, or is over; turn tells one request from the next.
PullOn(r) == run' = [r EXCEPT !.turn = ~@] /\ phase' = "pulling"
PullEnds(r) == (\E o \in {Reoffered(r)} : run' = Bootstrapped(o)) /\ phase' = "pushing"

ProofDone(r) == [r EXCEPT !.proof = FALSE]

\* The proof names documents that differ: their full state is asked for.
PullMismatch ==
  /\ phase = "pulling"
  /\ Proved(run) /\ Mismatches(run) # {}
  /\ PullOn([ProofDone(run) EXCEPT !.cur = Zeroed(@, Mismatches(run)),
                                   !.repair = @ \cup Mismatches(run)])
  /\ UNCHANGED <<scope, server, docs, queue, sync, faults>>

Agreed(r) == Proved(r) => Mismatches(r) = {}
AfterProof(r) == IF Proved(r) THEN ProofDone(r) ELSE r

\* The server's heads refute a cursor: the page is thrown away and asked for
\* again.
PullReconcile ==
  /\ phase = "pulling"
  /\ Agreed(run) /\ Refuted(run) # {}
  /\ PullOn(Reconciled(AfterProof(run)))
  /\ UNCHANGED <<scope, server, docs, queue, sync, faults>>

PullNothing ==
  /\ phase = "pulling"
  /\ Agreed(run) /\ Refuted(run) = {} /\ Due(run) = {}
  /\ PullEnds(AfterProof(run))
  /\ UNCHANGED <<scope, server, docs, queue, sync, faults>>

\* A page of what is due. After the last one a proof the server put off is asked
\* for once more.
PullPage ==
  /\ phase = "pulling"
  /\ Refuted(run) = {}
  /\ \E P \in (SUBSET Due(run)) \ {{}} : \E r \in {Applied(run, P)} :
          \/ P # Due(run) /\ PullOn(r)
          \/ P = Due(run) /\ run.proof /\ ~run.asked /\ PullOn([r EXCEPT !.asked = TRUE])
          \/ P = Due(run) /\ PullEnds(r)
  /\ UNCHANGED <<scope, server, docs, queue, sync, faults>>

\* Nothing has been saved: the run leaves no trace.
PullFails ==
  /\ phase = "pulling"
  /\ Fault("pull")
  /\ phase' = "idle"
  /\ run' = NoRun
  /\ UNCHANGED <<scope, server, docs, queue, sync>>

(***************************************************************************)
(* The push, and the landing.                                              *)
(***************************************************************************)
\* A request carries the queued edits of some documents.
Request(D) == D # {} /\ D \subseteq {d \in Docs : run.queue[d] # {}}

Acceptable(D) == \A d \in D : Populated(server[d] \cup run.queue[d])

\* An acknowledged document gets a cursor, which has pulled nothing, if it had
\* none. The store is told of its own edits only.
Accept(D) ==
  /\ phase = "pushing"
  /\ Request(D) /\ Acceptable(D)
  /\ Commit(D, run.queue)
  /\ \E c \in Moved(run.cur, D) :
       run' = [run EXCEPT
         !.queue = [d \in Docs |-> IF d \in D THEN {} ELSE @[d]],
         !.sent = [d \in Docs |-> IF d \in D \ run.replaced THEN run.own[d] ELSE @[d]],
         !.cur = [d \in Docs |-> IF d \in D /\ c[d] = "none" THEN "zero" ELSE c[d]]]
  /\ UNCHANGED <<scope, docs, queue, phase, faults>>

\* A refused request is sent again with the whole documents, once.
Reject(D) ==
  /\ phase = "pushing"
  /\ Request(D) /\ ~Acceptable(D)
  /\ D \cap run.reseeded = {}
  /\ run' = [Snapshotted(Healed(run, D), D) EXCEPT !.reseeded = @ \cup D]
  /\ UNCHANGED <<scope, server, docs, queue, sync, phase, faults>>

\* A run that fails here does not land: what it pulled is to be pulled again.
\* What it did not get to push is saved.
Abandon ==
  sync' = [sync EXCEPT !.cur = Zeroed(run.cur, run.changed), !.pend = run.queue,
                       !.reoffered = run.reoffered]

\* The request or its answer is lost, or it is refused again.
PushFails(D) ==
  /\ phase = "pushing"
  /\ Request(D)
  /\ \/ Fault("push") /\ Abandon /\ UNCHANGED server
     \/ /\ Fault("push") /\ Acceptable(D)
        /\ server' = [d \in Docs |-> IF d \in D THEN server[d] \cup run.queue[d] ELSE server[d]]
        /\ \E c \in Moved(Zeroed(run.cur, run.changed), D) :
             sync' = [sync EXCEPT !.cur = c, !.pend = run.queue, !.reoffered = run.reoffered]
     \/ /\ ~Acceptable(D) /\ D \cap run.reseeded # {}
        /\ Abandon /\ UNCHANGED <<server, faults>>
  /\ phase' = "idle"
  /\ run' = NoRun
  /\ UNCHANGED <<scope, docs, queue>>

\* The acknowledged edits leave the queue, and those of documents no longer
\* bound: an edit made in flight is kept when the run's index binds it.
StillQueued(d) ==
  LET rest == queue[d] \ run.sent[d]
  IN IF d \in Known(docs) THEN rest
     ELSE IF d \in Known(run.docs) THEN rest \ run.own[d] ELSE {}

Land ==
  /\ phase = "pushing"
  /\ NothingQueued(run.queue)
  /\ queue' = [d \in Docs |-> StillQueued(d)]
  /\ docs' = IF run.changed = {} THEN docs
             ELSE Bound([d \in Docs |-> docs[d] \cup run.docs[d]])
  /\ sync' = [sync EXCEPT !.cur = run.cur, !.pend = Nothing, !.reoffered = run.reoffered]
  /\ phase' = "idle"
  /\ run' = NoRun
  /\ UNCHANGED <<scope, server, faults>>

(***************************************************************************)
(* The files.                                                              *)
(***************************************************************************)
\* A save replaces the saved queue by the store's.
Save ==
  /\ phase = "idle"
  /\ ~NothingQueued(sync.pend)
  /\ sync' = [sync EXCEPT !.pend = Nothing]
  /\ UNCHANGED <<scope, server, docs, queue, phase, run, faults>>

\* The app stops and is launched again: the documents were saved, the queue was
\* not.
Crash ==
  /\ Fault("crash")
  /\ queue' = Nothing
  /\ phase' = "idle"
  /\ run' = NoRun
  /\ UNCHANGED <<scope, server, docs, sync>>

\* sync-state.json is found damaged, by a launch or by a run: a default state
\* with the recovery marker takes its place.
Damage ==
  /\ phase = "idle"
  /\ Fault("damage")
  /\ sync' = [cur |-> NoCursors, pend |-> Nothing, reoffered |-> {}, recovering |-> TRUE]
  /\ queue' \in {queue, Nothing}
  /\ UNCHANGED <<scope, server, docs, phase, run>>

RunStep ==
  \/ StartRun \/ PullMismatch \/ PullReconcile \/ PullNothing \/ PullPage
  \/ \E D \in SUBSET Docs : Accept(D) \/ Reject(D)
  \/ Land

Next ==
  \/ \E d \in Docs, e \in Struct : PeerPush(d, e)
  \/ Purge
  \/ \E s \in Schemes : Create(s) \/ Type(s) \/ Destroy(s)
  \/ RunStep
  \/ PullFails
  \/ \E D \in SUBSET Docs : PushFails(D)
  \/ Save \/ Crash \/ Damage

Spec == Init /\ [][Next]_vars

\* A step of the run, or its end: each shows in one of these.
Ran ==
  \/ phase' # phase
  \/ run'.turn # run.turn
  \/ run'.queue # run.queue \/ run'.reseeded # run.reseeded

\* Runs are started and go on: the scheduler's timer starts them, and every call
\* has a timeout. A run step is always enabled, so with bounded faults FairSpec is
\* weak fairness of RunStep, and cheaper to check.
WeakSpec == Spec /\ WF_vars(RunStep)
FairSpec == Spec /\ []<><<Ran>>_vars

(***************************************************************************)
(* Properties.                                                             *)
(***************************************************************************)
Documents == [Docs -> SUBSET Struct]

TypeOK ==
  /\ scope \in Scopes /\ faults \in 0 .. scope.max
  /\ {server, docs, queue, sync.pend} \subseteq Documents
  /\ sync.cur \in Cursors /\ sync.reoffered \subseteq Docs /\ sync.recovering \in BOOLEAN
  /\ phase \in {"idle", "pulling", "pushing"}
  /\ {run.docs, run.queue, run.own, run.sent} \subseteq Documents
  /\ run.cur \in Cursors
  /\ {run.proof, run.asked, run.turn} \subseteq BOOLEAN
  /\ \A d \in Docs \ run.held : run.docs[d] = {}
  /\ {run.held, run.repair, run.reoffered, run.changed, run.skipped, run.replaced,
      run.reseeded} \subseteq SUBSET Docs

\* The device and the server come to hold the same index and the same content of
\* every scheme it lists, in whatever order the pages brought them.
Arrives == <>[](\A d \in Known(docs) : docs[d] = server[d])

Quiet == NothingQueued(queue) /\ NothingQueued(run.queue)

\* Every run ends, and a device that has nothing to say stops pushing.
Rests ==
  /\ []<>(phase = "idle")
  /\ <>[](sync.recovering \/ Quiet)

\* The recovery from a damaged journal is over once it has been pushed: a device
\* with nothing to say stops pushing, damaged or not.
RecoveryEnds == <>[]Quiet
=============================================================================
