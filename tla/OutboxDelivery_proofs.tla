----------------------- MODULE OutboxDelivery_proofs -----------------------
(***************************************************************************)
(* Proofs about Outbox: it implements EditDelivery, and it delivers in     *)
(* causal order: the server never holds an edit without the edits it       *)
(* builds on.                                                              *)
(***************************************************************************)
EXTENDS Outbox_proofs

(***************************************************************************)
(* What only the refinement needs: whatever a queue, a run or the server   *)
(* holds of this device's edits, the user has seen.                        *)
(***************************************************************************)
Held == server \cup runDocs \cup Bodies(Queued) \cup Carried(store.ops)
SeenIn(S) == {e \in Edit : e \in S \/ DocOf[e] \notin Bound(S)}
Seen == Held \cap Local \subseteq SeenIn(store.plain)

DInv == IInv /\ Seen

\* What was shown once is shown, or has lost its scheme, ever after.
LEMMA SeenStays ==
  ASSUME IInv, [Next]_vars
  PROVE  SeenIn(store.plain) \cap Local \subseteq SeenIn(store'.plain)
BY StepKeepsVisible DEF SeenIn

LEMMA BodiesOfEntries ==
  ASSUME NEW O
  PROVE  Bodies(Entries(O)) \subseteq Carried(O)
BY DEF Bodies, Entries, Carried, In

LEMMA BodiesOfSnapshots ==
  ASSUME NEW D, NEW docs, NEW s, NEW n, NEW r
  PROVE  Bodies(Snapshots(D, docs, s, n, r)) \subseteq docs
BY DEF Bodies, Snapshots, In

LEMMA BodiesOfMerged ==
  ASSUME NEW q, NEW new, new \subseteq Entry, NEW n
  PROVE  Bodies(Merged(q, new, n)) \subseteq Bodies(q) \cup Bodies(new)
<1> SUFFICES ASSUME NEW x \in Merged(q, new, n), NEW e \in x.body
             PROVE  e \in Bodies(q) \cup Bodies(new)
  BY DEF Bodies
<1>1. CASE x \in q
  BY <1>1 DEF Bodies
<1>2. CASE x \notin q
  <2>1. PICK y \in new : x = [y EXCEPT !.pos = n + @]
    BY <1>2 DEF Merged
  <2>2. x.body = y.body
    BY <2>1 DEF Entry
  <2> QED
    BY <2>2 DEF Bodies
<1> QED
  BY <1>1, <1>2

LEMMA BodiesMonotone ==
  ASSUME NEW p, NEW q, p \subseteq q
  PROVE  Bodies(p) \subseteq Bodies(q)
BY DEF Bodies

LEMMA BodiesJoin ==
  ASSUME NEW p, NEW q
  PROVE  Bodies(p \cup q) = Bodies(p) \cup Bodies(q)
BY DEF Bodies

\* What a store carries: a flush adds what was unwritten, a new operation
\* nothing, and a landing only takes away.
LEMMA WithoutCarries ==
  ASSUME NEW st, StoreInv(st), NEW gone
  PROVE  Carried(Without(st, gone).ops) \subseteq Carried(st.ops)
BY WithoutFacts DEF Carried

LEMMA UnwrittenShown ==
  ASSUME NEW st
  PROVE  Unwritten(st) \subseteq st.plain
BY DEF Unwritten

LEMMA ClearPushedCarries ==
  ASSUME TypeOK, NEW st, Good(st)
  PROVE  /\ Carried(ClearPushed(st).ops) \subseteq Carried(st.ops)
         /\ Carried(st.ops) \subseteq Carried(ClearPushed(st).ops) \cup server
         /\ Unwritten(ClearPushed(st)) = Unwritten(st)
<1> DEFINE gone == {p \in Stamped(st) :
                      [op |-> p[1], seq |-> p[1], doc |-> DocOf[p[2]]] \in pushed}
<1>1. CASE pushed = {}
  BY <1>1 DEF ClearPushed
<1>2. CASE pushed # {}
  <2>1. ClearPushed(st) = Without(st, gone)
    BY <1>2 DEF ClearPushed
  <2>2. ASSUME NEW o \in st.ops, NEW e \in o.ups, <<o.seq, e>> \in gone
        PROVE  e \in server
    <3> DEFINE k == [op |-> o.seq, seq |-> o.seq, doc |-> DocOf[e]]
    <3>1. k \in pushed
      BY <2>2
    <3>2. k.op = o.seq /\ k.doc = DocOf[e]
      OBVIOUS
    <3> HIDE DEF k
    <3>3. In(o.ups, k.doc) \subseteq server
      BY <3>1, <3>2 DEF Good, AckedIn
    <3> QED
      BY <3>2, <3>3 DEF In
  <2> HIDE DEF gone
  <2>3. StoreInv(st)
    BY DEF Good
  <2>4. Unwritten(Without(st, gone)) = Unwritten(st)
    BY <2>3, WithoutFacts
  <2>5. Carried(st.ops) \subseteq Carried(Without(st, gone).ops) \cup server
    <3> SUFFICES ASSUME NEW o \in st.ops, NEW e \in o.ups, e \notin server
                 PROVE  e \in Carried(Without(st, gone).ops)
      BY DEF Carried
    <3>1. <<o.seq, e>> \notin gone
      BY <2>2
    <3>2. PICK p \in Without(st, gone).ops : e \in p.ups
      BY <2>3, <3>1, WithoutFacts
    <3> QED
      BY <3>2 DEF Carried
  <2> QED
    BY <2>1, <2>3, <2>4, <2>5, WithoutCarries
<1> QED
  BY <1>1, <1>2

LEMMA DropUnboundCarries ==
  ASSUME NEW st, StoreInv(st)
  PROVE  /\ Carried(DropUnbound(st).ops) \subseteq Carried(st.ops)
         /\ \A e \in Carried(st.ops) : DocOf[e] \in Bound(st.plain) =>
              e \in Carried(DropUnbound(st).ops)
<1> DEFINE gone == {p \in Stamped(st) :
                      /\ DocOf[p[2]] \notin Bound(st.plain)
                      /\ ~(p[1] >= watermark /\ DocOf[p[2]] \in Bound(runDocs))}
<1>1. DropUnbound(st) = st \/ DropUnbound(st) = Without(st, gone)
  BY DEF DropUnbound
<1>2. ASSUME NEW o \in st.ops, NEW e \in o.ups, DocOf[e] \in Bound(st.plain)
      PROVE  <<o.seq, e>> \notin gone
  BY <1>2
<1> HIDE DEF gone
<1>3. ASSUME NEW e \in Carried(st.ops), DocOf[e] \in Bound(st.plain)
      PROVE  e \in Carried(Without(st, gone).ops)
  <2>1. PICK o \in st.ops : e \in o.ups
    BY <1>3 DEF Carried
  <2>2. <<o.seq, e>> \notin gone
    BY <1>2, <1>3, <2>1
  <2>3. PICK p \in Without(st, gone).ops : e \in p.ups
    BY <2>1, <2>2, WithoutFacts
  <2> QED
    BY <2>3 DEF Carried
<1> QED
  BY <1>1, <1>3, WithoutCarries

\* The landing takes from the queue what the server has and what lost its scheme.
LEMMA LandCarries ==
  ASSUME IInv, Land
  PROVE  /\ store'.deferred = {}
         /\ Carried(store'.ops) \subseteq Carried(store.ops) \cup Unwritten(store)
         /\ \A e \in Carried(store.ops) \cup Unwritten(store) :
              DocOf[e] \in Bound(store.plain) =>
                e \in Carried(store'.ops) \cup server
<1> DEFINE cl == ClearPushed(store)
           fl == Flush(cl)
           kept == DropUnbound(fl)
<1>1. /\ phase = "pushed"
      /\ \/ store' = kept
         \/ store' = Adopted(kept, kept.crdt \cup runDocs)
         \/ store' = Adopted(kept, runDocs)
  BY DEF Land
<1>2. TypeOK /\ Good(store) /\ phase # "idle"
  BY <1>1 DEF IInv
<1>3. /\ Good(cl) /\ cl.plain = store.plain
      /\ Carried(cl.ops) \subseteq Carried(store.ops)
      /\ Carried(store.ops) \subseteq Carried(cl.ops) \cup server
      /\ Unwritten(cl) = Unwritten(store)
  BY <1>2, ClearPushedGood, ClearPushedCarries, ClearedShows DEF Good
<1> HIDE DEF cl
<1>4. /\ StoreInv(fl) /\ fl.plain = store.plain /\ fl.deferred = {}
      /\ Carried(fl.ops) = Carried(cl.ops) \cup Unwritten(cl)
  BY <1>3, FlushFacts, FlushInv DEF Good
<1>5. Good(kept) /\ kept.deferred = {}
  BY <1>2, KeptGood DEF cl
<1> HIDE DEF fl
<1>6. /\ Carried(kept.ops) \subseteq Carried(fl.ops)
      /\ \A e \in Carried(fl.ops) : DocOf[e] \in Bound(store.plain) =>
           e \in Carried(kept.ops)
  BY <1>4, DropUnboundCarries
<1> HIDE DEF kept
<1>7. store'.ops = kept.ops /\ store'.deferred = {}
  <2>1. ASSUME NEW base, store' = Adopted(kept, base)
        PROVE  store'.ops = kept.ops /\ store'.deferred = {}
    <3>1. kept \in Store
      BY <1>5 DEF Good, StoreInv
    <3>2. Adopted(kept, base).ops = kept.ops /\ Adopted(kept, base).deferred = kept.deferred
      <4> DEFINE docs == base \cup Carried(kept.ops)
      <4>1. docs = base \cup Carried(kept.ops)
        OBVIOUS
      <4> HIDE DEF docs
      <4> QED
        BY <3>1, <4>1, AdoptedIs
    <3> QED
      BY <1>5, <2>1, <3>2
  <2> QED
    BY <1>1, <1>5, <2>1
<1> QED
  BY <1>3, <1>4, <1>6, <1>7

\* So does what a step of the user's or a save does to the queue.
LEMMA StoreCarries ==
  ASSUME IInv, [Next]_vars
  PROVE  Carried(store'.ops) \subseteq Carried(store.ops) \cup store.plain \cup store'.plain
<1>1. CASE store' = store
  BY <1>1
<1>2. CASE store' = Flush(store)
  BY <1>2, IInvFacts, FlushInv, FlushFacts, UnwrittenShown
<1>3. CASE \E e \in Edit : ApplyLocal(e)
  <2>1. store'.ops = store.ops \cup {[seq |-> store.next, ups |-> {}]}
    BY <1>3, AppliedShows
  <2> QED
    BY <2>1 DEF Carried
<1>4. CASE \E e \in Edit : RepairIndex(e)
  <2>1. PICK e \in Edit : RepairIndex(e)
    BY <1>4
  <2> DEFINE fl == Flush(store)
             ed == Edited(fl, e)
  <2>2. /\ StoreInv(ed) /\ store' = Flush(ed) /\ ed.plain = store'.plain
        /\ ed.ops = fl.ops /\ store.plain \subseteq store'.plain
    <3>1. /\ Good(ed) /\ store' = Flush(ed) /\ store'.plain = store.plain \cup {e}
          /\ ed = [plain |-> store.plain \cup {e}, crdt |-> store.crdt \cup Unwritten(store),
                   deferred |-> {DocOf[e]}, since |-> fl.next, ops |-> fl.ops,
                   next |-> fl.next]
      BY <2>1, RepairedShows
    <3> HIDE DEF ed, fl
    <3> QED
      BY <3>1 DEF Good
  <2>3. Carried(fl.ops) \subseteq Carried(store.ops) \cup store.plain
    BY IInvFacts, FlushInv, UnwrittenShown
  <2> HIDE DEF fl, ed
  <2>4. Carried(store'.ops) \subseteq Carried(ed.ops) \cup ed.plain
    BY <2>2, FlushInv, UnwrittenShown
  <2> QED
    BY <2>2, <2>3, <2>4
<1>5. CASE Land
  <2>1. Carried(store'.ops) \subseteq Carried(store.ops) \cup Unwritten(store)
    BY <1>5, LandCarries
  <2> QED
    BY <2>1, UnwrittenShown
<1> QED
  BY <1>1, <1>2, <1>3, <1>4, <1>5, StoreMoves

\* What a run gives its documents, its queue or the server comes from what was
\* held, from the store, from other devices or from a starter.
LEMMA QueuesHold ==
  ASSUME IInv, [Next]_vars
  PROVE  Bodies(Queued') \subseteq
           Bodies(Queued) \cup Carried(store'.ops) \cup runDocs \cup server \cup Starter
<1> DEFINE old == Bodies(Queued) \cup runDocs \cup server \cup Starter
<1>1. /\ Bodies(diskQueue) \subseteq old /\ Bodies(savedQueue) \subseteq old
      /\ Bodies(queue) \subseteq old
  BY DEF Queued, Bodies
<1>2. Bodies({}) = {}
  BY DEF Bodies
<1>3. ASSUME NEW D, NEW Q, Q \subseteq queue, NEW docs, NEW s, NEW n, NEW r,
             docs \subseteq runDocs \cup server \cup Starter
      PROVE  Bodies(Q \cup Snapshots(D, docs, s, n, r)) \subseteq old
  <2> DEFINE snaps == Snapshots(D, docs, s, n, r)
  <2>1. Bodies(Q) \subseteq old
    BY <1>1, <1>3, BodiesMonotone
  <2>2. Bodies(snaps) \subseteq old
    BY <1>3, BodiesOfSnapshots
  <2> HIDE DEF snaps
  <2>3. Bodies(Q \cup snaps) = Bodies(Q) \cup Bodies(snaps)
    BY BodiesJoin
  <2> QED
    BY <2>1, <2>2, <2>3 DEF snaps
<1>4. ASSUME NEW Q, NEW R, NEW S
      PROVE  Bodies(Q \cup R \cup S) = Bodies(Q) \cup Bodies(R) \cup Bodies(S)
  BY DEF Bodies
<1> HIDE DEF old
<1>5. SUFFICES /\ Bodies(diskQueue') \subseteq old \cup Carried(store'.ops)
               /\ Bodies(savedQueue') \subseteq old \cup Carried(store'.ops)
               /\ Bodies(queue') \subseteq old \cup Carried(store'.ops)
  <2>1. Bodies(Queued') = Bodies(diskQueue') \cup Bodies(savedQueue') \cup Bodies(queue')
    BY <1>4 DEF Queued
  <2> QED
    BY <2>1 DEF old
<1>6. CASE UNCHANGED <<diskQueue, savedQueue, queue>>
  BY <1>1, <1>6
<1>7. CASE SaveSnapshot
  BY <1>1, <1>7, BodiesOfEntries DEF SaveSnapshot, copyVars
<1>8. CASE SaveWrite
  BY <1>1, <1>2, <1>8 DEF SaveWrite, copyVars
<1>9. CASE StartRun
  BY <1>1, <1>9, BodiesOfEntries DEF StartRun, diskVars
<1>10. CASE LoadRun
  BY <1>1, <1>10, IInvFacts, BodiesOfMerged DEF LoadRun, diskVars
<1>11. CASE PullFails \/ FailAfterPush \/ Land
  BY <1>1, <1>2, <1>11 DEF PullFails, FailAfterPush, Land, EndRun, diskVars
<1>12. CASE Pull
  <2> DEFINE merged == runDocs \cup server
             docs == Healed(Open(merged), merged)
  <2>1. docs \subseteq runDocs \cup server \cup Starter
    BY HealedIs, IInvFacts
  <2> HIDE DEF docs
  <2>2. UNCHANGED <<diskQueue, savedQueue>>
    BY <1>12 DEF Pull, diskVars
  <2>3. \E Q \in SUBSET queue : \E D, s, n, r : queue' = Q \cup Snapshots(D, docs, s, n, r)
    BY <1>12 DEF Pull, docs
  <2> QED
    BY <1>1, <1>3, <2>1, <2>2, <2>3
<1>13. CASE Accept
  <2>1. queue' \subseteq queue /\ UNCHANGED <<diskQueue, savedQueue>>
    BY <1>13 DEF Accept, diskVars
  <2> QED
    BY <1>1, <2>1, BodiesMonotone
<1>14. CASE LoseRequest \/ LoseResponse
  <2>1. /\ \E q \in SUBSET queue : diskQueue' = q
        /\ queue' = {} /\ savedQueue' = savedQueue
    BY <1>14 DEF LoseRequest, LoseResponse, PushFailsWith, EndRun
  <2> QED
    BY <1>1, <1>2, <2>1, BodiesMonotone
<1>15. CASE Reject
  <2> DEFINE docs == Healed({x.doc : x \in request}, runDocs)
  <2>1. docs \subseteq runDocs \cup server \cup Starter
    BY HealedIs, IInvFacts
  <2> HIDE DEF docs
  <2>2. UNCHANGED <<diskQueue, savedQueue>>
    BY <1>15 DEF Reject, diskVars
  <2>3. \E Q \in SUBSET queue : \E D, s, n, r : queue' = Q \cup Snapshots(D, docs, s, n, r)
    BY <1>15 DEF Reject, Refused, docs
  <2> QED
    BY <1>1, <1>3, <2>1, <2>2, <2>3
<1>16. CASE RejectAgain
  <2> DEFINE docs == Healed({x.doc : x \in request}, runDocs)
  <2>1. docs \subseteq runDocs \cup server \cup Starter
    BY HealedIs, IInvFacts
  <2> HIDE DEF docs
  <2>2. \E Q \in SUBSET queue : \E D, s, n, r :
          PushFailsWith(Q \cup Snapshots(D, docs, s, n, r))
    BY <1>16 DEF RejectAgain, docs
  <2>3. /\ \E Q \in SUBSET queue : \E D, s, n, r : diskQueue' = Q \cup Snapshots(D, docs, s, n, r)
        /\ queue' = {} /\ savedQueue' = savedQueue
    BY <2>2 DEF PushFailsWith, EndRun
  <2> QED
    BY <1>1, <1>2, <1>3, <2>1, <2>3
<1>17. CASE PushDone
  BY <1>1, <1>17 DEF PushDone, copyVars
<1>18. \/ UNCHANGED <<diskQueue, savedQueue, queue>>
       \/ SaveSnapshot \/ SaveWrite \/ StartRun \/ LoadRun
       \/ PullFails \/ FailAfterPush \/ Land
       \/ Pull \/ Accept \/ LoseRequest \/ LoseResponse
       \/ Reject \/ RejectAgain \/ PushDone
  BY DEF Next, vars, diskVars, copyVars, ApplyLocal, RepairIndex, RemotePush, BuildRequest
<1> QED
  BY <1>6, <1>7, <1>8, <1>9, <1>10, <1>11, <1>12, <1>13, <1>14, <1>15, <1>16, <1>17,
     <1>18

LEMMA RunHolds ==
  ASSUME IInv, [Next]_vars
  PROVE  /\ runDocs' \subseteq runDocs \cup store.plain \cup server \cup Starter
         /\ server' \subseteq server \cup Bodies(Queued) \cup Remote \cup Starter
<1>1. Bodies(request) \subseteq Bodies(Queued)
  BY IInvFacts DEF Bodies, Queued
<1>2. store.crdt \subseteq store.plain
  BY IInvFacts DEF StoreInv
<1>3. runDocs' \subseteq runDocs \cup store.plain \cup server \cup Starter
  <2>1. CASE Pull
    BY <2>1, HealedIs, IInvFacts DEF Pull
  <2>2. CASE Reject
    BY <2>2, HealedIs, IInvFacts DEF Reject, Refused
  <2>3. CASE runDocs' = {} \/ runDocs' = runDocs \/ runDocs' = store.crdt
    BY <1>2, <2>3
  <2>4. Pull \/ Reject \/ runDocs' = {} \/ runDocs' = runDocs \/ runDocs' = store.crdt
    BY DEF Next, vars, diskVars, copyVars, ApplyLocal, RepairIndex, RemotePush,
           SaveSnapshot, SaveWrite, StartRun, LoadRun, PullFails, BuildRequest,
           Accept, LoseRequest, LoseResponse, PushFailsWith, EndRun, RejectAgain,
           PushDone, FailAfterPush, Land
  <2> QED
    BY <2>1, <2>2, <2>3, <2>4
<1>4. \/ server' = server
      \/ server' = server \cup Bodies(request)
      \/ \E e \in Remote \cup Starter : server' = server \cup {e}
  BY DEF Next, vars, diskVars, copyVars, ApplyLocal, RepairIndex, RemotePush,
         SaveSnapshot, SaveWrite, StartRun, LoadRun, PullFails, Pull, BuildRequest,
         Accept, LoseRequest, LoseResponse, PushFailsWith, Reject, RejectAgain,
         PushDone, FailAfterPush, Land
<1> QED
  BY <1>1, <1>3, <1>4

LEMMA SeenStep ==
  ASSUME DInv, [Next]_vars
  PROVE  DInv'
<1>1. IInv /\ Held \cap Local \subseteq SeenIn(store.plain)
  BY DEF DInv, Seen
<1>2. IInv'
  BY <1>1, Inductive
<1>3. Held' \subseteq Held \cup store.plain \cup store'.plain \cup Starter \cup Remote
  BY <1>1, QueuesHold, RunHolds, StoreCarries DEF Held
<1>4. store.plain \subseteq Edit /\ store'.plain \subseteq Edit
  BY <1>1, <1>2, IInvFacts DEF IInv, TypeOK, Store
<1>5. SeenIn(store.plain) \cap Local \subseteq SeenIn(store'.plain)
  BY <1>1, SeenStays
<1>6. /\ store.plain \subseteq SeenIn(store.plain)
      /\ store'.plain \subseteq SeenIn(store'.plain)
  BY <1>4 DEF SeenIn
<1>7. Held' \cap Local \subseteq SeenIn(store'.plain)
  BY <1>1, <1>3, <1>5, <1>6 DEF Local
<1> QED
  BY <1>2, <1>7 DEF DInv, Seen

\* The inductive invariant of the refinement: in the outbox's own invariant, this
\* device's edits are in no queue, run or server document before the user saw them.
THEOREM SeenInvariance == Spec => []DInv
<1>1. Init => DInv
  <2> SUFFICES ASSUME Init PROVE DInv
    OBVIOUS
  <2>1. Held = {}
    BY DEF Init, Held, Queued, Bodies, Carried
  <2> QED
    BY <2>1, InitIInv DEF DInv, Seen
<1>2. DInv /\ [Next]_vars => DInv'
  BY SeenStep
<1> QED
  BY <1>1, <1>2, PTL DEF Spec

(***************************************************************************)
(* The refinement.                                                         *)
(***************************************************************************)
Void == {e \in Edit : DocOf[e] \notin Bound(store.plain)}

\* What is owed and still has a scheme is carried by the queue or is what a flush
\* writes.
LEMMA OwedIs ==
  ASSUME IInv
  PROVE  /\ Owed \subseteq Edit
         /\ Local \cap (Carried(store.ops) \cup Unwritten(store)) \subseteq Owed
         /\ Owed \subseteq Carried(store.ops) \cup Unwritten(store) \cup Void
         /\ store.deferred = {} => Owed = Local \cap Carried(store.ops)
<1>1. store.plain \subseteq Edit /\ Local \subseteq Edit
  BY IInvFacts DEF Store, Local
<1>2. {e \in store.plain \ store.crdt : DocOf[e] \in store.deferred}
        \subseteq Unwritten(store) \cup Void
  BY <1>1 DEF Unwritten, Void
<1> QED
  BY <1>1, <1>2 DEF Owed, Unwritten

\* A scheme deleted for good stays deleted.
LEMMA VoidGrows ==
  ASSUME IInv, [Next]_vars
  PROVE  Void \subseteq Void' /\ Void' \in SUBSET Edit
BY StepKeepsVisible DEF Void

\* A flush forgets nothing that has somewhere to go, and owes nothing new.
LEMMA FlushSettles ==
  ASSUME IInv, IInv', store' = Flush(store)
  PROVE  Owed' \subseteq Owed /\ Owed \ Owed' \subseteq Void
<1>1. /\ store'.deferred = {}
      /\ Carried(store'.ops) = Carried(store.ops) \cup Unwritten(store)
  BY IInvFacts, FlushFacts, FlushInv
<1>2. Owed' = Local \cap Carried(store'.ops)
  BY <1>1 DEF Owed
<1>3. Owed \subseteq Local
  BY DEF Owed
<1> QED
  BY <1>1, <1>2, <1>3, OwedIs

LEMMA LandSettles ==
  ASSUME IInv, Land
  PROVE  Owed' \subseteq Owed /\ Owed \ Owed' \subseteq (server \cap Local) \cup Void
<1>1. /\ store'.deferred = {}
      /\ Carried(store'.ops) \subseteq Carried(store.ops) \cup Unwritten(store)
      /\ \A e \in Carried(store.ops) \cup Unwritten(store) :
           DocOf[e] \in Bound(store.plain) => e \in Carried(store'.ops) \cup server
  BY LandCarries
<1>2. Owed' = Local \cap Carried(store'.ops)
  BY <1>1 DEF Owed
<1>3. Owed \subseteq Local /\ Owed \subseteq Edit
  BY OwedIs DEF Owed
<1> QED
  BY <1>1, <1>2, <1>3, OwedIs DEF Void

\* An edit about to be made is neither owed nor delivered.
LEMMA NewEditIsNew ==
  ASSUME DInv, NEW e \in Local \ store.plain, DocOf[e] \in Bound(store.plain)
  PROVE  e \in Edit \ (Owed \cup (server \cap Local))
<1>1. e \in Edit
  BY DEF Local
<1>2. e \notin Held
  BY DEF DInv, Seen, SeenIn
<1> QED
  BY <1>1, <1>2 DEF Owed, Held

LEMMA ApplyLocalMakes ==
  ASSUME DInv, NEW e \in Edit, ApplyLocal(e)
  PROVE  /\ e \in Edit \ (Owed \cup (server \cap Local))
         /\ Owed' = Owed \cup {e}
<1>1. /\ e \in Local \ store.plain
      /\ DocOf[e] \in Bound(store.plain)
      /\ store'.plain = store.plain \cup {e}
      /\ store'.crdt = store.crdt
      /\ store'.deferred = store.deferred \cup {DocOf[e]}
      /\ store'.ops = store.ops \cup {[seq |-> store.next, ups |-> {}]}
  BY AppliedShows DEF DInv
<1>2. Carried(store'.ops) = Carried(store.ops)
  BY <1>1 DEF Carried
<1>3. e \notin store.crdt
  BY <1>1, IInvFacts DEF DInv, StoreInv
<1>4. \A f \in (store.plain \ store.crdt) \cap Local :
        DocOf[f] = DocOf[e] => DocOf[f] \in store.deferred
  BY <1>1, IInvFacts DEF DInv, StoreInv, Unwritten, Local
<1>5. Owed' = Owed \cup {e}
  BY <1>1, <1>2, <1>3, <1>4 DEF Owed
<1> QED
  BY <1>1, <1>5, NewEditIsNew

\* The edits deferred for a scheme deleted since are forgotten on the way.
LEMMA RepairIndexMakes ==
  ASSUME DInv, NEW e \in Edit, RepairIndex(e)
  PROVE  /\ e \in Edit \ (Owed \cup (server \cap Local))
         /\ e \in Owed' /\ Owed' \subseteq Owed \cup {e}
         /\ Owed \ Owed' \subseteq Void
<1> DEFINE fl == Flush(store)
           ed == Edited(fl, e)
<1>1. /\ e \in Local \ store.plain
      /\ DocOf[e] \in Bound(store.plain)
      /\ Good(ed)
      /\ ed = [plain |-> store.plain \cup {e}, crdt |-> store.crdt \cup Unwritten(store),
               deferred |-> {DocOf[e]}, since |-> fl.next, ops |-> fl.ops,
               next |-> fl.next]
      /\ store' = Flush(ed)
      /\ store'.deferred = {}
  BY RepairedShows DEF DInv
<1>2. Carried(fl.ops) = Carried(store.ops) \cup Unwritten(store)
  BY IInvFacts, FlushInv DEF DInv
<1>3. Carried(store'.ops) = Carried(ed.ops) \cup Unwritten(ed)
  <2> HIDE DEF ed
  <2> QED
    BY <1>1, FlushInv DEF Good
<1>4. StoreInv(fl) /\ Unwritten(fl) = {} /\ fl.plain = store.plain
      /\ fl.crdt = store.crdt \cup Unwritten(store)
  BY IInvFacts, FlushInv, FlushFacts DEF DInv
<1> HIDE DEF fl
<1>5. Unwritten(ed) \cap Local \subseteq {e}
  <2> SUFFICES ASSUME NEW f \in Local, f \in Unwritten(ed), f # e
               PROVE  FALSE
    OBVIOUS
  <2>1. /\ f \in ed.plain \ ed.crdt /\ DocOf[f] \in ed.deferred
    BY DEF Unwritten
  <2>2. f \in fl.plain \ fl.crdt /\ DocOf[f] = DocOf[e]
    BY <1>1, <1>4, <2>1
  <2>3. DocOf[f] \in Bound(fl.plain)
    BY <1>1, <1>4, <2>2
  <2> QED
    BY <1>4, <2>2, <2>3 DEF StoreInv, Local
<1>6. e \in Unwritten(ed)
  <2>1. e \notin store.crdt /\ Unwritten(store) \subseteq store.plain
    BY <1>1, IInvFacts DEF DInv, StoreInv, Unwritten
  <2>2. DocOf[e] \notin Unbinds[e]
    BY IndexAssumption
  <2>3. DocOf[e] \in Bound(store.plain \cup {e})
    BY <1>1, <2>2 DEF Bound
  <2> QED
    BY <1>1, <2>1, <2>3 DEF Unwritten
<1>7. Owed' = Local \cap (Carried(store.ops) \cup Unwritten(store) \cup Unwritten(ed))
  <2>1. Owed' = Local \cap Carried(store'.ops)
    BY <1>1 DEF Owed
  <2>2. ed.ops = fl.ops
    BY <1>1
  <2> HIDE DEF ed
  <2> QED
    BY <1>2, <1>3, <2>1, <2>2
<1> HIDE DEF ed
<1>8. Owed \subseteq Local
  BY DEF Owed
<1>9. /\ Local \cap (Carried(store.ops) \cup Unwritten(store)) \subseteq Owed
      /\ Owed \subseteq Carried(store.ops) \cup Unwritten(store) \cup Void
  BY OwedIs DEF DInv
<1> QED
  BY <1>1, <1>5, <1>6, <1>7, <1>8, <1>9, NewEditIsNew

\* What the server takes of this device's is owed to it, or has lost its scheme
\* meanwhile.
LEMMA ServerTakes ==
  ASSUME DInv, [Next]_vars
  PROVE  server \subseteq server'
         /\ server' \cap Local \subseteq (server \cap Local) \cup Owed \cup Void
<1>1. server \subseteq server'
  BY DEF Next, vars, diskVars, copyVars, ApplyLocal, RepairIndex, RemotePush,
         SaveSnapshot, SaveWrite, StartRun, LoadRun, PullFails, Pull, BuildRequest,
         Accept, LoseRequest, LoseResponse, PushFailsWith, Reject, RejectAgain,
         PushDone, FailAfterPush, Land
<1>2. Bodies(Queued) \cap Local \subseteq (server \cap Local) \cup Owed \cup Void
  <2> SUFFICES ASSUME NEW e \in Bodies(Queued) \cap Local, e \notin Void
               PROVE  e \in server \cup Owed
    OBVIOUS
  <2>1. e \in store.plain /\ DocOf[e] \in Bound(store.plain)
    BY DEF DInv, Seen, Held, SeenIn, Void, Local
  <2>2. e \in server \cup Carried(store.ops) \cup Unwritten(store)
    BY <2>1, IInvFacts DEF DInv, NoLostIn
  <2> QED
    BY <2>2, OwedIs DEF DInv
<1>3. server' \subseteq server \cup Bodies(Queued) \cup Remote \cup Starter
  BY RunHolds DEF DInv
<1> QED
  BY <1>1, <1>2, <1>3 DEF Local

\* The store changes only while the server stands still.
LEMMA StoreOrServer ==
  ASSUME [Next]_vars
  PROVE  store' = store \/ server' = server
BY DEF Next, vars, diskVars, copyVars, ApplyLocal, RepairIndex, RemotePush,
       SaveSnapshot, SaveWrite, StartRun, LoadRun, PullFails, Pull, BuildRequest,
       Accept, LoseRequest, LoseResponse, PushFailsWith, Reject, RejectAgain,
       PushDone, FailAfterPush, Land

LEMMA InitDelivers ==
  ASSUME Init
  PROVE  Delivery!Init
<1>1. Owed = {}
  BY DEF Init, Owed, Carried
<1>2. server \cap Local = {}
  BY DEF Init
<1>3. Void = {}
  BY EditAssumption, IndexAssumption DEF Init, Void, Bound
<1> QED
  BY <1>1, <1>2, <1>3 DEF Delivery!Init, Void

\* Every step of the outbox makes an edit, delivers or settles, or is none of
\* EditDelivery's.
LEMMA StepDelivers ==
  ASSUME DInv, [Next]_vars
  PROVE  [Delivery!Next]_(Delivery!vars)
<1> DEFINE delivered == server \cap Local
<1>1. Void \subseteq Void' /\ Void' \in SUBSET Edit
  BY VoidGrows DEF DInv
<1>2. IInv /\ IInv'
  BY Inductive DEF DInv
<1>3. CASE store' = store
  <2>1. Owed' = Owed /\ Void' = Void
    BY <1>3 DEF Owed, Void
  <2>2. Delivery!Deliver
    BY <2>1, ServerTakes DEF Delivery!Deliver, Void
  <2> QED
    BY <2>2 DEF Delivery!Next
<1>4. CASE server' = server /\ (store' = Flush(store) \/ Land)
  <2>1. Owed' \subseteq Owed /\ Owed \ Owed' \subseteq delivered \cup Void
    BY <1>2, <1>4, FlushSettles, LandSettles
  <2>2. Delivery!Settle
    BY <1>1, <1>4, <2>1 DEF Delivery!Settle, Delivery!Forgets, Void
  <2> QED
    BY <2>2 DEF Delivery!Next
<1>5. CASE server' = server /\ \E e \in Edit : ApplyLocal(e) \/ RepairIndex(e)
  <2>1. PICK e \in Edit : ApplyLocal(e) \/ RepairIndex(e)
    BY <1>5
  <2>2. /\ e \in Edit \ (Owed \cup delivered)
        /\ e \in Owed' /\ Owed' \subseteq Owed \cup {e}
        /\ Owed \ Owed' \subseteq delivered \cup Void
    BY <2>1, ApplyLocalMakes, RepairIndexMakes
  <2>3. Delivery!Make
    BY <1>1, <1>5, <2>2 DEF Delivery!Make, Delivery!Forgets, Void
  <2> QED
    BY <2>3 DEF Delivery!Next
<1> QED
  BY <1>3, <1>4, <1>5, StoreMoves, StoreOrServer

\* For every set of documents, edits, limits and faults: the device owes each
\* edit from the moment it is made and forgets it only once the server has it or
\* its scheme is deleted for good (flush_crdt, clear_pushed_crdt_edits_exact,
\* drop_unbound_pending_crdt_edits, replace_from_sync).
THEOREM ImplementsDelivery == Spec => DeliversSafely
<1>1. Init => Delivery!Init
  BY InitDelivers
<1>2. DInv /\ [Next]_vars => [Delivery!Next]_(Delivery!vars)
  BY StepDelivers
<1> QED
  BY <1>1, <1>2, SeenInvariance, PTL DEF Spec, DeliversSafely, Delivery!Safe

(***************************************************************************)
(* The inductive invariant. A starter's place is checked by the server     *)
(* (Valid); everything else an edit builds on has to precede it.           *)
(***************************************************************************)
Needs(e) == Prior[e] \ Starter
Closed(S) == \A e \in S : Needs(e) \subseteq S

\* What an operation's edits build on is on the server, or is carried by it or
\* by an earlier operation.
UpTo(O, n) == Carried({o \in O : o.seq <= n})
OpsCausal(st) ==
  \A o \in st.ops : \A e \in o.ups : Needs(e) \subseteq server \cup UpTo(st.ops, o.seq)
StoreCausal(st) ==
  /\ Closed(st.plain)
  /\ Closed(st.crdt)
  /\ st.plain \cap Remote \subseteq server
  /\ Carried(st.ops) \subseteq st.crdt
  /\ st.next > 0 /\ (st.deferred # {} => st.since > 0)
  /\ \A o \in st.ops : o.seq > 0
  /\ OpsCausal(st)

\* The same for the entries of a queue, document by document.
Upto(q, x) == Bodies({y \in q : y.doc = x.doc /\ (y = x \/ y.pos < x.pos)})
Supplied(q, S) ==
  \A x \in q : \A e \in x.body :
    DocOf[e] = x.doc /\ Needs(e) \subseteq S \cup Upto(q, x)

\* What the store queued before the run took its snapshot: the run's queue until
\* it is merged with the one on disk; afterwards still to be pushed, or pushed,
\* where the run's workspace has a scheme for it.
RunCausal(st) ==
  /\ phase = "starting" => queue = Entries(Earlier(st))
  /\ phase = "pushed" => queue = {}
  /\ Working =>
       /\ Closed(runDocs)
       /\ runDocs \cap Remote \subseteq server
       /\ st.crdt \subseteq runDocs \cup Later(st)
       /\ Carried(Earlier(st)) \subseteq runDocs
       /\ \A e \in Carried(Earlier(st)) :
            DocOf[e] \in Bound(runDocs) => e \in server \cup Bodies(queue)

\* A request takes the entries of a document from the first on.
RequestWhole ==
  \A x \in request, y \in queue : x.doc = y.doc /\ y.pos < x.pos => y \in request

Causal ==
  /\ ServerCausal
  /\ StoreCausal(store)
  /\ Supplied(diskQueue, server)
  /\ Supplied(savedQueue, server)
  /\ Supplied(queue, server)
  /\ RunCausal(store)
  /\ RequestWhole

CInv == IInv /\ Causal

(***************************************************************************)
(* The operators of the store.                                             *)
(***************************************************************************)
LEMMA NeedsAre ==
  ASSUME NEW e \in Edit
  PROVE  /\ Needs(e) \subseteq Edit \ Starter
         /\ \A p \in Needs(e) : DocOf[p] = DocOf[e]
BY EditAssumption, PriorAssumption DEF Needs

LEMMA ClosedUnion ==
  ASSUME NEW S, NEW T, Closed(S), Closed(T)
  PROVE  Closed(S \cup T)
BY DEF Closed

\* Starters build on starters only.
LEMMA ClosedStarter ==
  ASSUME NEW S, NEW T, Closed(S), S \subseteq T, T \subseteq S \cup Starter
  PROVE  Closed(T)
BY PriorAssumption DEF Closed, Needs

LEMMA UpToGrows ==
  ASSUME NEW O, NEW P, NEW n,
         \A o \in O : \E p \in P : p.seq = o.seq /\ o.ups \subseteq p.ups
  PROVE  UpTo(O, n) \subseteq UpTo(P, n)
BY DEF UpTo, Carried

\* flush_crdt writes an edit with or after what it builds on.
LEMMA FlushCausal ==
  ASSUME TypeOK, NEW st, StoreInv(st), NoLostIn(st), StoreCausal(st)
  PROVE  StoreCausal(Flush(st))
<1> DEFINE fl == Flush(st)
<1>1. /\ fl \in Store
      /\ fl.plain = st.plain
      /\ fl.crdt = st.crdt \cup Unwritten(st)
      /\ fl.deferred = {}
      /\ st.next <= fl.next
      /\ \A o \in fl.ops : o \in st.ops \/ (st.deferred # {} /\ o.seq >= st.since)
      /\ \A p \in st.ops : \E o \in fl.ops : o.seq = p.seq /\ p.ups \subseteq o.ups
      /\ \A o \in fl.ops : o.ups \subseteq Carried(st.ops) \cup Unwritten(st)
      /\ \A o \in fl.ops \ st.ops : \A p \in fl.ops : p.seq <= o.seq
  BY FlushFacts
<1>2. Carried(fl.ops) = Carried(st.ops) \cup Unwritten(st)
  BY FlushInv
<1> HIDE DEF fl
<1>3. /\ st \in Store /\ st.plain \subseteq Edit /\ st.crdt \subseteq st.plain
      /\ st.next \in Nat /\ st.since \in Nat
  BY DEF StoreInv, Store
<1>4. \A e \in Unwritten(st) : Needs(e) \subseteq fl.crdt /\ Needs(e) \subseteq st.plain
  <2> SUFFICES ASSUME NEW e \in Unwritten(st), NEW p \in Needs(e)
               PROVE  p \in st.crdt \cup Unwritten(st) /\ p \in st.plain
    BY <1>1
  <2>1. e \in st.plain /\ DocOf[e] \in st.deferred \cap Bound(st.plain)
    BY DEF Unwritten
  <2>2. p \in st.plain /\ DocOf[p] = DocOf[e]
    BY <1>3, <2>1, NeedsAre DEF StoreCausal, Closed
  <2> QED
    BY <2>1, <2>2 DEF Unwritten
<1>5. Closed(fl.crdt)
  BY <1>1, <1>4 DEF StoreCausal, Closed
<1>6. \A o \in fl.ops : o.seq > 0
  BY <1>1, <1>3 DEF StoreCausal, Store, Operation
<1>7. OpsCausal(fl)
  <2> SUFFICES ASSUME NEW o \in fl.ops, NEW e \in o.ups, NEW p \in Needs(e), p \notin server
               PROVE  p \in UpTo(fl.ops, o.seq)
    BY DEF OpsCausal
  <2>1. CASE o \in st.ops
    <3>1. p \in UpTo(st.ops, o.seq)
      BY <2>1 DEF StoreCausal, OpsCausal
    <3> QED
      BY <1>1, <3>1, UpToGrows
  <2>2. CASE o \notin st.ops
    <3>1. UpTo(fl.ops, o.seq) = Carried(fl.ops)
      BY <1>1, <2>2 DEF UpTo
    <3>2. CASE e \in Carried(st.ops)
      <4>1. p \in Carried(st.ops)
        BY <3>2 DEF StoreCausal, OpsCausal, UpTo, Carried
      <4> QED
        BY <1>2, <3>1, <4>1
    <3>3. CASE e \in Unwritten(st)
      <4>1. p \in st.plain /\ p \notin Starter /\ DocOf[p] = DocOf[e] /\ e \in Edit
        BY <1>3, <1>4, <3>3, NeedsAre DEF Unwritten
      <4>2. DocOf[p] \in Bound(st.plain)
        BY <3>3, <4>1 DEF Unwritten
      <4>3. p \in Local
        BY <1>3, <4>1 DEF StoreCausal, Local
      <4> QED
        BY <1>2, <3>1, <4>1, <4>2, <4>3 DEF NoLostIn
    <3> QED
      BY <1>1, <3>2, <3>3
  <2> QED
    BY <2>1, <2>2
<1>8. fl.next > 0
  BY <1>1, <1>3 DEF StoreCausal, Store
<1> QED
  BY <1>1, <1>2, <1>5, <1>6, <1>7, <1>8 DEF StoreCausal, fl

LEMMA EditedCausal ==
  ASSUME NEW st, st \in Store, StoreCausal(st), NEW e \in Local, Needs(e) \subseteq st.plain
  PROVE  StoreCausal(Edited(st, e))
<1> DEFINE ed == Edited(st, e)
<1>1. ed = [plain |-> st.plain \cup {e}, crdt |-> st.crdt,
            deferred |-> st.deferred \cup {DocOf[e]},
            since |-> IF st.deferred = {} THEN st.next ELSE st.since,
            ops |-> st.ops, next |-> st.next]
  BY EditedIs
<1> HIDE DEF ed
<1>2. Closed(ed.plain) /\ ed.plain \cap Remote \subseteq server
  BY <1>1 DEF StoreCausal, Closed, Local
<1>3. ed.since > 0
  BY <1>1 DEF StoreCausal
<1>4. OpsCausal(ed)
  BY <1>1 DEF StoreCausal, OpsCausal
<1> QED
  BY <1>1, <1>2, <1>3, <1>4 DEF StoreCausal, ed

LEMMA NewOpCausal ==
  ASSUME NEW st, st \in Store, StoreCausal(st)
  PROVE  StoreCausal(NewOp(st, {}))
<1> DEFINE new == NewOp(st, {})
           o1 == [seq |-> st.next, ups |-> {}]
<1>1. new = [plain |-> st.plain, crdt |-> st.crdt, deferred |-> st.deferred,
             since |-> st.since, ops |-> st.ops \cup {o1}, next |-> st.next + 1]
  BY NewOpIs
<1>2. o1.seq = st.next /\ o1.ups = {} /\ st.next \in Nat
  BY DEF Store
<1> HIDE DEF new, o1
<1>3. Carried(new.ops) = Carried(st.ops)
  BY <1>1, <1>2 DEF Carried
<1>4. OpsCausal(new)
  BY <1>1, <1>2 DEF StoreCausal, OpsCausal, UpTo, Carried
<1> QED
  BY <1>1, <1>2, <1>3, <1>4 DEF StoreCausal, new

\* Taking edits from the queue, when what is left still precedes what builds on
\* it.
LEMMA WithoutCausal ==
  ASSUME NEW st, StoreInv(st), StoreCausal(st), NEW gone,
         \A o, q \in st.ops : \A e \in o.ups, p \in q.ups :
           /\ p \in Needs(e) /\ q.seq <= o.seq
           /\ <<q.seq, p>> \in gone /\ <<o.seq, e>> \notin gone
           => p \in server
  PROVE  StoreCausal(Without(st, gone))
<1> DEFINE wo == Without(st, gone)
<1>1. /\ wo.plain = st.plain
      /\ wo.crdt = st.crdt
      /\ wo.deferred = st.deferred
      /\ wo.since = st.since
      /\ wo.next = st.next
      /\ \A o \in wo.ops : \E p \in st.ops :
           /\ o.seq = p.seq /\ o.ups \subseteq p.ups
           /\ \A e \in o.ups : <<p.seq, e>> \notin gone
      /\ \A p \in st.ops : \A e \in p.ups : <<p.seq, e>> \notin gone =>
           \E o \in wo.ops : o.seq = p.seq /\ e \in o.ups
  BY WithoutFacts
<1> HIDE DEF wo
<1>2. Carried(wo.ops) \subseteq Carried(st.ops) /\ \A o \in wo.ops : o.seq > 0
  BY <1>1 DEF Carried, StoreCausal
<1>3. OpsCausal(wo)
  <2> SUFFICES ASSUME NEW o \in wo.ops, NEW e \in o.ups, NEW p \in Needs(e), p \notin server
               PROVE  p \in UpTo(wo.ops, o.seq)
    BY DEF OpsCausal
  <2>1. PICK o2 \in st.ops : o.seq = o2.seq /\ e \in o2.ups /\ <<o2.seq, e>> \notin gone
    BY <1>1
  <2>2. PICK q2 \in st.ops : q2.seq <= o2.seq /\ p \in q2.ups
    BY <2>1 DEF StoreCausal, OpsCausal, UpTo, Carried
  <2>3. <<q2.seq, p>> \notin gone
    BY <2>1, <2>2
  <2>4. PICK q \in wo.ops : q.seq = q2.seq /\ p \in q.ups
    BY <1>1, <2>2, <2>3
  <2> QED
    BY <2>1, <2>2, <2>4 DEF UpTo, Carried
<1> QED
  BY <1>1, <1>2, <1>3 DEF StoreCausal, wo

LEMMA ClearPushedCausal ==
  ASSUME NEW st, StoreInv(st), AckedIn(st), StoreCausal(st)
  PROVE  StoreCausal(ClearPushed(st))
<1> DEFINE gone == {p \in Stamped(st) :
                      [op |-> p[1], seq |-> p[1], doc |-> DocOf[p[2]]] \in pushed}
<1>1. ClearPushed(st) = st \/ ClearPushed(st) = Without(st, gone)
  BY DEF ClearPushed
<1>2. ASSUME NEW q \in st.ops, NEW p \in q.ups, <<q.seq, p>> \in gone
      PROVE  p \in server
  <2> DEFINE k == [op |-> q.seq, seq |-> q.seq, doc |-> DocOf[p]]
  <2>1. k \in pushed
    BY <1>2
  <2>2. k.op = q.seq /\ k.doc = DocOf[p]
    OBVIOUS
  <2> HIDE DEF k
  <2>3. In(q.ups, k.doc) \subseteq server
    BY <2>1, <2>2 DEF AckedIn
  <2> QED
    BY <2>2, <2>3 DEF In
<1> HIDE DEF gone
<1>3. StoreCausal(Without(st, gone))
  BY <1>2, WithoutCausal
<1> QED
  BY <1>1, <1>3

(***************************************************************************)
(* The queues.                                                             *)
(***************************************************************************)
LEMMA UptoGrows ==
  ASSUME NEW p, NEW q, p \subseteq q, NEW x
  PROVE  Upto(p, x) \subseteq Upto(q, x)
BY DEF Upto, Bodies

LEMMA QueueJoin ==
  ASSUME NEW S, NEW p, NEW q, Supplied(p, S), Supplied(q, S)
  PROVE  Supplied(p \cup q, S)
<1>1. \A x : /\ Upto(p, x) \subseteq Upto(p \cup q, x)
             /\ Upto(q, x) \subseteq Upto(p \cup q, x)
  BY UptoGrows
<1> QED
  BY <1>1 DEF Supplied

\* Taking whole documents out of a queue, or entries the S has.
LEMMA QueuePart ==
  ASSUME NEW S, NEW q, Supplied(q, S), NEW r, r \subseteq q,
         \A x \in r, y \in q : y.doc = x.doc => y \in r \/ y.body \subseteq S
  PROVE  Supplied(r, S)
<1> SUFFICES ASSUME NEW x \in r, NEW e \in x.body
             PROVE  DocOf[e] = x.doc /\ Needs(e) \subseteq S \cup Upto(r, x)
  BY DEF Supplied
<1>1. DocOf[e] = x.doc /\ Needs(e) \subseteq S \cup Upto(q, x)
  BY DEF Supplied
<1>2. Upto(q, x) \subseteq S \cup Upto(r, x)
  BY DEF Upto, Bodies
<1> QED
  BY <1>1, <1>2

LEMMA EntriesCausal ==
  ASSUME NEW st, StoreInv(st), StoreCausal(st)
  PROVE  Supplied(Entries(st.ops), server)
<1>1. \A o \in st.ops : o.seq \in Nat /\ o.ups \subseteq Edit
  BY DEF StoreInv, Store, Operation
<1> SUFFICES ASSUME NEW x \in Entries(st.ops), NEW e \in x.body, NEW p \in Needs(e),
                    p \notin server
             PROVE  p \in Upto(Entries(st.ops), x) /\ DocOf[e] = x.doc
  <2>1. ASSUME NEW x \in Entries(st.ops), NEW e \in x.body
        PROVE  DocOf[e] = x.doc
    BY DEF Entries, In
  <2> QED
    BY <2>1 DEF Supplied
<1>2. PICK o \in st.ops, d \in Doc :
        x = [op |-> o.seq, seq |-> o.seq, doc |-> d, body |-> In(o.ups, d),
             pos |-> o.seq]
  BY DEF Entries
<1>3. e \in o.ups /\ DocOf[e] = d
  BY <1>2 DEF In
<1>4. PICK q \in st.ops : q.seq <= o.seq /\ p \in q.ups
  BY <1>3 DEF StoreCausal, OpsCausal, UpTo, Carried
<1>5. DocOf[p] = d
  BY <1>1, <1>3, NeedsAre
<1> DEFINE y == [op |-> q.seq, seq |-> q.seq, doc |-> d, body |-> In(q.ups, d),
                 pos |-> q.seq]
<1>6. p \in y.body
  BY <1>4, <1>5 DEF In
<1>7. y \in Entries(st.ops)
  BY <1>6 DEF Entries
<1>8. y = x \/ y.pos < x.pos
  <2>1. CASE q.seq = o.seq
    <3>1. q = o
      BY <2>1 DEF StoreInv
    <3> QED
      BY <1>2, <3>1
  <2>2. CASE q.seq # o.seq
    BY <1>1, <1>2, <1>4, <2>2
  <2> QED
    BY <2>1, <2>2
<1>9. y.doc = x.doc
  BY <1>2
<1> HIDE DEF y
<1> QED
  BY <1>2, <1>3, <1>6, <1>7, <1>8, <1>9 DEF Upto, Bodies

\* merge_pending: what the run took of the store goes behind what is on disk,
\* where the disk does not hold it already.
LEMMA MergedCausal ==
  ASSUME NEW S, NEW q, q \subseteq Entry, Supplied(q, S),
         NEW new, new \subseteq Entry, Supplied(new, S),
         \A x \in new : x.pos > 0,
         \A x \in q, y \in new : KeyOf(x) = KeyOf(y) => y.body \subseteq x.body,
         NEW n \in LastPos(q)
  PROVE  Supplied(Merged(q, new, n), S)
<1> DEFINE m == Merged(q, new, n)
           at(y) == [y EXCEPT !.pos = n + @]
<1>1. n \in Nat /\ \A x \in q : x.pos <= n
  BY LastIsNat DEF LastPos
<1>2. \A y \in new : /\ at(y).doc = y.doc /\ at(y).body = y.body
                     /\ at(y).pos = n + y.pos /\ y.pos \in Nat
  BY DEF Entry
<1>3. q \subseteq m /\ \A y \in new : (\A z \in q : KeyOf(z) # KeyOf(y)) => at(y) \in m
  BY DEF Merged
<1>4. \A x \in m : x \in q \/ \E y \in new : x = at(y)
  BY DEF Merged
<1>5. \A x \in q : x.pos \in Nat
  BY DEF Entry
<1> HIDE DEF m, at
<1>6. SUFFICES ASSUME NEW x \in m, NEW e \in x.body
               PROVE  DocOf[e] = x.doc /\ Needs(e) \subseteq S \cup Upto(m, x)
  BY DEF Supplied, m
<1>7. CASE x \in q
  <2>1. DocOf[e] = x.doc /\ Needs(e) \subseteq S \cup Upto(q, x)
    BY <1>6, <1>7 DEF Supplied
  <2> QED
    BY <1>3, <2>1, UptoGrows
<1>8. CASE x \notin q
  <2>1. PICK y \in new : x = at(y)
    BY <1>4, <1>8
  <2>2. DocOf[e] = x.doc /\ Needs(e) \subseteq S \cup Upto(new, y)
    BY <1>2, <1>6, <2>1 DEF Supplied
  <2>3. ASSUME NEW p \in Upto(new, y)
        PROVE  p \in Upto(m, x)
    <3>1. PICK z \in new : z.doc = y.doc /\ (z = y \/ z.pos < y.pos) /\ p \in z.body
      BY <2>3 DEF Upto, Bodies
    <3>2. CASE \A w \in q : KeyOf(w) # KeyOf(z)
      <4>1. at(z) \in m /\ at(z).doc = x.doc /\ p \in at(z).body
        BY <1>2, <1>3, <2>1, <3>1, <3>2
      <4>2. at(z) = x \/ at(z).pos < x.pos
        BY <1>1, <1>2, <2>1, <3>1
      <4> QED
        BY <4>1, <4>2 DEF Upto, Bodies
    <3>3. CASE \E w \in q : KeyOf(w) = KeyOf(z)
      <4>1. PICK w \in q : KeyOf(w) = KeyOf(z)
        BY <3>3
      <4>2. p \in w.body /\ w.doc = z.doc
        BY <3>1, <4>1 DEF KeyOf
      <4>3. w \in m /\ w.doc = x.doc
        BY <1>2, <1>3, <2>1, <3>1, <4>2
      <4>4. w.pos < x.pos
        <5>1. x.pos = n + y.pos /\ y.pos > 0 /\ y.pos \in Nat
          BY <1>2, <2>1
        <5> QED
          BY <1>1, <1>5, <5>1
      <4> QED
        BY <4>2, <4>3, <4>4 DEF Upto, Bodies
    <3> QED
      BY <3>2, <3>3
  <2> QED
    BY <2>2, <2>3
<1> QED
  BY <1>7, <1>8

\* A snapshot of a closed set of edits needs no other entry.
LEMMA SnapshotsCausal ==
  ASSUME NEW S, NEW D, NEW docs, docs \subseteq Edit, Closed(docs), NEW s, NEW n, NEW r
  PROVE  Supplied(Snapshots(D, docs, s, n, r), S)
<1> DEFINE snaps == Snapshots(D, docs, s, n, r)
<1>1. \A x \in snaps : x.body = In(docs, x.doc)
  BY DEF Snapshots
<1> HIDE DEF snaps
<1> SUFFICES ASSUME NEW x \in snaps, NEW e \in x.body
             PROVE  DocOf[e] = x.doc /\ Needs(e) \subseteq Upto(snaps, x)
  BY DEF Supplied, snaps
<1>2. e \in docs /\ DocOf[e] = x.doc
  BY <1>1 DEF In
<1>3. Needs(e) \subseteq x.body
  BY <1>1, <1>2, NeedsAre DEF Closed, In
<1> QED
  BY <1>2, <1>3 DEF Upto, Bodies

\* The request in flight takes with each edit all it builds on: the S checks
\* the starters, the order of the queue gives the rest.
LEMMA RequestCausal ==
  ASSUME request \subseteq queue, queue \subseteq Entry, Supplied(queue, server),
         RequestWhole, Valid(request), ServerCausal
  PROVE  \A e \in server \cup Bodies(request) :
           Prior[e] \subseteq server \cup Bodies(request)
<1>1. ASSUME NEW e \in server
      PROVE  Prior[e] \subseteq server
  BY <1>1 DEF ServerCausal
<1>2. ASSUME NEW x \in request, NEW e \in x.body, NEW p \in Prior[e]
      PROVE  p \in server \cup Bodies(request)
  <2>1. e \in Edit /\ x.doc \in Doc
    BY <1>2 DEF Entry
  <2>2. DocOf[e] = x.doc /\ Needs(e) \subseteq server \cup Upto(queue, x)
    BY <1>2 DEF Supplied
  <2>3. CASE p \in Starter
    <3>1. DocOf[p] = x.doc /\ p \in Edit
      BY <1>2, <2>1, <2>2, EditAssumption, PriorAssumption
    <3>2. In(Starter, x.doc) \subseteq server \cup Bodies(Pending(request, x.doc))
      BY <1>2 DEF Valid, Populated
    <3>3. p \in In(Starter, x.doc)
      BY <2>3, <3>1 DEF In
    <3> QED
      BY <3>2, <3>3 DEF Bodies, Pending
  <2>4. CASE p \notin Starter
    <3>1. p \in server \cup Upto(queue, x)
      BY <1>2, <2>2, <2>4 DEF Needs
    <3>2. CASE p \in Upto(queue, x)
      <4>1. PICK y \in queue : y.doc = x.doc /\ (y = x \/ y.pos < x.pos) /\ p \in y.body
        BY <3>2 DEF Upto, Bodies
      <4>2. y \in request
        BY <1>2, <4>1 DEF RequestWhole
      <4> QED
        BY <4>1, <4>2 DEF Bodies
    <3> QED
      BY <3>1, <3>2
  <2> QED
    BY <2>3, <2>4
<1> QED
  BY <1>1, <1>2 DEF Bodies

(***************************************************************************)
(* The steps.                                                              *)
(***************************************************************************)
LEMMA CausalFacts ==
  ASSUME CInv
  PROVE  /\ IInv /\ ServerCausal /\ StoreCausal(store) /\ RunCausal(store)
         /\ Supplied(diskQueue, server) /\ Supplied(savedQueue, server)
         /\ Supplied(queue, server) /\ RequestWhole
BY DEF CInv, Causal

LEMMA SuppliedGrows ==
  ASSUME NEW q, NEW S, NEW T, S \subseteq T, Supplied(q, S)
  PROVE  Supplied(q, T)
BY DEF Supplied

LEMMA SuppliedEmpty ==
  ASSUME NEW S
  PROVE  Supplied({}, S)
BY DEF Supplied

\* The server has grown while the store stood still, or the store has moved.
LEMMA StoreCausalStays ==
  ASSUME StoreCausal(store), store' = store, server \subseteq server'
  PROVE  StoreCausal(store)'
BY DEF StoreCausal, OpsCausal

LEMMA StoreCausalMoves ==
  ASSUME StoreCausal(store'), server' = server
  PROVE  StoreCausal(store)'
BY DEF StoreCausal, OpsCausal

\* The end of a run leaves nothing to say of the run.
LEMMA EndCausal ==
  ASSUME EndRun, ServerCausal', StoreCausal(store)',
         Supplied(diskQueue', server'), Supplied(savedQueue', server')
  PROVE  Causal'
<1>1. phase' = "idle" /\ queue' = {} /\ request' = {}
  BY DEF EndRun
<1>2. RunCausal(store)' /\ RequestWhole'
  BY <1>1 DEF RunCausal, Working, RequestWhole
<1> QED
  BY <1>1, <1>2, SuppliedEmpty DEF Causal

\* A step that moves the store alone.
LEMMA MoveCausal ==
  ASSUME CInv, StoreCausal(store'), RunCausal(store'),
         UNCHANGED <<diskVars, phase, copyVars, request, server>>
  PROVE  Causal'
<1>1. StoreCausal(store)' /\ ServerCausal'
  BY CausalFacts, StoreCausalMoves DEF ServerCausal
<1>2. RunCausal(store)' /\ RequestWhole'
  BY CausalFacts DEF RunCausal, Working, Later, Earlier, RequestWhole, copyVars
<1> QED
  BY <1>1, <1>2, CausalFacts DEF Causal, diskVars, copyVars

\* What a flush, an edit and an operation leave of what a run needs.
LEMMA FlushRun ==
  ASSUME TypeOK, NEW st, StoreInv(st), RunFits(st), RunCausal(st)
  PROVE  RunCausal(Flush(st))
<1>1. CASE phase = "idle"
  BY <1>1 DEF RunCausal, Working
<1>2. CASE phase # "idle"
  <2> DEFINE fl == Flush(st)
  <2>1. fl.crdt = st.crdt \cup Unwritten(st)
    BY FlushFacts
  <2>2. /\ Unwritten(st) \subseteq Later(fl)
        /\ Later(st) \subseteq Later(fl)
        /\ Earlier(fl) = Earlier(st)
    BY <1>2, FlushLater
  <2> HIDE DEF fl
  <2> QED
    BY <2>1, <2>2 DEF RunCausal, fl
<1> QED
  BY <1>1, <1>2

LEMMA EditedRun ==
  ASSUME NEW st, st \in Store, RunCausal(st), NEW e
  PROVE  RunCausal(Edited(st, e))
<1>1. Edited(st, e).crdt = st.crdt /\ Edited(st, e).ops = st.ops
  BY EditedIs
<1>2. Later(Edited(st, e)) = Later(st) /\ Earlier(Edited(st, e)) = Earlier(st)
  BY <1>1 DEF Later, Earlier
<1>3. RunCausal(st)
  OBVIOUS
<1> QED
  BY ONLY <1>1, <1>2, <1>3 DEF RunCausal

LEMMA NewOpRun ==
  ASSUME TypeOK, NEW st, st \in Store, RunFits(st), RunCausal(st)
  PROVE  RunCausal(NewOp(st, {}))
<1> DEFINE new == NewOp(st, {})
           o1 == [seq |-> st.next, ups |-> {}]
<1>1. new.crdt = st.crdt /\ new.ops = st.ops \cup {o1}
  <2>1. new = [plain |-> st.plain, crdt |-> st.crdt, deferred |-> st.deferred,
               since |-> st.since, ops |-> st.ops \cup {o1}, next |-> st.next + 1]
    BY NewOpIs, Zenon
  <2> HIDE DEF new, o1
  <2>2. QED
    BY ONLY <2>1
<1>2. o1.seq = st.next /\ o1.ups = {} /\ st.next \in Nat /\ watermark \in Nat
  BY DEF Store, TypeOK
<1> HIDE DEF new, o1
<1>3. phase # "idle" => Earlier(new) = Earlier(st)
  BY <1>1, <1>2 DEF Earlier, RunFits
<1>4. Later(st) \subseteq Later(new)
  BY <1>1 DEF Later
<1> QED
  BY <1>1, <1>3, <1>4 DEF RunCausal, Working, new

LEMMA ApplyLocalCausal ==
  ASSUME CInv, NEW e \in Edit, ApplyLocal(e)
  PROVE  Causal'
<1> DEFINE ed == Edited(store, e)
<1>1. /\ e \in Local \ store.plain /\ Needs(e) \subseteq store.plain
      /\ store' = NewOp(ed, {})
      /\ UNCHANGED <<diskVars, phase, copyVars, request, server>>
  BY DEF ApplyLocal, CanEdit, Applied, Needs
<1>2. TypeOK /\ Good(store) /\ store \in Store
  BY CausalFacts, IInvFacts DEF IInv
<1>3. Good(ed)
  BY <1>1, <1>2, EditedGood
<1>4. StoreCausal(ed) /\ RunCausal(ed)
  BY <1>1, <1>2, CausalFacts, EditedCausal, EditedRun
<1> HIDE DEF ed
<1>5. ed \in Store /\ RunFits(ed)
  BY <1>3 DEF Good, StoreInv
<1>6. StoreCausal(store') /\ RunCausal(store')
  BY <1>1, <1>2, <1>4, <1>5, NewOpCausal, NewOpRun
<1> QED
  BY <1>1, <1>6, MoveCausal

LEMMA RepairIndexCausal ==
  ASSUME CInv, NEW e \in Edit, RepairIndex(e)
  PROVE  Causal'
<1> DEFINE fl == Flush(store)
           ed == Edited(fl, e)
<1>1. /\ e \in Local \ store.plain /\ Needs(e) \subseteq store.plain
      /\ store' = Flush(ed)
      /\ UNCHANGED <<diskVars, phase, copyVars, request, server>>
  BY DEF RepairIndex, CanEdit, Repaired, Needs
<1>2. TypeOK /\ Good(store) /\ StoreInv(store) /\ NoLostIn(store) /\ RunFits(store)
  BY CausalFacts, IInvFacts DEF IInv
<1>3. Good(fl) /\ fl \in Store /\ fl.plain = store.plain
  BY <1>2, FlushGood, FlushFacts
<1>4. StoreCausal(fl) /\ RunCausal(fl)
  BY <1>2, CausalFacts, FlushCausal, FlushRun
<1> HIDE DEF fl
<1>5. Good(ed)
  BY <1>1, <1>2, <1>3, EditedGood
<1>6. StoreCausal(ed) /\ RunCausal(ed)
  BY <1>1, <1>3, <1>4, EditedCausal, EditedRun
<1> HIDE DEF ed
<1>7. StoreCausal(store') /\ RunCausal(store')
  BY <1>1, <1>2, <1>5, <1>6, FlushCausal, FlushRun DEF Good
<1> QED
  BY <1>1, <1>7, MoveCausal

LEMMA RemotePushCausal ==
  ASSUME CInv, NEW e \in Edit, RemotePush(e)
  PROVE  Causal'
<1>1. /\ Prior[e] \subseteq server /\ server' = server \cup {e}
      /\ UNCHANGED <<store, diskQueue, savedQueue, phase, queue, runDocs, watermark,
                     request>>
  BY DEF RemotePush, diskVars, copyVars
<1>2. ServerCausal'
  BY <1>1, CausalFacts DEF ServerCausal
<1>3. StoreCausal(store)'
  BY <1>1, CausalFacts, StoreCausalStays
<1>4. /\ Supplied(diskQueue', server') /\ Supplied(savedQueue', server')
      /\ Supplied(queue', server')
  BY <1>1, CausalFacts, SuppliedGrows
<1>5. RunCausal(store)' /\ RequestWhole'
  BY <1>1, CausalFacts DEF RunCausal, Working, Later, Earlier, RequestWhole
<1> QED
  BY <1>2, <1>3, <1>4, <1>5 DEF Causal

LEMMA SaveCausal ==
  ASSUME CInv, SaveSnapshot \/ SaveWrite
  PROVE  Causal'
<1>1. CASE SaveSnapshot
  <2> DEFINE fl == Flush(store)
  <2>1. /\ phase = "idle" /\ store' = fl /\ savedQueue' = Entries(fl.ops)
        /\ UNCHANGED <<diskQueue, phase, queue, request, server>>
    BY <1>1 DEF SaveSnapshot, copyVars
  <2>2. StoreInv(fl) /\ StoreCausal(fl)
    BY CausalFacts, IInvFacts, FlushInv, FlushCausal DEF IInv
  <2> HIDE DEF fl
  <2>3. Supplied(savedQueue', server')
    BY <2>1, <2>2, EntriesCausal
  <2>4. StoreCausal(store)' /\ ServerCausal'
    BY <2>1, <2>2, CausalFacts, StoreCausalMoves DEF ServerCausal
  <2>5. RunCausal(store)' /\ RequestWhole'
    BY <2>1, CausalFacts DEF RunCausal, Working, RequestWhole
  <2> QED
    BY <2>1, <2>3, <2>4, <2>5, CausalFacts DEF Causal
<1>2. CASE SaveWrite
  <2>1. /\ diskQueue' = savedQueue /\ savedQueue' = {}
        /\ UNCHANGED <<store, phase, queue, runDocs, watermark, request, server>>
    BY <1>2 DEF SaveWrite, copyVars
  <2>2. StoreCausal(store)' /\ ServerCausal'
    BY <2>1, CausalFacts, StoreCausalStays DEF ServerCausal
  <2>3. RunCausal(store)' /\ RequestWhole'
    BY <2>1, CausalFacts DEF RunCausal, Working, Later, Earlier, RequestWhole
  <2> QED
    BY <2>1, <2>2, <2>3, CausalFacts, SuppliedEmpty DEF Causal
<1> QED
  BY <1>1, <1>2

LEMMA StartRunCausal ==
  ASSUME CInv, StartRun
  PROVE  Causal'
<1> DEFINE fl == Flush(store)
<1>1. /\ phase' = "starting" /\ store' = fl /\ queue' = Entries(fl.ops)
      /\ watermark' = fl.next /\ phase = "idle"
      /\ UNCHANGED <<diskQueue, savedQueue, request, server>>
  BY DEF StartRun, diskVars
<1>2. StoreInv(fl) /\ StoreCausal(fl)
  BY CausalFacts, IInvFacts, FlushInv, FlushCausal DEF IInv
<1> HIDE DEF fl
<1>3. Supplied(queue', server')
  BY <1>1, <1>2, EntriesCausal
<1>4. StoreCausal(store)' /\ ServerCausal'
  BY <1>1, <1>2, CausalFacts, StoreCausalMoves DEF ServerCausal
<1>5. Earlier(store)' = store'.ops
  BY <1>1, <1>2 DEF Earlier, StoreInv
<1>6. request = {}
  BY <1>1, CausalFacts DEF IInv, RequestFits
<1>7. RunCausal(store)' /\ RequestWhole'
  BY <1>1, <1>5, <1>6 DEF RunCausal, Working, RequestWhole
<1> QED
  BY <1>1, <1>3, <1>4, <1>7, CausalFacts DEF Causal

\* Whatever of the store's queue the disk holds already, it holds in full.
LEMMA LoadRunCausal ==
  ASSUME CInv, LoadRun
  PROVE  Causal'
<1>1. /\ phase = "starting" /\ phase' = "pulling" /\ runDocs' = store.crdt
      /\ UNCHANGED <<store, diskQueue, savedQueue, watermark, request, server>>
  BY DEF LoadRun, diskVars
<1>2. PICK n \in LastPos(diskQueue) : queue' = Merged(diskQueue, queue, n)
  BY DEF LoadRun
<1>3. queue = Entries(Earlier(store))
  BY <1>1, CausalFacts DEF RunCausal
<1>4. \A y \in queue : \E o \in store.ops :
        /\ y.op = o.seq /\ y.pos = o.seq /\ o.seq > 0 /\ y.body = In(o.ups, y.doc)
  BY <1>3, CausalFacts DEF Entries, Earlier, StoreCausal
<1>5. \A x \in diskQueue, y \in queue : KeyOf(x) = KeyOf(y) => y.body \subseteq x.body
  <2> SUFFICES ASSUME NEW x \in diskQueue, NEW y \in queue, KeyOf(x) = KeyOf(y)
               PROVE  y.body \subseteq x.body
    OBVIOUS
  <2>1. x.op = y.op /\ x.doc = y.doc
    BY DEF KeyOf
  <2>2. PICK o \in store.ops : y.op = o.seq /\ y.body = In(o.ups, y.doc)
    BY <1>4
  <2>3. In(o.ups, x.doc) \subseteq x.body
    BY <2>1, <2>2, CausalFacts, IInvFacts DEF CapturedIn, Queued
  <2> QED
    BY <2>1, <2>2, <2>3
<1>6. diskQueue \subseteq Entry /\ queue \subseteq Entry
  BY CausalFacts, IInvFacts
<1>7. Supplied(queue', server')
  <2>1. \A y \in queue : y.pos > 0
    BY <1>4
  <2>2. Supplied(Merged(diskQueue, queue, n), server)
    BY <1>5, <1>6, <2>1, CausalFacts, MergedCausal
  <2> QED
    BY <1>1, <1>2, <2>2
<1>8. Carried(Earlier(store)) \subseteq Bodies(queue')
  <2> SUFFICES ASSUME NEW o \in store.ops, o.seq < watermark, NEW e \in o.ups
               PROVE  e \in Bodies(queue')
    BY DEF Carried, Earlier
  <2> DEFINE y == [op |-> o.seq, seq |-> o.seq, doc |-> DocOf[e],
                   body |-> In(o.ups, DocOf[e]), pos |-> o.seq]
  <2>1. e \in Edit /\ DocOf[e] \in Doc
    BY CausalFacts, IInvFacts, EditAssumption DEF Store, Operation
  <2>2. e \in y.body
    BY DEF In
  <2>3. y \in queue
    BY <1>3, <2>1, <2>2 DEF Entries, Earlier
  <2> HIDE DEF y
  <2>4. CASE \E x \in diskQueue : KeyOf(x) = KeyOf(y)
    <3>1. PICK x \in diskQueue : KeyOf(x) = KeyOf(y)
      BY <2>4
    <3>2. x \in queue' /\ e \in x.body
      BY <1>2, <1>5, <2>2, <2>3, <3>1 DEF Merged
    <3> QED
      BY <3>2 DEF Bodies
  <2>5. CASE \A x \in diskQueue : KeyOf(x) # KeyOf(y)
    <3>1. [y EXCEPT !.pos = n + @] \in queue'
      BY <1>2, <2>3, <2>5 DEF Merged
    <3>2. [y EXCEPT !.pos = n + @].body = y.body
      BY <1>6, <2>3 DEF Entry
    <3> QED
      BY <2>2, <3>1, <3>2 DEF Bodies
  <2> QED
    BY <2>4, <2>5
<1>9. /\ Closed(store.crdt) /\ store.crdt \cap Remote \subseteq server
      /\ Carried(Earlier(store)) \subseteq store.crdt
  <2>1. store.crdt \subseteq store.plain
    BY CausalFacts, IInvFacts DEF StoreInv
  <2>2. Carried(Earlier(store)) \subseteq Carried(store.ops)
    BY DEF Carried, Earlier
  <2> QED
    BY <2>1, <2>2, CausalFacts DEF StoreCausal
<1>10. request = {}
  BY <1>1, CausalFacts DEF IInv, RequestFits
<1>11. StoreCausal(store)' /\ ServerCausal' /\ RequestWhole'
  BY <1>1, <1>10, CausalFacts, StoreCausalStays DEF ServerCausal, RequestWhole
<1>12. RunCausal(store)'
  <2>1. Earlier(store)' = Earlier(store) /\ Later(store)' = Later(store)
    BY <1>1 DEF Earlier, Later
  <2> QED
    BY <1>1, <1>8, <1>9, <2>1 DEF RunCausal
<1> QED
  BY <1>1, <1>7, <1>11, <1>12, CausalFacts DEF Causal

LEMMA SnapshotHolds ==
  ASSUME NEW D, NEW d \in D, NEW docs, NEW s, NEW n, NEW r
  PROVE  In(docs, d) \subseteq Bodies(Snapshots(D, docs, s, n, r))
<1> DEFINE x == [op |-> - (minted + r[d]), seq |-> s + r[d], doc |-> d,
                 body |-> In(docs, d), pos |-> n + r[d]]
<1>1. x \in Snapshots(D, docs, s, n, r)
  BY DEF Snapshots
<1>2. x.body = In(docs, d)
  OBVIOUS
<1> HIDE DEF x
<1> QED
  BY <1>1, <1>2 DEF Bodies

\* Snapshots in the place of all the entries of some documents: what the store
\* had queued for a document the run's workspace binds stays queued.
LEMMA Requeued ==
  ASSUME CInv, Working,
         NEW docs, docs \subseteq Edit, runDocs \subseteq docs, Closed(docs),
         NEW Q, Q \subseteq queue, \A x \in Q, y \in queue : y.doc = x.doc => y \in Q,
         NEW D, NEW s, NEW n, NEW r,
         \A x \in queue \ Q : x.doc \in Bound(docs) /\ In(docs, x.doc) # {} => x.doc \in D
  PROVE  LET q == Q \cup Snapshots(D, docs, s, n, r)
         IN /\ Supplied(q, server)
            /\ store.crdt \subseteq docs \cup Later(store)
            /\ Carried(Earlier(store)) \subseteq docs
            /\ \A e \in Carried(Earlier(store)) :
                 DocOf[e] \in Bound(docs) => e \in server \cup Bodies(q)
<1> DEFINE snaps == Snapshots(D, docs, s, n, r)
<1>1. /\ store.crdt \subseteq runDocs \cup Later(store)
      /\ Carried(Earlier(store)) \subseteq runDocs
      /\ \A e \in Carried(Earlier(store)) :
           DocOf[e] \in Bound(runDocs) => e \in server \cup Bodies(queue)
  BY CausalFacts DEF RunCausal
<1>2. \A d \in D : In(docs, d) \subseteq Bodies(snaps)
  BY SnapshotHolds
<1>3. Supplied(snaps, server)
  BY SnapshotsCausal
<1> HIDE DEF snaps
<1>4. Supplied(Q \cup snaps, server)
  <2>1. Supplied(Q, server)
    BY CausalFacts, QueuePart
  <2> QED
    BY <1>3, <2>1, QueueJoin
<1>5. ASSUME NEW e \in Carried(Earlier(store)), DocOf[e] \in Bound(docs), e \notin server
      PROVE  e \in Bodies(Q \cup snaps)
  <2>1. e \in Bodies(queue)
    BY <1>1, <1>5, BoundAnti
  <2>2. PICK x \in queue : e \in x.body
    BY <2>1 DEF Bodies
  <2>3. DocOf[e] = x.doc
    BY <2>2, CausalFacts DEF Supplied
  <2>4. CASE x \in Q
    BY <2>2, <2>4 DEF Bodies
  <2>5. CASE x \notin Q
    <3>1. e \in In(docs, x.doc)
      BY <1>1, <1>5, <2>3 DEF In
    <3>2. e \in Bodies(snaps)
      BY <1>2, <1>5, <2>3, <2>5, <3>1
    <3> QED
      BY <3>2 DEF Bodies
  <2> QED
    BY <2>4, <2>5
<1> QED
  BY <1>1, <1>4, <1>5 DEF snaps

\* A step inside a run that leaves the store and the server alone.
LEMMA RequeuedCausal ==
  ASSUME CInv, Working, phase' \in {"pulling", "pushing"},
         UNCHANGED <<store, diskQueue, savedQueue, watermark, server>>, request' = {},
         NEW docs, docs \subseteq Edit, runDocs \subseteq docs, Closed(docs),
         docs \cap Remote \subseteq server,
         NEW Q, Q \subseteq queue, \A x \in Q, y \in queue : y.doc = x.doc => y \in Q,
         NEW D, NEW s, NEW n, NEW r,
         \A x \in queue \ Q : x.doc \in Bound(docs) /\ In(docs, x.doc) # {} => x.doc \in D,
         runDocs' = docs, queue' = Q \cup Snapshots(D, docs, s, n, r)
  PROVE  Causal'
<1> DEFINE q == Q \cup Snapshots(D, docs, s, n, r)
<1>1. /\ Supplied(q, server)
      /\ store.crdt \subseteq docs \cup Later(store)
      /\ Carried(Earlier(store)) \subseteq docs
      /\ \A e \in Carried(Earlier(store)) :
           DocOf[e] \in Bound(docs) => e \in server \cup Bodies(q)
  BY Requeued
<1>2. queue' = q
  OBVIOUS
<1> HIDE DEF q
<1>3. StoreCausal(store)' /\ ServerCausal' /\ RequestWhole'
  BY CausalFacts, StoreCausalStays DEF ServerCausal, RequestWhole
<1>4. RunCausal(store)'
  <2>1. Earlier(store)' = Earlier(store) /\ Later(store)' = Later(store)
    BY DEF Earlier, Later
  <2> QED
    BY <1>1, <1>2, <2>1 DEF RunCausal
<1> QED
  BY <1>1, <1>2, <1>3, <1>4, CausalFacts DEF Causal

LEMMA PullCausal ==
  ASSUME CInv, Pull
  PROVE  Causal'
<1> DEFINE merged == runDocs \cup server
           open == Open(merged)
           docs == Healed(open, merged)
           trusted == {d \in open : /\ Pending(queue, d) # {}
                                    /\ Populated(d, merged)
                                    /\ Populated(d, Bodies(Pending(queue, d)))}
           fresh == {d \in open \ trusted : In(docs, d) # {}}
           kept == {x \in queue : x.doc \in trusted \/ In(server, x.doc) # {}}
<1>1. /\ phase = "pulling" /\ phase' = "pushing" /\ runDocs' = docs
      /\ \E r \in Ranks(fresh), s \in LastSeq(queue), n \in LastPos(queue) :
           queue' = kept \cup Snapshots(fresh, docs, s, n, r)
      /\ UNCHANGED <<store, diskQueue, savedQueue, watermark, request, server>>
  BY DEF Pull, diskVars
<1>2. request = {} /\ Working
  BY <1>1, CausalFacts DEF IInv, RequestFits, Working
<1>3. /\ merged \subseteq docs /\ docs \subseteq merged \cup Starter /\ docs \subseteq Edit
  BY HealedIs, CausalFacts, IInvFacts
<1>4. Closed(docs) /\ docs \cap Remote \subseteq server
  <2>1. Closed(merged)
    BY <1>2, CausalFacts, ClosedUnion DEF RunCausal, ServerCausal, Closed, Needs
  <2>2. runDocs \cap Remote \subseteq server
    BY <1>2, CausalFacts DEF RunCausal
  <2> HIDE DEF docs
  <2> QED
    BY <1>3, <2>1, <2>2, ClosedStarter, EditAssumption
<1>5. \A x \in queue \ kept : x.doc \in Bound(docs) /\ In(docs, x.doc) # {} => x.doc \in fresh
  <2>1. Bound(docs) \subseteq Bound(merged)
    BY <1>3, BoundAnti
  <2> HIDE DEF docs, trusted
  <2> QED
    BY <2>1 DEF Open
<1>6. kept \subseteq queue /\ \A x \in kept, y \in queue : y.doc = x.doc => y \in kept
  OBVIOUS
<1>7. runDocs \subseteq docs
  BY <1>3
<1> HIDE DEF docs, fresh, kept
<1> QED
  BY <1>1, <1>2, <1>3, <1>4, <1>5, <1>6, <1>7, RequeuedCausal

LEMMA BuildRequestCausal ==
  ASSUME CInv, BuildRequest
  PROVE  Causal'
<1>1. /\ \E r \in SUBSET queue : IsRequest(queue, r) /\ request' = r
      /\ UNCHANGED <<store, diskQueue, savedQueue, phase, queue, runDocs, watermark,
                     server>>
  BY DEF BuildRequest, diskVars, copyVars
<1>2. RequestWhole'
  BY <1>1 DEF IsRequest, RequestWhole
<1>3. StoreCausal(store)' /\ ServerCausal'
  BY <1>1, CausalFacts, StoreCausalStays DEF ServerCausal
<1>4. RunCausal(store)'
  BY <1>1, CausalFacts DEF RunCausal, Working, Later, Earlier
<1> QED
  BY <1>1, <1>2, <1>3, <1>4, CausalFacts DEF Causal

\* The server takes a request with all it builds on.
LEMMA TakenCausal ==
  ASSUME CInv, Valid(request), server' = server \cup Bodies(request)
  PROVE  /\ ServerCausal'
         /\ \A q \in SUBSET queue : queue \ q \subseteq request => Supplied(q, server')
<1>1. ServerCausal'
  <2>1. \A e \in server \cup Bodies(request) :
          Prior[e] \subseteq server \cup Bodies(request)
    BY CausalFacts, IInvFacts, RequestCausal
  <2> QED
    BY <2>1 DEF ServerCausal
<1>2. ASSUME NEW q \in SUBSET queue, queue \ q \subseteq request
      PROVE  Supplied(q, server')
  <2>1. Supplied(queue, server')
    BY CausalFacts, SuppliedGrows
  <2>2. \A y \in queue : y \in q \/ y.body \subseteq server'
    BY <1>2 DEF Bodies
  <2> QED
    BY <1>2, <2>1, <2>2, QueuePart
<1> QED
  BY <1>1, <1>2

LEMMA AcceptCausal ==
  ASSUME CInv, Accept
  PROVE  Causal'
<1>1. /\ Valid(request) /\ request # {} /\ server' = server \cup Bodies(request)
      /\ queue' = queue \ request /\ request' = {}
      /\ UNCHANGED <<store, diskQueue, savedQueue, phase, runDocs, watermark>>
  BY DEF Accept, diskVars
<1>2. ServerCausal' /\ Supplied(queue', server')
  BY <1>1, TakenCausal
<1>3. StoreCausal(store)' /\ RequestWhole'
  BY <1>1, CausalFacts, StoreCausalStays DEF RequestWhole
<1>4. Supplied(diskQueue', server') /\ Supplied(savedQueue', server')
  BY <1>1, CausalFacts, SuppliedGrows
<1>5. RunCausal(store)'
  <2>1. Earlier(store)' = Earlier(store) /\ Later(store)' = Later(store)
    BY <1>1 DEF Earlier, Later
  <2>2. phase = "pushing"
    BY <1>1, CausalFacts DEF IInv, RequestFits
  <2>3. server \cup Bodies(queue) \subseteq server' \cup Bodies(queue')
    BY <1>1 DEF Bodies
  <2> QED
    BY <1>1, <2>1, <2>2, <2>3, CausalFacts DEF RunCausal, Working
<1> QED
  BY <1>2, <1>3, <1>4, <1>5 DEF Causal

LEMMA LoseCausal ==
  ASSUME CInv, LoseRequest \/ LoseResponse
  PROVE  Causal'
<1>1. /\ EndRun /\ UNCHANGED <<store, savedQueue>>
      /\ server \subseteq server'
      /\ ServerCausal' /\ Supplied(diskQueue', server')
  <2>1. CASE LoseRequest
    BY <2>1, CausalFacts DEF LoseRequest, PushFailsWith, ServerCausal
  <2>2. CASE LoseResponse
    <3>1. /\ Valid(request) /\ server' = server \cup Bodies(request)
          /\ \E q \in SUBSET queue : queue \ q \subseteq request /\ PushFailsWith(q)
      BY <2>2 DEF LoseResponse
    <3> QED
      BY <3>1, TakenCausal DEF PushFailsWith
  <2> QED
    BY <2>1, <2>2
<1>2. StoreCausal(store)' /\ Supplied(savedQueue', server')
  BY <1>1, CausalFacts, StoreCausalStays, SuppliedGrows
<1> QED
  BY <1>1, <1>2, EndCausal

LEMMA RejectCausal ==
  ASSUME CInv, Reject
  PROVE  Causal'
<1> DEFINE C == {x.doc : x \in request}
           docs == Healed(C, runDocs)
           snapped == {d \in C \cap Bound(docs) : In(docs, d) # {}}
           Q == {x \in queue : x.doc \notin C}
<1>1. /\ request # {} /\ request' = {} /\ runDocs' = docs
      /\ \E r \in Ranks(snapped), s \in LastSeq(queue), n \in LastPos(queue) :
           queue' = Q \cup Snapshots(snapped, docs, s, n, r)
      /\ UNCHANGED <<store, diskQueue, savedQueue, phase, watermark, server>>
  BY DEF Reject, Refused, diskVars
<1>2. phase = "pushing" /\ Working
  BY <1>1, CausalFacts DEF IInv, RequestFits, Working
<1>3. runDocs \subseteq docs /\ docs \subseteq runDocs \cup Starter /\ docs \subseteq Edit
  BY HealedIs, CausalFacts, IInvFacts
<1>4. \A x \in queue \ Q : x.doc \in Bound(docs) /\ In(docs, x.doc) # {} => x.doc \in snapped
  OBVIOUS
<1>5. Q \subseteq queue /\ \A x \in Q, y \in queue : y.doc = x.doc => y \in Q
  OBVIOUS
<1> HIDE DEF docs, snapped, Q
<1>6. Closed(docs) /\ docs \cap Remote \subseteq server
  BY <1>2, <1>3, CausalFacts, ClosedStarter, EditAssumption DEF RunCausal
<1> QED
  BY <1>1, <1>2, <1>3, <1>4, <1>5, <1>6, RequeuedCausal

LEMMA RejectAgainCausal ==
  ASSUME CInv, RejectAgain
  PROVE  Causal'
<1> DEFINE docs == Healed({x.doc : x \in request}, runDocs)
<1>1. /\ request # {} /\ server' = server
      /\ \E C, D, r, s, n :
           PushFailsWith({x \in queue : x.doc \notin C} \cup Snapshots(D, docs, s, n, r))
  BY DEF RejectAgain
<1>2. Working
  BY <1>1, CausalFacts DEF IInv, RequestFits, Working
<1>3. runDocs \subseteq docs /\ docs \subseteq runDocs \cup Starter /\ docs \subseteq Edit
  BY HealedIs, CausalFacts, IInvFacts
<1> HIDE DEF docs
<1>4. Closed(docs)
  BY <1>2, <1>3, CausalFacts, ClosedStarter DEF RunCausal
<1>5. PICK C, D, r, s, n :
        PushFailsWith({x \in queue : x.doc \notin C} \cup Snapshots(D, docs, s, n, r))
  BY <1>1
<1> DEFINE Q == {x \in queue : x.doc \notin C}
           snaps == Snapshots(D, docs, s, n, r)
<1>6. Supplied(snaps, server)
  BY <1>3, <1>4, SnapshotsCausal
<1>7. Q \subseteq queue /\ \A x \in Q, y \in queue : y.doc = x.doc => y \in Q
  OBVIOUS
<1>8. PushFailsWith(Q \cup snaps)
  BY <1>5
<1> HIDE DEF Q, snaps
<1>9. Supplied(Q, server)
  BY <1>7, CausalFacts, QueuePart
<1>10. Supplied(Q \cup snaps, server)
  BY <1>6, <1>9, QueueJoin
<1>11. /\ EndRun /\ UNCHANGED <<store, savedQueue>> /\ diskQueue' = Q \cup snaps
  BY <1>8 DEF PushFailsWith
<1>12. StoreCausal(store)' /\ ServerCausal'
  BY <1>1, <1>11, CausalFacts, StoreCausalStays DEF ServerCausal
<1> QED
  BY <1>1, <1>10, <1>11, <1>12, CausalFacts, EndCausal

LEMMA PushDoneCausal ==
  ASSUME CInv, PushDone
  PROVE  Causal'
<1>1. /\ phase = "pushing" /\ phase' = "pushed" /\ queue = {} /\ diskQueue' = queue
      /\ UNCHANGED <<store, savedQueue, queue, runDocs, watermark, request, server>>
  BY DEF PushDone, copyVars
<1>2. StoreCausal(store)' /\ ServerCausal'
  BY <1>1, CausalFacts, StoreCausalStays DEF ServerCausal
<1>3. RunCausal(store)' /\ RequestWhole'
  BY <1>1, CausalFacts DEF RunCausal, Working, Later, Earlier, RequestWhole
<1> QED
  BY <1>1, <1>2, <1>3, CausalFacts DEF Causal

LEMMA FailCausal ==
  ASSUME CInv, PullFails \/ FailAfterPush
  PROVE  Causal'
<1>1. EndRun /\ UNCHANGED <<store, diskQueue, savedQueue, server>>
  BY DEF PullFails, FailAfterPush, diskVars
<1>2. StoreCausal(store)' /\ ServerCausal'
  BY <1>1, CausalFacts, StoreCausalStays DEF ServerCausal
<1> QED
  BY <1>1, <1>2, CausalFacts, EndCausal

(***************************************************************************)
(* The landing.                                                            *)
(***************************************************************************)
\* What was pushed is only cleared from what the run's snapshot held.
LEMMA ClearPushedRun ==
  ASSUME TypeOK, NEW st, StoreInv(st), RunFits(st), RunCausal(st), phase = "pushed"
  PROVE  RunCausal(ClearPushed(st))
<1> DEFINE gone == {p \in Stamped(st) :
                      [op |-> p[1], seq |-> p[1], doc |-> DocOf[p[2]]] \in pushed}
<1>1. ClearPushed(st) = st \/ ClearPushed(st) = Without(st, gone)
  BY DEF ClearPushed
<1>2. ASSUME NEW q \in st.ops, NEW p \in q.ups, <<q.seq, p>> \in gone
      PROVE  q.seq < watermark
  <2> DEFINE k == [op |-> q.seq, seq |-> q.seq, doc |-> DocOf[p]]
  <2>1. k \in pushed
    BY <1>2
  <2>2. k.op = q.seq
    OBVIOUS
  <2> HIDE DEF k
  <2> QED
    BY <2>1, <2>2 DEF RunFits
<1> HIDE DEF gone
<1> DEFINE wo == Without(st, gone)
<1>3. /\ wo.crdt = st.crdt
      /\ \A o \in wo.ops : \E p \in st.ops : o.seq = p.seq /\ o.ups \subseteq p.ups
      /\ \A p \in st.ops : \A e \in p.ups : <<p.seq, e>> \notin gone =>
           \E o \in wo.ops : o.seq = p.seq /\ e \in o.ups
  BY WithoutFacts
<1> HIDE DEF wo
<1>4. Carried(Earlier(wo)) \subseteq Carried(Earlier(st))
  BY <1>3 DEF Carried, Earlier
<1>5. Later(st) \subseteq Later(wo)
  <2> SUFFICES ASSUME NEW p \in st.ops, p.seq >= watermark, NEW e \in p.ups
               PROVE  e \in Later(wo)
    BY DEF Later
  <2>1. ~ (p.seq < watermark)
    BY DEF StoreInv, Store, Operation, TypeOK
  <2>2. PICK o \in wo.ops : o.seq = p.seq /\ e \in o.ups
    BY <1>2, <1>3, <2>1
  <2> QED
    BY <2>2 DEF Later
<1>6. RunCausal(wo)
  BY <1>3, <1>4, <1>5 DEF RunCausal
<1> QED
  BY <1>1, <1>6 DEF wo

\* drop_unbound_pending_crdt_edits: an edit kept for its scheme builds on nothing
\* that goes, but for what the server has by then. And the store is left with
\* what its documents need beside the run's.
LEMMA DropUnboundCausal ==
  ASSUME TypeOK, NEW st, StoreInv(st), StoreCausal(st), RunCausal(st), phase = "pushed"
  PROVE  /\ StoreCausal(DropUnbound(st))
         /\ DropUnbound(st).crdt = st.crdt
         /\ Closed(runDocs \cup Carried(DropUnbound(st).ops))
<1> DEFINE gone == {p \in Stamped(st) :
                      /\ DocOf[p[2]] \notin Bound(st.plain)
                      /\ ~(p[1] >= watermark /\ DocOf[p[2]] \in Bound(runDocs))}
           kept == DropUnbound(st)
<1>1. \/ kept = Without(st, gone)
      \/ kept = st /\ \A o \in st.ops : \A e \in o.ups : <<o.seq, e>> \notin gone
  BY DEF DropUnbound
<1>2. \A o \in st.ops : o.seq \in Nat /\ o.ups \subseteq Edit /\ watermark \in Nat
  BY DEF StoreInv, Store, Operation, TypeOK
<1>3. \A o \in st.ops : \A e \in o.ups :
        <<o.seq, e>> \in gone <=>
          /\ DocOf[e] \notin Bound(st.plain)
          /\ ~(o.seq >= watermark /\ DocOf[e] \in Bound(runDocs))
  BY <1>2 DEF Stamped
<1>4. /\ Closed(runDocs)
      /\ st.crdt \subseteq runDocs \cup Later(st)
      /\ \A e \in Carried(Earlier(st)) : DocOf[e] \in Bound(runDocs) => e \in server
  BY DEF RunCausal, Working, Bodies
<1> HIDE DEF gone, kept
<1>5. ASSUME NEW o \in st.ops, NEW q \in st.ops, NEW e \in o.ups, NEW p \in q.ups,
             p \in Needs(e), <<q.seq, p>> \in gone, <<o.seq, e>> \notin gone
      PROVE  p \in server /\ q.seq < watermark
  <2>1. DocOf[p] = DocOf[e]
    BY <1>2, <1>5, NeedsAre
  <2>2. DocOf[p] \in Bound(runDocs) /\ ~ (q.seq >= watermark)
    BY <1>3, <1>5, <2>1
  <2>3. q.seq < watermark
    BY <1>2, <2>2
  <2>4. p \in Carried(Earlier(st))
    BY <1>5, <2>3 DEF Carried, Earlier
  <2> QED
    BY <1>4, <2>2, <2>3, <2>4
<1>6. StoreCausal(Without(st, gone))
  BY <1>5, WithoutCausal
<1>7. /\ kept.crdt = st.crdt
      /\ \A o \in kept.ops : \E p \in st.ops :
           /\ o.seq = p.seq /\ o.ups \subseteq p.ups
           /\ \A e \in o.ups : <<p.seq, e>> \notin gone
      /\ \A p \in st.ops : \A e \in p.ups : <<p.seq, e>> \notin gone =>
           \E o \in kept.ops : e \in o.ups
  <2>1. CASE kept = Without(st, gone)
    BY <2>1, WithoutFacts
  <2>2. CASE kept = st /\ \A o \in st.ops : \A e \in o.ups : <<o.seq, e>> \notin gone
    BY <2>2
  <2> QED
    BY <1>1, <2>1, <2>2
<1>8. ASSUME NEW e \in Carried(kept.ops), NEW p \in Needs(e)
      PROVE  p \in runDocs \cup Carried(kept.ops)
  <2>1. PICK o \in st.ops : e \in o.ups /\ <<o.seq, e>> \notin gone
    BY <1>7, <1>8 DEF Carried
  <2>2. e \in st.crdt
    BY <2>1 DEF StoreCausal, Carried
  <2>3. p \in runDocs \cup Later(st)
    BY <1>4, <1>8, <2>2 DEF StoreCausal, Closed
  <2>4. CASE p \in Later(st)
    <3>1. PICK q \in st.ops : q.seq >= watermark /\ p \in q.ups
      BY <2>4 DEF Later
    <3>2. <<q.seq, p>> \notin gone
      BY <1>2, <1>5, <1>8, <2>1, <3>1
    <3> QED
      BY <1>7, <3>1, <3>2 DEF Carried
  <2> QED
    BY <2>3, <2>4
<1>9. Closed(runDocs \cup Carried(kept.ops))
  BY <1>4, <1>8 DEF Closed
<1> QED
  BY <1>1, <1>6, <1>7, <1>9 DEF kept

\* Adopting the run's documents with the unsent edits on them leaves no gap.
LEMMA AdoptedCausal ==
  ASSUME NEW st, StoreInv(st), StoreCausal(st),
         Closed(runDocs \cup Carried(st.ops)), runDocs \cap Remote \subseteq server,
         NEW base, base = runDocs \/ base = st.crdt \cup runDocs
  PROVE  StoreCausal(Adopted(st, base))
<1> DEFINE docs == base \cup Carried(st.ops)
           ad == Adopted(st, base)
<1>1. docs = base \cup Carried(st.ops)
  OBVIOUS
<1>2. Closed(docs)
  <2>1. CASE base = runDocs
    BY <2>1
  <2>2. CASE base = st.crdt \cup runDocs
    <3>1. docs = st.crdt \cup (runDocs \cup Carried(st.ops))
      BY <2>2
    <3> QED
      BY <3>1, ClosedUnion DEF StoreCausal
  <2> QED
    BY <2>1, <2>2
<1> HIDE DEF docs
<1>3. ad = [plain |-> Shown(st, docs), crdt |-> docs, deferred |-> st.deferred,
            since |-> st.since, ops |-> st.ops, next |-> st.next]
  BY <1>1, AdoptedIs DEF StoreInv
<1> HIDE DEF ad
<1>4. docs \subseteq Shown(st, docs) /\ Shown(st, docs) \subseteq docs \cup Starter
  BY DEF Shown
<1>5. Closed(ad.plain)
  BY <1>2, <1>3, <1>4, ClosedStarter
<1>6. ad.plain \cap Remote \subseteq server
  <2>1. st.crdt \cap Remote \subseteq server /\ Carried(st.ops) \cap Remote \subseteq server
    BY DEF StoreInv, StoreCausal
  <2> QED
    BY <1>1, <1>3, <1>4, <2>1, EditAssumption
<1>7. Carried(ad.ops) \subseteq ad.crdt
  BY <1>1, <1>3
<1>8. OpsCausal(ad)
  BY <1>3 DEF StoreCausal, OpsCausal
<1> QED
  BY <1>2, <1>3, <1>5, <1>6, <1>7, <1>8 DEF StoreCausal, ad

LEMMA LandCausal ==
  ASSUME CInv, Land
  PROVE  Causal'
<1> DEFINE cl == ClearPushed(store)
           fl == Flush(cl)
           kept == DropUnbound(fl)
<1>1. /\ phase = "pushed" /\ EndRun
      /\ \/ store' = kept
         \/ store' = Adopted(kept, kept.crdt \cup runDocs)
         \/ store' = Adopted(kept, runDocs)
      /\ UNCHANGED <<diskQueue, savedQueue, server>>
  BY DEF Land, diskVars
<1>2. TypeOK /\ Good(store) /\ phase # "idle"
  BY <1>1, CausalFacts DEF IInv
<1>3. Good(cl)
  BY <1>2, ClearPushedGood
<1>4. StoreCausal(cl) /\ RunCausal(cl)
  BY <1>1, <1>2, CausalFacts, ClearPushedCausal, ClearPushedRun DEF Good
<1>5. Good(kept)
  BY <1>2, KeptGood
<1> HIDE DEF cl
<1>6. StoreInv(fl) /\ StoreCausal(fl) /\ RunCausal(fl)
  BY <1>2, <1>3, <1>4, FlushInv, FlushCausal, FlushRun DEF Good
<1> HIDE DEF fl
<1>7. StoreInv(kept) /\ StoreCausal(kept) /\ Closed(runDocs \cup Carried(kept.ops))
  BY <1>1, <1>2, <1>5, <1>6, DropUnboundCausal DEF Good
<1> HIDE DEF kept
<1>8. runDocs \cap Remote \subseteq server
  BY <1>1, CausalFacts DEF RunCausal, Working
<1>9. StoreCausal(store')
  BY <1>1, <1>7, <1>8, AdoptedCausal
<1>10. StoreCausal(store)' /\ ServerCausal'
  BY <1>1, <1>9, CausalFacts, StoreCausalMoves DEF ServerCausal
<1> QED
  BY <1>1, <1>10, CausalFacts, EndCausal

LEMMA CausalInit ==
  ASSUME Init
  PROVE  CInv
<1>1. /\ store.plain = Starter /\ store.crdt = {} /\ store.deferred = {}
      /\ store.ops = {} /\ store.next = 1
  BY DEF Init
<1>2. StoreCausal(store)
  <2>1. Closed(Starter) /\ Starter \cap Remote = {}
    BY EditAssumption, PriorAssumption DEF Closed, Needs
  <2> QED
    BY <1>1, <2>1 DEF StoreCausal, OpsCausal, Carried, Closed
<1>3. Causal
  BY <1>2, SuppliedEmpty
  DEF Init, Causal, ServerCausal, RunCausal, Working, RequestWhole
<1> QED
  BY <1>3, InitIInv DEF CInv

LEMMA CausalStutter ==
  ASSUME CInv, UNCHANGED vars
  PROVE  Causal'
<1>1. UNCHANGED <<store, diskQueue, savedQueue, phase, queue, runDocs, watermark,
                  request, server>>
  BY DEF vars, diskVars, copyVars
<1>2. StoreCausal(store)' /\ ServerCausal'
  BY <1>1, CausalFacts, StoreCausalStays DEF ServerCausal
<1>3. RunCausal(store)' /\ RequestWhole'
  BY <1>1, CausalFacts DEF RunCausal, Working, Later, Earlier, RequestWhole
<1> QED
  BY <1>1, <1>2, <1>3, CausalFacts DEF Causal

LEMMA CausalStep ==
  ASSUME CInv, [Next]_vars
  PROVE  CInv'
<1>1. IInv'
  BY Inductive DEF CInv
<1>2. Causal'
  <2>1. ASSUME NEW e \in Edit, ApplyLocal(e) \/ RepairIndex(e) \/ RemotePush(e)
        PROVE  Causal'
    BY <2>1, ApplyLocalCausal, RepairIndexCausal, RemotePushCausal
  <2>2. CASE SaveSnapshot \/ SaveWrite
    BY <2>2, SaveCausal
  <2>3. CASE StartRun \/ LoadRun
    BY <2>3, StartRunCausal, LoadRunCausal
  <2>4. CASE Pull \/ BuildRequest
    BY <2>4, PullCausal, BuildRequestCausal
  <2>5. CASE Accept \/ LoseRequest \/ LoseResponse
    BY <2>5, AcceptCausal, LoseCausal
  <2>6. CASE Reject \/ RejectAgain
    BY <2>6, RejectCausal, RejectAgainCausal
  <2>7. CASE PushDone \/ PullFails \/ FailAfterPush
    BY <2>7, PushDoneCausal, FailCausal
  <2>8. CASE Land
    BY <2>8, LandCausal
  <2>9. CASE UNCHANGED vars
    BY <2>9, CausalStutter
  <2> QED
    BY <2>1, <2>2, <2>3, <2>4, <2>5, <2>6, <2>7, <2>8, <2>9 DEF Next
<1> QED
  BY <1>1, <1>2 DEF CInv

(***************************************************************************)
(* The theorems.                                                           *)
(***************************************************************************)
\* What precedes an edit precedes it in every queue, whatever was merged, cut
\* into requests, refused, reseeded or landed before.
THEOREM CausalInvariance == Spec => []CInv
<1>1. Init => CInv
  BY CausalInit
<1>2. CInv /\ [Next]_vars => CInv'
  BY CausalStep
<1> QED
  BY <1>1, <1>2, PTL DEF Spec

\* No document of the server ever has a gap: build_push_request, the refusals and
\* the landings never let an edit get there before one it builds on.
THEOREM ServerIsCausal == Spec => []ServerCausal
<1>1. CInv => ServerCausal
  BY DEF CInv, Causal
<1> QED
  BY <1>1, CausalInvariance, PTL
=============================================================================
