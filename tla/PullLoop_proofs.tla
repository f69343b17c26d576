---------------------------- MODULE PullLoop_proofs ----------------------------
(***************************************************************************)
(* The types of PullLoop, and, as long as runs fail and answers are lost   *)
(* but nothing else goes wrong, that what a device shows and the server    *)
(* lacks is queued.                                                        *)
(***************************************************************************)
EXTENDS PullLoop, TLAPS

Runs ==
  [docs : Documents, held : SUBSET Docs, queue : Documents, own : Documents,
   sent : Documents, cur : Cursors, proof : BOOLEAN, asked : BOOLEAN, turn : BOOLEAN,
   repair : SUBSET Docs, reoffered : SUBSET Docs, changed : SUBSET Docs,
   skipped : SUBSET Docs, replaced : SUBSET Docs, reseeded : SUBSET Docs]
Syncs ==
  [cur : Cursors, pend : Documents, reoffered : SUBSET Docs, recovering : BOOLEAN]

\* A run has nothing of a document it does not hold.
Unheld(r) == \A d \in Docs \ r.held : r.docs[d] = {}

Typed ==
  /\ scope \in Scopes /\ faults \in 0 .. scope.max
  /\ server \in Documents /\ docs \in Documents /\ queue \in Documents
  /\ sync \in Syncs
  /\ phase \in {"idle", "pulling", "pushing"}
  /\ run \in Runs /\ Unheld(run)

(***************************************************************************)
(* What a run carries, the server having S and the store's queue being Q.  *)
(***************************************************************************)
\* What the run has and the server lacks is queued, by the store or by the run; what
\* was acknowledged is on the server; and a request carries all the store's edits.
Carried(r, S, Q) ==
  /\ \A d \in Docs : r.docs[d] \subseteq S[d] \cup Q[d] \cup r.queue[d]
  /\ \A d \in Docs : r.sent[d] \subseteq S[d]
  /\ \A d \in Docs : d \notin r.replaced /\ r.queue[d] # {} => r.own[d] \subseteq r.queue[d]

\* Until the pull is over no queued edit is replaced.
Whole(r) == r.replaced = {} /\ \A d \in Docs : r.own[d] \subseteq r.queue[d]

\* The runs r and q differ in cursors and flags only.
Like(r, q) ==
  /\ q \in Runs
  /\ q.docs = r.docs /\ q.held = r.held /\ q.queue = r.queue /\ q.own = r.own
  /\ q.sent = r.sent /\ q.replaced = r.replaced

LEMMA LikeKeeps ==
  ASSUME NEW r, NEW q, Like(r, q)
  PROVE  /\ Unheld(r) => Unheld(q)
         /\ Whole(r) => Whole(q)
         /\ \A S, Q : Carried(r, S, Q) => Carried(q, S, Q)
BY DEF Like, Unheld, Whole, Carried

(***************************************************************************)
(* Documents and cursors.                                                  *)
(***************************************************************************)
LEMMA NothingType == Nothing \in Documents /\ \A d \in Docs : Nothing[d] = {}
BY DEF Nothing, Documents

LEMMA PopulationType ==
  /\ <<"base">> \in Struct /\ <<"mine">> \in Struct /\ <<"theirs">> \in Struct
  /\ \A d : Population(d) \subseteq Struct
  /\ \A s \in Schemes : <<"bind", s>> \in Struct /\ <<"gone", s>> \in Struct
BY ScopeAssumption DEF Struct, Facts, Population

LEMMA KnownFacts ==
  ASSUME NEW D
  PROVE  Known(D) \subseteq Docs /\ Index \in Known(D) /\ Index \in Docs
BY DEF Known, Listed, Docs

\* Cutting documents down to what their index lists leaves the index alone.
LEMMA BoundFacts ==
  ASSUME NEW D \in Documents
  PROVE  /\ Bound(D) \in Documents
         /\ \A d \in Docs : Bound(D)[d] = IF d \in Known(D) THEN D[d] ELSE {}
         /\ Known(Bound(D)) = Known(D)
         /\ \A d \in Docs : Bound(D)[d] \subseteq D[d]
<1>1. \A d \in Docs : Bound(D)[d] = IF d \in Known(D) THEN D[d] ELSE {}
  BY DEF Bound
<1>2. Bound(D) \in Documents
  BY DEF Bound, Documents
<1>3. Bound(D)[Index] = D[Index]
  BY <1>1, KnownFacts
<1>4. Known(Bound(D)) = Known(D)
  BY <1>3 DEF Known
<1>5. QED
  BY <1>1, <1>2, <1>4

LEMMA ZeroedType == ASSUME NEW cur \in Cursors, NEW D PROVE Zeroed(cur, D) \in Cursors
BY DEF Zeroed, Cursors

LEMMA MovedType == ASSUME NEW cur \in Cursors, NEW D PROVE Moved(cur, D) \subseteq Cursors
BY DEF Moved, Cursors

LEMMA NoRunType == NoRun \in Runs /\ Unheld(NoRun) /\ Whole(NoRun)
                   /\ (\A S, Q : Carried(NoRun, S, Q))
<1>1. NoCursors \in Cursors
  BY DEF NoCursors, Cursors
<1>2. NoRun \in Runs
  BY <1>1, NothingType DEF NoRun, Runs
<1>3. /\ NoRun.docs = Nothing /\ NoRun.queue = Nothing /\ NoRun.own = Nothing
      /\ NoRun.sent = Nothing /\ NoRun.replaced = {}
  BY DEF NoRun
<1>4. QED
  BY <1>2, <1>3, NothingType DEF Unheld, Whole, Carried

(***************************************************************************)
(* The operators of the pull.                                              *)
(***************************************************************************)
LEMMA FlagsLike ==
  ASSUME NEW r \in Runs
  PROVE  /\ Like(r, ProofDone(r)) /\ Like(r, AfterProof(r))
         /\ \A c \in Cursors : Like(r, [r EXCEPT !.cur = c])
         /\ Like(r, [r EXCEPT !.turn = ~@])
         /\ Like(r, [r EXCEPT !.asked = TRUE])
BY DEF Like, Runs, ProofDone, AfterProof

LEMMA LikeTransitive ==
  ASSUME NEW r, NEW q, NEW p, Like(r, q), Like(q, p)
  PROVE  Like(r, p)
BY DEF Like

LEMMA ReconciledLike == ASSUME NEW r \in Runs PROVE Like(r, Reconciled(r))
<1> DEFINE c == [d \in Docs |-> IF d \notin Refuted(r) THEN r.cur[d]
                                ELSE IF server[d] = {} THEN "none" ELSE "zero"]
<1>1. Reconciled(r) = [r EXCEPT !.cur = c]
  BY DEF Reconciled
<1>2. c \in Cursors
  BY DEF Runs, Cursors
<1> HIDE DEF c
<1>3. QED
  BY <1>1, <1>2, FlagsLike

LEMMA RefetchedLike ==
  ASSUME NEW r \in Runs, NEW unknown
  PROVE  Like(r, Refetched(r, unknown))
<1>1. PICK A : Refetched(r, unknown) = [r EXCEPT !.cur = Zeroed(@, A)]
  BY DEF Refetched
<1>2. Zeroed(r.cur, A) \in Cursors
  BY ZeroedType DEF Runs
<1>3. QED
  BY <1>1, <1>2, FlagsLike

LEMMA MismatchLike ==
  ASSUME NEW r \in Runs, NEW A \in SUBSET Docs
  PROVE  Like(r, [ProofDone(r) EXCEPT !.cur = Zeroed(@, A), !.repair = @ \cup A])
<1>1. Zeroed(r.cur, A) \in Cursors
  BY ZeroedType DEF Runs
<1>2. QED
  BY <1>1 DEF Like, Runs, ProofDone

\* A page brings what the server has.
LEMMA AppliedSound ==
  ASSUME NEW r \in Runs, NEW P \in SUBSET Docs, server \in Documents
  PROVE  /\ Applied(r, P) \in Runs
         /\ Unheld(r) => Unheld(Applied(r, P))
         /\ Whole(r) => Whole(Applied(r, P))
         /\ \A Q : Carried(r, server, Q) => Carried(Applied(r, P), server, Q)
<1> DEFINE index == r.docs[Index] \cup IF Index \in P THEN server[Index] ELSE {}
           unknown == P \ ({Index} \cup Listed(index))
           taken == P \ unknown
           D == [d \in Docs |-> r.docs[d] \cup IF d \in taken THEN server[d] ELSE {}]
           got == Bound(D)
           held == (r.held \cup taken) \cap Known(got)
           cur == [d \in Docs |-> IF d \in P THEN "at" ELSE r.cur[d]]
           changed == r.changed \cup {d \in taken : got[d] # r.docs[d]}
           q == [r EXCEPT !.docs = got, !.held = held, !.cur = cur,
                          !.changed = changed, !.skipped = @ \cup unknown]
<1>1. Applied(r, P) = Refetched(q, unknown)
  BY DEF Applied
<1>2. /\ r.docs \in Documents /\ r.held \in SUBSET Docs /\ r.cur \in Cursors
      /\ r.changed \in SUBSET Docs /\ r.skipped \in SUBSET Docs
  BY DEF Runs
<1>3. taken \subseteq Docs /\ unknown \subseteq Docs
  OBVIOUS
<1>4. D \in Documents
  BY <1>2 DEF Documents
<1>5. \A d \in Docs : D[d] = r.docs[d] \cup IF d \in taken THEN server[d] ELSE {}
  OBVIOUS
<1>6. cur \in Cursors
  BY <1>2 DEF Cursors
<1> HIDE DEF D, taken, unknown, index
<1>7. /\ got \in Documents
      /\ \A d \in Docs : got[d] = IF d \in Known(got) THEN D[d] ELSE {}
  BY <1>4, BoundFacts
<1>8. held \in SUBSET Docs
  BY <1>2, <1>3
<1>9. changed \in SUBSET Docs
  BY <1>2, <1>3
<1> HIDE DEF got, cur
<1>10. \A d \in Docs \ held : r.docs[d] = {} \/ d \in r.held => got[d] = {}
  <2> SUFFICES ASSUME NEW d \in Docs, d \notin held, r.docs[d] = {} \/ d \in r.held,
                      d \in Known(got)
               PROVE  got[d] = {}
    BY <1>7
  <2>1. d \notin r.held /\ d \notin taken
    OBVIOUS
  <2>2. r.docs[d] = {}
    BY <2>1
  <2>3. QED
    BY <1>5, <1>7, <2>1, <2>2
<1> HIDE DEF held, changed
<1>11. /\ q \in Runs /\ q.docs = got /\ q.held = held /\ q.queue = r.queue
       /\ q.own = r.own /\ q.sent = r.sent /\ q.replaced = r.replaced
  BY <1>2, <1>3, <1>6, <1>7, <1>8, <1>9 DEF Runs
<1> HIDE DEF q
<1>12. Unheld(r) => Unheld(q)
  BY <1>10, <1>11 DEF Unheld
<1>13. Whole(r) => Whole(q)
  BY <1>11 DEF Whole
<1>14. ASSUME NEW Q, Carried(r, server, Q) PROVE Carried(q, server, Q)
  <2>1. \A d \in Docs : got[d] \subseteq r.docs[d] \cup server[d]
    BY <1>5, <1>7
  <2>2. \A d \in Docs : q.docs[d] \subseteq server[d] \cup Q[d] \cup q.queue[d]
    BY <1>11, <1>14, <2>1 DEF Carried
  <2>3. QED
    BY <1>11, <1>14, <2>2 DEF Carried
<1>15. Like(q, Applied(r, P))
  BY <1>1, <1>11, RefetchedLike
<1>16. QED
  BY <1>12, <1>13, <1>14, <1>15, LikeKeeps DEF Like

\* The documents to offer again are queued by a run that has nothing queued.
LEMMA ReofferedSound ==
  ASSUME NEW r \in Runs
  PROVE  /\ Reoffered(r) \in Runs
         /\ Unheld(r) => Unheld(Reoffered(r))
         /\ Whole(r) => Whole(Reoffered(r))
         /\ \A S, Q : Carried(r, S, Q) /\ Whole(r) => Carried(Reoffered(r), S, Q)
<1> DEFINE q == Reoffered(r)
<1>1. CASE r.repair = {}
  <2>1. q = [r EXCEPT !.reoffered = {}]
    BY <1>1 DEF Reoffered
  <2>2. Like(r, q)
    BY <2>1 DEF Like, Runs
  <2>3. QED
    BY <2>2, LikeKeeps DEF Like
<1>2. CASE r.repair # {} /\ ~NothingQueued(r.queue)
  BY <1>2 DEF Reoffered
<1>3. CASE r.repair # {} /\ NothingQueued(r.queue)
  <2> DEFINE offer == (r.repair \cap r.held) \ r.reoffered
             Z == [d \in Docs |-> IF d \in offer THEN r.docs[d] ELSE {}]
  <2>1. q = [r EXCEPT !.reoffered = @ \cup r.repair, !.queue = Z]
    BY <1>3 DEF Reoffered
  <2>2. Z \in Documents
    BY DEF Runs, Documents
  <2>3. \A d \in Docs : r.queue[d] = {}
    BY <1>3 DEF NothingQueued
  <2> HIDE DEF Z
  <2>4. /\ q \in Runs /\ q.docs = r.docs /\ q.held = r.held /\ q.queue = Z
        /\ q.own = r.own /\ q.sent = r.sent /\ q.replaced = r.replaced
    BY <2>1, <2>2 DEF Runs
  <2>5. Whole(r) => \A d \in Docs : q.own[d] = {}
    BY <2>3, <2>4 DEF Whole
  <2>6. Whole(r) => Whole(q)
    BY <2>4, <2>5 DEF Whole
  <2>7. ASSUME NEW S, NEW Q, Carried(r, S, Q), Whole(r) PROVE Carried(q, S, Q)
    BY <2>3, <2>4, <2>5, <2>7 DEF Carried
  <2>8. QED
    BY <2>4, <2>6, <2>7 DEF Unheld
<1>4. QED
  BY <1>1, <1>2, <1>3

\* Populating documents and queueing them whole.
Requeued(r, q) ==
  /\ q \in Runs
  /\ Unheld(r) => Unheld(q)
  /\ q.held = r.held
  /\ \A S, Q : Carried(r, S, Q) /\ Unheld(r) => Carried(q, S, Q)

LEMMA SnapshottedSound ==
  ASSUME NEW r \in Runs, NEW A \in SUBSET Docs, NEW B \in SUBSET Docs,
         \A d \in A : d \notin B => d \notin r.held \/ Populated(r.docs[d])
  PROVE  Requeued(r, Snapshotted(Healed(r, A), B))
<1> USE DEF Requeued
<1> DEFINE H == [d \in Docs |->
                  IF d \in A \cap r.held /\ ~Populated(r.docs[d])
                  THEN r.docs[d] \cup Population(d) ELSE r.docs[d]]
           h == Healed(r, A)
           Z == [d \in Docs |-> IF d \notin B THEN r.queue[d]
                                ELSE IF d \in r.held THEN H[d] ELSE {}]
           q == Snapshotted(h, B)
<1>1. H \in Documents
  BY PopulationType DEF Runs, Documents
<1>2. \A d \in Docs : H[d] = IF d \in A \cap r.held /\ ~Populated(r.docs[d])
                             THEN r.docs[d] \cup Population(d) ELSE r.docs[d]
  OBVIOUS
<1>3. h = [r EXCEPT !.docs = H]
  BY DEF Healed
<1> HIDE DEF H, h
<1>4. /\ h \in Runs /\ h.docs = H /\ h.held = r.held /\ h.queue = r.queue /\ h.own = r.own
      /\ h.sent = r.sent /\ h.replaced = r.replaced
  BY <1>1, <1>3 DEF Runs
<1>5. Z \in Documents
  BY <1>1 DEF Runs, Documents
<1>6. \A d \in Docs : Z[d] = IF d \notin B THEN r.queue[d]
                             ELSE IF d \in r.held THEN H[d] ELSE {}
  OBVIOUS
<1>7. q = [h EXCEPT !.queue = Z, !.replaced = @ \cup B]
  BY <1>4 DEF Snapshotted
<1> HIDE DEF Z, q
<1>8. /\ q \in Runs /\ q.docs = H /\ q.held = r.held /\ q.queue = Z /\ q.own = r.own
      /\ q.sent = r.sent /\ q.replaced = r.replaced \cup B
  BY <1>4, <1>5, <1>7 DEF Runs
<1>9. Unheld(r) => Unheld(q)
  BY <1>2, <1>8 DEF Unheld
<1>10. ASSUME NEW S, NEW Q, Carried(r, S, Q), Unheld(r) PROVE Carried(q, S, Q)
  <2>1. ASSUME NEW d \in Docs PROVE q.docs[d] \subseteq S[d] \cup Q[d] \cup q.queue[d]
    <3>1. CASE d \in B /\ d \in r.held
      BY <1>6, <1>8, <3>1
    <3>2. CASE d \notin r.held
      BY <1>2, <1>8, <1>10, <3>2 DEF Unheld
    <3>3. CASE d \notin B /\ d \in r.held
      <4>1. H[d] = r.docs[d]
        BY <1>2, <3>3
      <4>2. QED
        BY <1>6, <1>8, <1>10, <3>3, <4>1 DEF Carried
    <3>4. QED
      BY <3>1, <3>2, <3>3
  <2>2. \A d \in Docs : d \notin q.replaced /\ q.queue[d] # {} => q.own[d] \subseteq q.queue[d]
    BY <1>6, <1>8, <1>10 DEF Carried
  <2>3. QED
    BY <1>8, <1>10, <2>1, <2>2 DEF Carried
<1>11. QED
  BY <1>6, <1>8, <1>9, <1>10 DEF h, q

\* Every document the server lacks is queued whole; what is queued for one that
\* the run does not hold either is dropped.
LEMMA BootstrappedSound ==
  ASSUME NEW r \in Runs, Unheld(r)
  PROVE  /\ Bootstrapped(r) \in Runs /\ Unheld(Bootstrapped(r))
         /\ \A Q : Carried(r, server, Q) => Carried(Bootstrapped(r), server, Q)
<1> DEFINE whole == {d \in r.held : server[d] = {} \/ sync.recovering}
           kept == {d \in whole : Populated(r.docs[d]) /\ Populated(r.queue[d])}
           s == Snapshotted(Healed(r, whole), whole \ kept)
           Z == [d \in Docs |-> IF d \in whole \/ server[d] # {} THEN s.queue[d] ELSE {}]
           q == Bootstrapped(r)
<1>1. r.held \in SUBSET Docs
  BY DEF Runs
<1>2. /\ whole \in SUBSET Docs /\ whole \ kept \in SUBSET Docs
      /\ \A d \in whole : d \notin whole \ kept => Populated(r.docs[d])
  BY <1>1
<1>3. \A d \in Docs : d \notin whole /\ server[d] = {} => d \notin r.held
  OBVIOUS
<1>4. q = [s EXCEPT !.queue = Z]
  BY DEF Bootstrapped
<1> HIDE DEF whole, kept
<1>5. Requeued(r, s)
  BY <1>2, SnapshottedSound
<1> HIDE DEF s
<1>6. /\ s \in Runs /\ Unheld(s) /\ s.held = r.held
      /\ \A Q : Carried(r, server, Q) => Carried(s, server, Q)
  BY <1>5 DEF Requeued
<1>7. Z \in Documents
  BY <1>6 DEF Runs, Documents
<1>8. \A d \in Docs : Z[d] = IF d \in whole \/ server[d] # {} THEN s.queue[d] ELSE {}
  OBVIOUS
<1> HIDE DEF Z, q
<1>9. /\ q \in Runs /\ q.docs = s.docs /\ q.held = s.held /\ q.queue = Z
      /\ q.own = s.own /\ q.sent = s.sent /\ q.replaced = s.replaced
  BY <1>4, <1>6, <1>7 DEF Runs
<1>10. ASSUME NEW Q, Carried(s, server, Q) PROVE Carried(q, server, Q)
  <2>1. ASSUME NEW d \in Docs PROVE q.docs[d] \subseteq server[d] \cup Q[d] \cup q.queue[d]
    <3>1. CASE d \in whole \/ server[d] # {}
      BY <1>8, <1>9, <1>10, <3>1 DEF Carried
    <3>2. CASE ~(d \in whole \/ server[d] # {})
      <4>1. q.docs[d] = {}
        BY <1>3, <1>6, <1>9, <3>2 DEF Unheld
      <4>2. QED
        BY <4>1
    <3>3. QED
      BY <3>1, <3>2
  <2>2. QED
    BY <1>8, <1>9, <1>10, <2>1 DEF Carried
<1>11. QED
  BY <1>6, <1>9, <1>10 DEF Unheld, q

LEMMA PullEndsSound ==
  ASSUME NEW r \in Runs, Unheld(r), PullEnds(r)
  PROVE  /\ run' \in Runs /\ Unheld(run') /\ phase' = "pushing"
         /\ \A Q : Carried(r, server, Q) /\ Whole(r) => Carried(run', server, Q)
<1>1. run' = Bootstrapped(Reoffered(r)) /\ phase' = "pushing"
  BY DEF PullEnds
<1>2. /\ Reoffered(r) \in Runs /\ Unheld(Reoffered(r))
      /\ \A Q : Carried(r, server, Q) /\ Whole(r) => Carried(Reoffered(r), server, Q)
  BY ReofferedSound
<1>3. QED
  BY <1>1, <1>2, BootstrappedSound

(***************************************************************************)
(* The invariant.                                                          *)
(***************************************************************************)
\* Runs fail and answers are lost, and nothing else goes wrong.
Gentle == scope.faults \subseteq {"pull", "push"}

\* A scheme's content and its queued edits came after its entry in the index.
BoundFirst ==
  \A s \in Schemes : docs[s] # {} \/ queue[s] # {} => <<"bind", s>> \in docs[Index]

\* What a device shows of a scheme it lists, or of the index, and the server
\* lacks is queued: it will be sent.
NothingForgotten ==
  Gentle => \A d \in Known(docs) : docs[d] \subseteq server[d] \cup queue[d]

Kept ==
  /\ Carried(run, server, queue)
  /\ phase = "pulling" => Whole(run)
  /\ BoundFirst
  /\ \A d \in Known(docs) : docs[d] \subseteq server[d] \cup queue[d]

PInv == Typed /\ (Gentle => Kept)

LEMMA ScopeType ==
  ASSUME Typed
  PROVE  /\ scope.faults \in SUBSET FaultKinds /\ scope.max \in Nat
         /\ scope.user \in SUBSET ({"create", "type", "destroy"} \X Schemes)
         /\ scope.peers \in SUBSET (Docs \X Struct)
BY ScopeAssumption DEF Typed

\* A failure is counted.
LEMMA FaultCounted ==
  ASSUME Typed, NEW f, Fault(f), scope' = scope
  PROVE  faults' \in 0 .. scope'.max /\ f \in scope.faults
BY ScopeType DEF Typed, Fault

\* The server merges what it is sent.
LEMMA CommitSound ==
  ASSUME Typed, NEW D \in SUBSET Docs, NEW S \in Documents, Commit(D, S)
  PROVE  /\ server' \in Documents /\ sync' \in Syncs
         /\ \A d \in Docs : server[d] \subseteq server'[d]
         /\ \A d \in D : S[d] \subseteq server'[d]
<1>1. server' = [d \in Docs |-> IF d \in D THEN server[d] \cup S[d] ELSE server[d]]
  BY DEF Commit
<1>2. PICK c \in Moved(sync.cur, D) : sync' = [sync EXCEPT !.cur = c]
  BY DEF Commit
<1>3. c \in Cursors
  BY MovedType DEF Typed, Syncs
<1>4. sync' \in Syncs
  BY <1>2, <1>3 DEF Typed, Syncs
<1>5. QED
  BY <1>1, <1>4 DEF Typed, Documents

\* The server's growing loses nothing.
LEMMA MoreOnServer ==
  ASSUME NEW r, NEW S, NEW Q, NEW T, Carried(r, S, Q), \A d \in Docs : S[d] \subseteq T[d]
  PROVE  Carried(r, T, Q)
BY DEF Carried

(***************************************************************************)
(* The server, the other devices and the user.                             *)
(***************************************************************************)
LEMMA PeerPushStep ==
  ASSUME PInv, NEW d \in Docs, NEW e \in Struct, PeerPush(d, e)
  PROVE  PInv'
<1> DEFINE S == [x \in Docs |-> Population(d) \cup {e}]
<1>1. S \in Documents /\ Typed
  BY PopulationType DEF Documents, PInv
<1>2. Commit({d}, S) /\ scope' = scope /\ docs' = docs /\ queue' = queue
      /\ phase' = phase /\ faults' = faults
  BY DEF PeerPush
<1> HIDE DEF S
<1>3. /\ server' \in Documents /\ sync' \in Syncs
      /\ \A x \in Docs : server[x] \subseteq server'[x]
  BY <1>1, <1>2, CommitSound
<1>4. PICK c \in Moved(run.cur, {d}) : run' = [run EXCEPT !.cur = c]
  BY DEF PeerPush
<1>5. run \in Runs /\ c \in Cursors
  BY <1>1, MovedType DEF Typed, Runs
<1>6. Like(run, run')
  BY <1>4, <1>5, FlagsLike
<1>7. Typed'
  BY <1>1, <1>2, <1>3, <1>6, LikeKeeps DEF Typed, Like
<1>8. ASSUME Gentle PROVE Kept'
  <2>1. Kept
    BY <1>8 DEF PInv
  <2>2. Carried(run', server', queue')
    BY <1>2, <1>3, <1>6, <2>1, LikeKeeps, MoreOnServer DEF Kept
  <2>3. \A x \in Known(docs) : docs[x] \subseteq server'[x] \cup queue[x]
    BY <1>3, <2>1, KnownFacts DEF Kept
  <2>4. QED
    BY <1>2, <1>6, <2>1, <2>2, <2>3, LikeKeeps DEF Kept, BoundFirst
<1>9. QED
  BY <1>2, <1>7, <1>8 DEF PInv, Gentle

LEMMA PurgeStep ==
  ASSUME PInv, Purge
  PROVE  PInv'
<1> DEFINE Lost(cur) == [d \in Docs |-> IF cur[d] \in {"behind", "at"} THEN "ahead" ELSE cur[d]]
<1>1. /\ Typed /\ Fault("purge") /\ scope' = scope /\ docs' = docs /\ queue' = queue
      /\ phase' = phase /\ server' = Nothing
      /\ sync' = [sync EXCEPT !.cur = Lost(@)] /\ run' = [run EXCEPT !.cur = Lost(@)]
  BY DEF Purge, PInv
<1>2. \A cur \in Cursors : Lost(cur) \in Cursors
  BY DEF Cursors
<1>3. Lost(sync.cur) \in Cursors /\ Lost(run.cur) \in Cursors /\ run \in Runs
  BY <1>1, <1>2 DEF Typed, Syncs, Runs
<1> HIDE DEF Lost
<1>4. sync' \in Syncs
  BY <1>1, <1>3 DEF Typed, Syncs
<1>5. Like(run, run')
  BY <1>1, <1>3, FlagsLike
<1>6. faults' \in 0 .. scope'.max /\ ~Gentle'
  BY <1>1, FaultCounted DEF Gentle
<1>7. QED
  BY <1>1, <1>4, <1>5, <1>6, NothingType, LikeKeeps DEF PInv, Typed, Like

\* An edit goes to the documents and to the queue.
LEMMA EditStep ==
  ASSUME PInv, NEW S \in Documents, Edit(S),
         Gentle => \A d \in Known(docs') : d \notin Known(docs) => docs[d] = {},
         \A s \in Schemes : S[s] # {} => <<"bind", s>> \in docs'[Index]
  PROVE  PInv'
<1>1. /\ Typed /\ scope' = scope /\ server' = server /\ sync' = sync /\ phase' = phase
      /\ run' = run /\ faults' = faults
      /\ docs' = [d \in Docs |-> docs[d] \cup S[d]]
      /\ queue' = [d \in Docs |-> queue[d] \cup (S[d] \ docs[d])]
  BY DEF Edit, PInv
<1>2. /\ docs' \in Documents /\ queue' \in Documents
      /\ \A d \in Docs : docs'[d] = docs[d] \cup S[d]
      /\ \A d \in Docs : queue'[d] = queue[d] \cup (S[d] \ docs[d])
  BY <1>1 DEF Typed, Documents
<1>3. Typed'
  BY <1>1, <1>2 DEF Typed
<1>4. ASSUME Gentle PROVE Kept'
  <2>1. Kept
    BY <1>4 DEF PInv
  <2>2. Carried(run', server', queue')
    BY <1>1, <1>2, <2>1 DEF Kept, Carried
  <2>3. ASSUME NEW d \in Known(docs') PROVE docs'[d] \subseteq server'[d] \cup queue'[d]
    <3>1. d \in Docs
      BY KnownFacts
    <3>2. docs[d] \subseteq server[d] \cup queue[d]
      BY <1>4, <2>1 DEF Kept
    <3>3. QED
      BY <1>1, <1>2, <3>1, <3>2
  <2>4. BoundFirst'
    <3>1. \A s \in Schemes : s \in Docs /\ Index \in Docs
      BY DEF Docs
    <3>2. QED
      BY <1>2, <2>1, <3>1 DEF Kept, BoundFirst
  <2>5. QED
    BY <1>1, <2>1, <2>2, <2>3, <2>4 DEF Kept
<1>5. QED
  BY <1>1, <1>3, <1>4 DEF PInv, Gentle

LEMMA CreateStep ==
  ASSUME PInv, NEW s \in Schemes, Create(s)
  PROVE  PInv'
<1> DEFINE S == [Nothing EXCEPT ![Index] = {<<"bind", s>>}, ![s] = {<<"base">>}]
<1>1. /\ S \in Documents /\ Index \in Docs /\ s \in Docs /\ s # Index
      /\ S[Index] = {<<"bind", s>>} /\ S[s] = {<<"base">>}
      /\ \A d \in Docs : d # Index /\ d # s => S[d] = {}
  BY NothingType, PopulationType, ScopeAssumption DEF Documents, Docs
<1>2. Edit(S) /\ {<<"bind", s>>, <<"gone", s>>} \cap docs[Index] = {}
  BY DEF Create
<1> HIDE DEF S
<1>3. docs'[Index] = docs[Index] \cup {<<"bind", s>>}
  BY <1>1, <1>2 DEF Edit
<1>4. \A d \in Known(docs') : d \notin Known(docs) => d = s
  BY <1>3 DEF Known, Listed
<1>5. Gentle => docs[s] = {}
  BY <1>2 DEF PInv, Kept, BoundFirst
<1>6. \A t \in Schemes : S[t] # {} => t = s
  BY <1>1, ScopeAssumption DEF Docs
<1>7. QED
  BY <1>1, <1>2, <1>3, <1>4, <1>5, <1>6, EditStep

LEMMA TypeStep ==
  ASSUME PInv, NEW s \in Schemes, Type(s)
  PROVE  PInv'
<1> DEFINE S == [Nothing EXCEPT ![s] = {<<"base">>, <<"mine">>}]
<1>1. /\ S \in Documents /\ Index \in Docs /\ s # Index
      /\ \A d \in Docs : d # s => S[d] = {}
  BY NothingType, PopulationType, ScopeAssumption DEF Documents, Docs
<1>2. Edit(S) /\ s \in Listed(docs[Index])
  BY DEF Type
<1> HIDE DEF S
<1>3. docs'[Index] = docs[Index]
  BY <1>1, <1>2 DEF Edit
<1>4. Known(docs') = Known(docs)
  BY <1>3 DEF Known
<1>5. \A t \in Schemes : S[t] # {} => t = s
  BY <1>1 DEF Docs
<1>6. <<"bind", s>> \in docs'[Index]
  BY <1>2, <1>3 DEF Listed
<1>7. QED
  BY <1>1, <1>2, <1>4, <1>5, <1>6, EditStep

LEMMA DestroyStep ==
  ASSUME PInv, NEW s \in Schemes, Destroy(s)
  PROVE  PInv'
<1> DEFINE S == [Nothing EXCEPT ![Index] = {<<"gone", s>>}]
<1>1. /\ S \in Documents /\ Index \in Docs /\ S[Index] = {<<"gone", s>>}
      /\ \A t \in Schemes : S[t] = {}
  BY NothingType, PopulationType, ScopeAssumption DEF Documents, Docs
<1>2. Edit(S)
  BY DEF Destroy
<1> HIDE DEF S
<1>3. docs'[Index] = docs[Index] \cup {<<"gone", s>>}
  BY <1>1, <1>2 DEF Edit
<1>4. Known(docs') \subseteq Known(docs)
  BY <1>3 DEF Known, Listed
<1>5. QED
  BY <1>1, <1>2, <1>4, EditStep

(***************************************************************************)
(* The pull.                                                               *)
(***************************************************************************)
\* A step of the run that leaves everything else alone.
RunOnly ==
  /\ scope' = scope /\ server' = server /\ docs' = docs /\ queue' = queue
  /\ sync' = sync /\ faults' = faults
  /\ phase' \in {"idle", "pulling", "pushing"}

LEMMA RunOnlyStep ==
  ASSUME PInv, RunOnly, run' \in Runs, Unheld(run'),
         Gentle => Carried(run', server, queue) /\ (phase' = "pulling" => Whole(run'))
  PROVE  PInv'
<1>1. Typed'
  BY DEF PInv, Typed, RunOnly
<1>2. Gentle => Kept'
  BY DEF PInv, RunOnly, Kept, BoundFirst
<1>3. QED
  BY <1>1, <1>2 DEF PInv, Gentle, RunOnly

LEMMA StartRunStep ==
  ASSUME PInv, StartRun
  PROVE  PInv'
<1> DEFINE q == [d \in Docs |-> queue[d] \cup sync.pend[d]]
           r == [NoRun EXCEPT !.docs = Bound(docs), !.held = Known(docs), !.queue = q,
                              !.own = queue, !.cur = sync.cur, !.reoffered = sync.reoffered,
                              !.proof = NothingQueued(q)]
<1>1. /\ RunOnly /\ phase' = "pulling" /\ run' = r
      /\ docs \in Documents /\ queue \in Documents /\ sync \in Syncs
  BY DEF StartRun, RunOnly, PInv, Typed
<1>2. q \in Documents /\ \A d \in Docs : q[d] = queue[d] \cup sync.pend[d]
  BY <1>1 DEF Documents, Syncs
<1>3. /\ Bound(docs) \in Documents /\ Known(docs) \in SUBSET Docs
      /\ \A d \in Docs : Bound(docs)[d] = IF d \in Known(docs) THEN docs[d] ELSE {}
  BY <1>1, BoundFacts, KnownFacts
<1>4. NothingQueued(q) \in BOOLEAN
  BY DEF NothingQueued
<1> HIDE DEF q
<1>5. /\ r \in Runs /\ r.docs = Bound(docs) /\ r.held = Known(docs) /\ r.queue = q
      /\ r.own = queue /\ r.sent = Nothing /\ r.replaced = {}
  <2>1. r \in Runs
    BY <1>1, <1>2, <1>3, <1>4, NoRunType DEF Runs, Syncs
  <2>2. /\ r.docs = Bound(docs) /\ r.held = Known(docs) /\ r.queue = q
        /\ r.own = queue /\ r.sent = Nothing /\ r.replaced = {}
    BY DEF NoRun
  <2>3. QED
    BY <2>1, <2>2
<1> HIDE DEF r
<1>6. Unheld(r) /\ Whole(r)
  BY <1>2, <1>3, <1>5 DEF Unheld, Whole
<1>7. Gentle => Carried(r, server, queue)
  BY <1>2, <1>3, <1>5, NothingType DEF Carried, PInv, Kept
<1>8. QED
  BY <1>1, <1>5, <1>6, <1>7, RunOnlyStep

\* The pull asks again, with a run like r.
LEMMA PullOnStep ==
  ASSUME PInv, RunOnly, NEW r \in Runs, Unheld(r), PullOn(r),
         Gentle => Carried(r, server, queue) /\ Whole(r)
  PROVE  PInv'
<1>1. run' = [r EXCEPT !.turn = ~@]
  BY DEF PullOn
<1>2. Like(r, run')
  BY <1>1, FlagsLike
<1>3. QED
  BY <1>2, LikeKeeps, RunOnlyStep DEF Like

LEMMA PullEndsStep ==
  ASSUME PInv, RunOnly, NEW r \in Runs, Unheld(r), PullEnds(r),
         Gentle => Carried(r, server, queue) /\ Whole(r)
  PROVE  PInv'
<1>1. /\ run' \in Runs /\ Unheld(run') /\ phase' = "pushing"
      /\ Gentle => Carried(run', server, queue)
  BY PullEndsSound
<1>2. QED
  BY <1>1, RunOnlyStep

\* What a pull starts each of its steps from.
LEMMA Pulling ==
  ASSUME PInv, phase = "pulling"
  PROVE  /\ run \in Runs /\ Unheld(run) /\ server \in Documents
         /\ Gentle => Carried(run, server, queue) /\ Whole(run)
BY DEF PInv, Typed, Kept

LEMMA PullingLike ==
  ASSUME PInv, phase = "pulling", NEW r, Like(run, r)
  PROVE  /\ r \in Runs /\ Unheld(r)
         /\ Gentle => Carried(r, server, queue) /\ Whole(r)
BY Pulling, LikeKeeps DEF Like

LEMMA PullStep ==
  ASSUME PInv, PullMismatch \/ PullReconcile \/ PullNothing \/ PullPage
  PROVE  PInv'
<1>1. run \in Runs /\ phase = "pulling" /\ RunOnly
  BY DEF PInv, Typed, PullMismatch, PullReconcile, PullNothing, PullPage, RunOnly,
         PullOn, PullEnds
<1>2. CASE PullMismatch
  <2> DEFINE r == [ProofDone(run) EXCEPT !.cur = Zeroed(@, Mismatches(run)),
                                         !.repair = @ \cup Mismatches(run)]
  <2>1. Mismatches(run) \in SUBSET Docs
    BY <1>1 DEF Mismatches, Runs
  <2>2. Like(run, r)
    BY <1>1, <2>1, MismatchLike
  <2>3. PullOn(r)
    BY <1>2 DEF PullMismatch
  <2> HIDE DEF r
  <2>4. QED
    BY <1>1, <2>2, <2>3, PullingLike, PullOnStep
<1>3. CASE PullReconcile
  <2>1. Like(run, AfterProof(run))
    BY <1>1, FlagsLike
  <2>2. Like(run, Reconciled(AfterProof(run)))
    BY <2>1, ReconciledLike, LikeTransitive DEF Like
  <2>3. PullOn(Reconciled(AfterProof(run)))
    BY <1>3 DEF PullReconcile
  <2>4. QED
    BY <1>1, <2>2, <2>3, PullingLike, PullOnStep
<1>4. CASE PullNothing
  <2>1. Like(run, AfterProof(run))
    BY <1>1, FlagsLike
  <2>2. PullEnds(AfterProof(run))
    BY <1>4 DEF PullNothing
  <2>3. QED
    BY <1>1, <2>1, <2>2, PullingLike, PullEndsStep
<1>5. CASE PullPage
  <2>1. PICK P \in SUBSET Docs :
          \/ PullOn(Applied(run, P))
          \/ PullOn([Applied(run, P) EXCEPT !.asked = TRUE])
          \/ PullEnds(Applied(run, P))
    BY <1>5 DEF PullPage, Due
  <2> DEFINE r == Applied(run, P)
  <2>2. /\ r \in Runs /\ Unheld(r)
        /\ Gentle => Carried(r, server, queue) /\ Whole(r)
    BY <1>1, Pulling, AppliedSound
  <2> HIDE DEF r
  <2>3. CASE PullOn(r)
    BY <1>1, <2>2, <2>3, PullOnStep
  <2>4. CASE PullOn([r EXCEPT !.asked = TRUE])
    <3>1. Like(r, [r EXCEPT !.asked = TRUE])
      BY <2>2, FlagsLike
    <3>2. QED
      BY <1>1, <2>2, <2>4, <3>1, LikeKeeps, PullOnStep DEF Like
  <2>5. CASE PullEnds(r)
    BY <1>1, <2>2, <2>5, PullEndsStep
  <2>6. QED
    BY <2>1, <2>3, <2>4, <2>5 DEF r
<1>6. QED
  BY <1>2, <1>3, <1>4, <1>5

\* A step after which there is no run and the store is as it was.
LEMMA RunGoneStep ==
  ASSUME PInv, run' = NoRun, phase' = "idle", scope' = scope, docs' = docs,
         queue' = queue, faults' \in 0 .. scope.max, sync' \in Syncs,
         server' \in Documents, \A d \in Docs : server[d] \subseteq server'[d]
  PROVE  PInv'
<1>1. Typed'
  BY NoRunType DEF PInv, Typed
<1>2. ASSUME Gentle PROVE Kept'
  <2>1. Kept
    BY <1>2 DEF PInv
  <2>2. Carried(run', server', queue')
    BY NoRunType
  <2>3. \A d \in Known(docs) : docs[d] \subseteq server'[d] \cup queue[d]
    BY <2>1, KnownFacts DEF Kept
  <2>4. QED
    BY <2>1, <2>2, <2>3 DEF Kept, BoundFirst
<1>3. QED
  BY <1>1, <1>2 DEF PInv, Gentle

LEMMA PullFailsStep ==
  ASSUME PInv, PullFails
  PROVE  PInv'
BY FaultCounted, RunGoneStep DEF PullFails, PInv, Typed

(***************************************************************************)
(* The push, and the landing.                                              *)
(***************************************************************************)
LEMMA AcceptStep ==
  ASSUME PInv, NEW D \in SUBSET Docs, Accept(D)
  PROVE  PInv'
<1>1. /\ Typed /\ phase = "pushing" /\ Request(D) /\ Commit(D, run.queue)
      /\ scope' = scope /\ docs' = docs /\ queue' = queue /\ phase' = phase /\ faults' = faults
      /\ run \in Runs /\ run.queue \in Documents /\ run.own \in Documents
      /\ run.sent \in Documents /\ Unheld(run)
  BY DEF Accept, PInv, Typed, Runs
<1>2. /\ server' \in Documents /\ sync' \in Syncs
      /\ \A d \in Docs : server[d] \subseteq server'[d]
      /\ \A d \in D : run.queue[d] \subseteq server'[d]
  BY <1>1, CommitSound
<1> DEFINE Z == [d \in Docs |-> IF d \in D THEN {} ELSE run.queue[d]]
           sent == [d \in Docs |-> IF d \in D \ run.replaced THEN run.own[d] ELSE run.sent[d]]
           cur(c) == [d \in Docs |-> IF d \in D /\ c[d] = "none" THEN "zero" ELSE c[d]]
<1>3. PICK c \in Moved(run.cur, D) :
        run' = [run EXCEPT !.queue = Z, !.sent = sent, !.cur = cur(c)]
  BY DEF Accept
<1>4. c \in Cursors
  BY <1>1, MovedType DEF Runs
<1>5. cur(c) \in Cursors
  BY <1>4 DEF Cursors
<1>6. Z \in Documents /\ sent \in Documents
  BY <1>1 DEF Documents
<1>7. /\ \A d \in Docs : Z[d] = IF d \in D THEN {} ELSE run.queue[d]
      /\ \A d \in Docs : sent[d] = IF d \in D \ run.replaced THEN run.own[d] ELSE run.sent[d]
  OBVIOUS
<1> HIDE DEF Z, sent, cur
<1>8. /\ run' \in Runs /\ run'.docs = run.docs /\ run'.held = run.held /\ run'.queue = Z
      /\ run'.own = run.own /\ run'.sent = sent /\ run'.replaced = run.replaced
  BY <1>1, <1>3, <1>5, <1>6 DEF Runs
<1>9. Typed'
  BY <1>1, <1>2, <1>8 DEF Typed, Unheld
<1>10. ASSUME Gentle PROVE Kept'
  <2>1. Kept
    BY <1>10 DEF PInv
  <2>2. \A d \in Docs : run'.docs[d] \subseteq server'[d] \cup queue'[d] \cup run'.queue[d]
    <3> SUFFICES ASSUME NEW d \in Docs
                 PROVE  run'.docs[d] \subseteq server'[d] \cup queue'[d] \cup run'.queue[d]
      OBVIOUS
    <3>1. run.docs[d] \subseteq server[d] \cup queue[d] \cup run.queue[d]
      BY <2>1 DEF Kept, Carried
    <3>2. run.queue[d] \subseteq server'[d] \cup Z[d]
      BY <1>2, <1>7
    <3>3. QED
      BY <1>1, <1>2, <1>8, <3>1, <3>2
  <2>3. \A d \in Docs : run'.sent[d] \subseteq server'[d]
    <3> SUFFICES ASSUME NEW d \in Docs PROVE sent[d] \subseteq server'[d]
      BY <1>8
    <3>1. CASE d \in D \ run.replaced
      <4>1. run.queue[d] # {}
        BY <1>1, <3>1 DEF Request
      <4>2. run.own[d] \subseteq run.queue[d]
        BY <2>1, <3>1, <4>1 DEF Kept, Carried
      <4>3. QED
        BY <1>2, <1>7, <3>1, <4>2
    <3>2. CASE d \notin D \ run.replaced
      BY <1>2, <1>7, <2>1, <3>2 DEF Kept, Carried
    <3>3. QED
      BY <3>1, <3>2
  <2>4. \A d \in Docs : d \notin run'.replaced /\ run'.queue[d] # {}
                          => run'.own[d] \subseteq run'.queue[d]
    BY <1>7, <1>8, <2>1 DEF Kept, Carried
  <2>5. \A d \in Known(docs) : docs[d] \subseteq server'[d] \cup queue[d]
    BY <1>2, <2>1, KnownFacts DEF Kept
  <2>6. QED
    BY <1>1, <2>1, <2>2, <2>3, <2>4, <2>5 DEF Kept, Carried, BoundFirst
<1>11. QED
  BY <1>1, <1>9, <1>10 DEF PInv, Gentle

LEMMA RejectStep ==
  ASSUME PInv, NEW D \in SUBSET Docs, Reject(D)
  PROVE  PInv'
<1> DEFINE s == Snapshotted(Healed(run, D), D)
<1>1. /\ RunOnly /\ run' = [s EXCEPT !.reseeded = @ \cup D] /\ phase' = "pushing"
      /\ run \in Runs /\ Unheld(run)
  BY DEF Reject, RunOnly, PInv, Typed
<1>2. Requeued(run, s)
  BY <1>1, SnapshottedSound
<1> HIDE DEF s
<1>3. Like(s, run')
  BY <1>1, <1>2 DEF Requeued, Like, Runs
<1>4. Gentle => Carried(s, server, queue)
  BY <1>1, <1>2 DEF Requeued, PInv, Kept
<1>5. QED
  BY <1>1, <1>2, <1>3, <1>4, LikeKeeps, RunOnlyStep DEF Requeued, Like

LEMMA PushFailsStep ==
  ASSUME PInv, NEW D \in SUBSET Docs, PushFails(D)
  PROVE  PInv'
<1>1. /\ Typed /\ scope' = scope /\ docs' = docs /\ queue' = queue /\ phase' = "idle"
      /\ run' = NoRun /\ run \in Runs /\ server \in Documents /\ sync \in Syncs
      /\ faults \in 0 .. scope.max
  BY DEF PushFails, PInv, Typed
<1>2. /\ run.queue \in Documents /\ run.cur \in Cursors /\ run.reoffered \in SUBSET Docs
  BY <1>1 DEF Runs
<1>3. Zeroed(run.cur, run.changed) \in Cursors
  BY <1>2, ZeroedType
<1>4. \A c \in Cursors : [sync EXCEPT !.cur = c, !.pend = run.queue,
                                      !.reoffered = run.reoffered] \in Syncs
  BY <1>1, <1>2 DEF Syncs
<1>5. Abandon => sync' \in Syncs
  BY <1>3, <1>4 DEF Abandon
<1>6. CASE Fault("push") /\ Abandon /\ server' = server
  BY <1>1, <1>5, <1>6, FaultCounted, RunGoneStep
<1>7. CASE Abandon /\ server' = server /\ faults' = faults
  BY <1>1, <1>5, <1>7, RunGoneStep
<1>8. CASE /\ Fault("push")
           /\ server' = [d \in Docs |-> IF d \in D THEN server[d] \cup run.queue[d] ELSE server[d]]
           /\ \E c \in Moved(Zeroed(run.cur, run.changed), D) :
                sync' = [sync EXCEPT !.cur = c, !.pend = run.queue, !.reoffered = run.reoffered]
  <2>1. sync' \in Syncs
    BY <1>3, <1>4, <1>8, MovedType
  <2>2. server' \in Documents /\ \A d \in Docs : server[d] \subseteq server'[d]
    BY <1>1, <1>2, <1>8 DEF Documents
  <2>3. QED
    BY <1>1, <1>8, <2>1, <2>2, FaultCounted, RunGoneStep
<1>9. QED
  BY <1>6, <1>7, <1>8 DEF PushFails

LEMMA LandStep ==
  ASSUME PInv, Land
  PROVE  PInv'
<1> DEFINE D == [d \in Docs |-> docs[d] \cup run.docs[d]]
<1>1. /\ Typed /\ phase = "pushing" /\ NothingQueued(run.queue)
      /\ queue' = [d \in Docs |-> StillQueued(d)]
      /\ docs' = IF run.changed = {} THEN docs ELSE Bound(D)
      /\ sync' = [sync EXCEPT !.cur = run.cur, !.pend = Nothing, !.reoffered = run.reoffered]
      /\ phase' = "idle" /\ run' = NoRun /\ scope' = scope /\ server' = server
      /\ faults' = faults
      /\ run \in Runs /\ docs \in Documents /\ queue \in Documents /\ sync \in Syncs
      /\ run.docs \in Documents
  BY DEF Land, PInv, Typed, Runs
<1>2. D \in Documents /\ \A d \in Docs : D[d] = docs[d] \cup run.docs[d]
  BY <1>1 DEF Documents
<1> HIDE DEF D
<1>3. sync' \in Syncs
  BY <1>1, NothingType DEF Syncs, Runs
<1>4. \A d \in Docs : StillQueued(d) \subseteq queue[d]
  BY DEF StillQueued
<1>5. queue' \in Documents /\ \A d \in Docs : queue'[d] = StillQueued(d)
  BY <1>1, <1>4 DEF Documents
<1>6. docs' \in Documents
  BY <1>1, <1>2, BoundFacts
<1>7. Typed'
  BY <1>1, <1>3, <1>5, <1>6, NoRunType DEF Typed
<1>8. ASSUME Gentle PROVE Kept'
  <2>1. /\ Kept /\ \A d \in Docs : run.queue[d] = {}
    BY <1>1, <1>8 DEF PInv, NothingQueued
  <2>2. /\ \A d \in Docs : run.docs[d] \subseteq server[d] \cup queue[d]
        /\ \A d \in Docs : run.sent[d] \subseteq server[d]
    BY <2>1 DEF Kept, Carried
  <2>3. docs[Index] \subseteq docs'[Index]
    <3>1. Index \in Docs /\ Index \in Known(D)
      BY KnownFacts
    <3>2. QED
      BY <1>1, <1>2, <3>1, BoundFacts
  <2>4. \A d \in Docs : docs'[d] \subseteq docs[d] \cup run.docs[d]
    BY <1>1, <1>2, BoundFacts
  <2>5. BoundFirst'
    <3> SUFFICES ASSUME NEW s \in Schemes, docs'[s] # {} \/ queue'[s] # {}
                 PROVE  <<"bind", s>> \in docs'[Index]
      BY DEF BoundFirst
    <3>0. s \in Docs
      BY DEF Docs
    <3>1. CASE docs[s] # {} \/ queue[s] # {}
      BY <2>1, <2>3, <3>1 DEF Kept, BoundFirst
    <3>2. CASE docs[s] = {} /\ queue[s] = {}
      <4>1. docs'[s] # {} /\ run.changed # {}
        BY <1>1, <1>4, <1>5, <3>0, <3>2
      <4>2. s \in Known(D) /\ Known(docs') = Known(D)
        BY <1>1, <1>2, <3>0, <4>1, BoundFacts
      <4>3. s # Index
        BY ScopeAssumption
      <4>4. QED
        BY <4>2, <4>3 DEF Known, Listed
    <3>3. QED
      BY <3>1, <3>2
  <2>6. ASSUME NEW d \in Known(docs') PROVE docs'[d] \subseteq server'[d] \cup queue'[d]
    <3>0. d \in Docs
      BY KnownFacts
    <3>1. CASE d \in Known(docs)
      <4>1. docs'[d] \subseteq server[d] \cup queue[d]
        BY <2>1, <2>2, <2>4, <3>0, <3>1 DEF Kept
      <4>2. queue'[d] = queue[d] \ run.sent[d]
        BY <1>5, <3>0, <3>1 DEF StillQueued
      <4>3. QED
        BY <1>1, <2>2, <3>0, <4>1, <4>2
    <3>2. CASE d \notin Known(docs)
      <4>1. d \in Schemes /\ <<"gone", d>> \notin docs'[Index]
        BY <3>2 DEF Known, Listed
      <4>2. <<"bind", d>> \notin docs[Index]
        BY <2>3, <3>2, <4>1 DEF Known, Listed
      <4>3. docs[d] = {} /\ queue[d] = {}
        BY <2>1, <4>1, <4>2 DEF Kept, BoundFirst
      <4>4. QED
        BY <1>1, <2>2, <2>4, <3>0, <4>3
    <3>3. QED
      BY <3>1, <3>2
  <2>7. Carried(run', server', queue')
    BY <1>1, NoRunType
  <2>8. QED
    BY <1>1, <2>5, <2>6, <2>7 DEF Kept
<1>9. QED
  BY <1>1, <1>7, <1>8 DEF PInv, Gentle

(***************************************************************************)
(* The files.                                                              *)
(***************************************************************************)
LEMMA FilesStep ==
  ASSUME PInv, Save \/ Crash \/ Damage
  PROVE  PInv'
<1>1. Typed /\ sync \in Syncs
  BY DEF PInv, Typed
<1>2. CASE Save
  <2>1. sync' = [sync EXCEPT !.pend = Nothing]
    BY <1>2 DEF Save
  <2>2. sync' \in Syncs
    BY <1>1, <2>1, NothingType DEF Syncs
  <2>3. QED
    BY <1>2, <2>2 DEF Save, PInv, Typed, Gentle, Kept, BoundFirst
<1>3. CASE Crash
  <2>1. ~Gentle' /\ faults' \in 0 .. scope'.max
    BY <1>1, <1>3, FaultCounted DEF Crash, Gentle
  <2>2. QED
    BY <1>1, <1>3, <2>1, NothingType, NoRunType DEF Crash, PInv, Typed
<1>4. CASE Damage
  <2>1. ~Gentle' /\ faults' \in 0 .. scope'.max
    BY <1>1, <1>4, FaultCounted DEF Damage, Gentle
  <2>2. NoCursors \in Cursors
    BY DEF NoCursors, Cursors
  <2>3. sync' \in Syncs
    BY <1>4, <2>2, NothingType DEF Damage, Syncs
  <2>4. QED
    BY <1>1, <1>4, <2>1, <2>3, NothingType DEF Damage, PInv, Typed
<1>5. QED
  BY <1>2, <1>3, <1>4

(***************************************************************************)
(* The theorems.                                                           *)
(***************************************************************************)
LEMMA InitSound == Init => PInv
<1> SUFFICES ASSUME Init PROVE PInv
  OBVIOUS
<1>1. /\ scope \in Scopes /\ server = docs /\ queue = Nothing /\ phase = "idle"
      /\ run = NoRun /\ faults = 0
      /\ docs = [d \in Docs |-> IF d \in {Index} \cup Initial THEN Population(d) ELSE {}]
      /\ sync = [cur |-> [d \in Docs |-> IF docs[d] = {} THEN "none" ELSE "at"],
                 pend |-> Nothing, reoffered |-> {}, recovering |-> FALSE]
  BY DEF Init
<1>2. docs \in Documents
  BY <1>1, PopulationType DEF Documents
<1>3. [d \in Docs |-> IF docs[d] = {} THEN "none" ELSE "at"] \in Cursors
  BY DEF Cursors
<1>4. sync \in Syncs
  BY <1>1, <1>3, NothingType DEF Syncs
<1>5. faults \in 0 .. scope.max
  BY <1>1, ScopeAssumption
<1>6. Typed
  BY <1>1, <1>2, <1>4, <1>5, NothingType, NoRunType DEF Typed
<1>7. BoundFirst
  <2> SUFFICES ASSUME NEW s \in Schemes, docs[s] # {} \/ queue[s] # {}
               PROVE  <<"bind", s>> \in docs[Index]
    BY DEF BoundFirst
  <2>1. s \in Docs /\ Index \in Docs /\ s # Index
    BY ScopeAssumption DEF Docs
  <2>2. s \in Initial
    BY <1>1, <2>1, NothingType
  <2>3. <<"bind", s>> \in Population(Index)
    BY <2>2 DEF Population
  <2>4. QED
    BY <1>1, <2>1, <2>3
<1>8. Kept
  BY <1>1, <1>7, NoRunType DEF Kept
<1>9. QED
  BY <1>6, <1>8 DEF PInv

LEMMA NextSound == PInv /\ [Next]_vars => PInv'
<1> SUFFICES ASSUME PInv, [Next]_vars PROVE PInv'
  OBVIOUS
<1>1. CASE \E d \in Docs, e \in Struct : PeerPush(d, e)
  BY <1>1, PeerPushStep
<1>2. CASE Purge
  BY <1>2, PurgeStep
<1>3. CASE \E s \in Schemes : Create(s) \/ Type(s) \/ Destroy(s)
  BY <1>3, CreateStep, TypeStep, DestroyStep
<1>4. CASE RunStep
  <2>1. CASE StartRun
    BY <2>1, StartRunStep
  <2>2. CASE PullMismatch \/ PullReconcile \/ PullNothing \/ PullPage
    BY <2>2, PullStep
  <2>3. CASE \E D \in SUBSET Docs : Accept(D) \/ Reject(D)
    BY <2>3, AcceptStep, RejectStep
  <2>4. CASE Land
    BY <2>4, LandStep
  <2>5. QED
    BY <1>4, <2>1, <2>2, <2>3, <2>4 DEF RunStep
<1>5. CASE PullFails
  BY <1>5, PullFailsStep
<1>6. CASE \E D \in SUBSET Docs : PushFails(D)
  BY <1>6, PushFailsStep
<1>7. CASE Save \/ Crash \/ Damage
  BY <1>7, FilesStep
<1>8. CASE UNCHANGED vars
  BY <1>8 DEF vars, PInv, Typed, Gentle, Kept, BoundFirst
<1>9. QED
  BY <1>1, <1>2, <1>3, <1>4, <1>5, <1>6, <1>7, <1>8 DEF Next

\* The inductive invariant: the types, and what the store and a run in flight owe
\* to the server, through every page, refused push, lost answer and landing.
THEOREM RunsCarry == Spec => []PInv
<1>1. QED
  BY InitSound, NextSound, PTL DEF Spec

\* Every variable keeps its type, a run has nothing of a document it does not hold,
\* and failures stay within the scope's bound.
THEOREM TypeCorrect == Spec => []TypeOK
<1>1. PInv => TypeOK
  BY DEF PInv, Typed, TypeOK, Runs, Syncs, Unheld
<1>2. QED
  BY <1>1, RunsCarry, PTL

\* Whatever order pages and pushes come in, whatever the user and the other devices
\* do meanwhile and whichever runs fail: what a device shows of the index or of a
\* scheme it lists and the server does not have is in the store's queue, so that a
\* landing acknowledges no edit the server did not take.
THEOREM EditsStayQueued == Spec => []NothingForgotten
<1>1. PInv => NothingForgotten
  BY DEF PInv, Kept, NothingForgotten
<1>2. QED
  BY <1>1, RunsCarry, PTL
=============================================================================
