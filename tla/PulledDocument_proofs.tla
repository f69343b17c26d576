------------------------- MODULE PulledDocument_proofs -------------------------
(***************************************************************************)
(* Proofs about PulledDocument: type correctness, that the server keeps    *)
(* what it shows, that the saved cursor claims no more than the device     *)
(* has, that no document holds two histories, and that what the user sees  *)
(* stays.                                                                  *)
(***************************************************************************)
EXTENDS PulledDocument, FiniteSetTheorems, SequenceTheorems, TLAPS

(***************************************************************************)
(* Documents.                                                              *)
(***************************************************************************)
\* A document: its structs all integrate, its population among them.
Doc(S) == S \subseteq Struct /\ Held(S) = S /\ base \in Visible(S)

\* What integrates in a set of structs integrates in a larger one (Held).
LEMMA HeldGrows ==
  ASSUME NEW S, NEW T, S \subseteq T
  PROVE  /\ Held(S) \subseteq S
         /\ Held(S) \subseteq Held(T)
         /\ Visible(S) \subseteq Visible(T)
  BY DEF Held, Visible

\* Dropping what does not integrate is done once, and hides nothing.
LEMMA HeldTwice ==
  ASSUME NEW S
  PROVE  Held(Held(S)) = Held(S) /\ Visible(Held(S)) = Visible(S)
<1>1. \A s \in Held(S) : <<s[1], base>> \in Held(S)
  BY DEF Held
<1>2. Held(Held(S)) = Held(S)
  BY <1>1 DEF Held
<1> QED  BY <1>2 DEF Visible

\* What integrates of structs that hold a population is a document.
LEMMA HeldIsDoc ==
  ASSUME NEW S, S \subseteq Struct, base \in Visible(S)
  PROVE  Doc(Held(S)) /\ Visible(Held(S)) = Visible(S)
  BY HeldTwice, HeldGrows DEF Doc

\* A document shows the content of all its structs.
LEMMA DocShows ==
  ASSUME NEW S, Doc(S)
  PROVE  /\ Visible(S) = {s[2] : s \in S}
         /\ Visible(S) \subseteq Content
         /\ S # {}
  BY DEF Doc, Visible, Struct

\* Two documents that are merged are a document.
LEMMA DocUnion ==
  ASSUME NEW S, Doc(S), NEW T, Doc(T)
  PROVE  Doc(S \cup T) /\ Visible(S \cup T) = Visible(S) \cup Visible(T)
<1>1. Held(S \cup T) = S \cup T
  BY HeldGrows DEF Doc, Held
<1>2. base \in Visible(S \cup T)
  BY HeldGrows DEF Doc
<1> QED  BY <1>1, <1>2 DEF Doc, Visible

\* New content in a history the document holds integrates.
LEMMA DocAdd ==
  ASSUME NEW S, Doc(S), NEW k \in 0 .. MaxEpoch, <<k, base>> \in S,
         NEW C, C \subseteq Content
  PROVE  /\ Doc(S \cup Fresh(k, C))
         /\ Visible(S \cup Fresh(k, C)) = Visible(S) \cup C
<1>1. Fresh(k, C) \subseteq Struct
  BY DEF Fresh, Struct
<1>2. \A f \in Fresh(k, C) : f[1] = k /\ f[2] \in C
  BY DEF Fresh
<1>3. Held(S \cup Fresh(k, C)) = S \cup Fresh(k, C)
  BY <1>2 DEF Doc, Held
<1>4. base \in Visible(S \cup Fresh(k, C))
  BY HeldGrows DEF Doc
<1>5. \A c \in C : <<k, c>> \in Fresh(k, C) /\ <<k, c>>[2] = c
  BY DEF Fresh
<1>6. {s[2] : s \in S \cup Fresh(k, C)} = {s[2] : s \in S} \cup C
  BY <1>2, <1>5
<1> QED  BY <1>1, <1>3, <1>4, <1>6 DEF Doc, Visible

\* A rebuilt document is one, and shows the content it was rebuilt from.
LEMMA DocFresh ==
  ASSUME NEW k \in 0 .. MaxEpoch, NEW C, C \subseteq Content, base \in C
  PROVE  /\ Doc(Fresh(k, C)) /\ Visible(Fresh(k, C)) = C
         /\ <<k, base>> \in Fresh(k, C)
<1>1. /\ Fresh(k, C) \subseteq Struct
      /\ <<k, base>> \in Fresh(k, C)
  BY DEF Fresh, Struct
<1>2. \A f \in Fresh(k, C) : f[1] = k /\ f[2] \in C
  BY DEF Fresh
<1>3. Held(Fresh(k, C)) = Fresh(k, C)
  BY <1>1, <1>2 DEF Held
<1>4. \A c \in C : <<k, c>> \in Fresh(k, C) /\ <<k, c>>[2] = c
  BY DEF Fresh
<1>5. {s[2] : s \in Fresh(k, C)} = C
  BY <1>2, <1>4
<1> QED  BY <1>1, <1>3, <1>5 DEF Doc, Visible

(***************************************************************************)
(* Part 1. What holds in every scope.                                      *)
(***************************************************************************)
\* The phases in which a run has a document, and those after its pull.
Pulled == {"pulled", "pushing", "pushed", "saved", "squashed", "adopted", "landing"}
Loaded == Pulled \cup {"pulling"}

SyncType == [cur : Cursor, unlanded : BOOLEAN, reoffered : BOOLEAN]

\* A cursor is of a state the server had.
Behind(cur, head) ==
  /\ cur \in Cursor
  /\ cur.seq <= head.seq
  /\ cur.epoch <= head.epoch
  /\ cur.seq = head.seq => cur.epoch = head.epoch

\* The server's document is of its epoch, and shows all it ever showed.
ServerOK ==
  /\ server \in [doc : SUBSET Struct, seq : Nat, epoch : 0 .. MaxEpoch]
  /\ Doc(server.doc)
  /\ <<server.epoch, base>> \in server.doc
  /\ server.seq >= 1
  /\ log \in Seq(SUBSET Content)
  /\ Len(log) = server.seq
  /\ \A i \in 1 .. server.seq : log[i] \subseteq Visible(server.doc)
  /\ log[server.seq] = Visible(server.doc)

LiveOK ==
  /\ up \in BOOLEAN
  /\ live \in [doc : SUBSET Struct, pend : SUBSET Struct]
  /\ IF up THEN Doc(live.doc)
     ELSE live.doc = {} /\ live.pend = {} /\ saving.step = "none" /\ phase = "idle"

DiskOK ==
  /\ disk \in [doc : SUBSET Struct, pend : SUBSET Struct, cur : Cursor,
               unlanded : BOOLEAN, reoffered : BOOLEAN]
  /\ Doc(disk.doc)
  /\ Behind(disk.cur, server)

SavingOK ==
  /\ saving \in [step : {"none", "encode", "queue", "write", "doc"}, doc : SUBSET Struct,
                 pend : SUBSET Struct, sync : SyncType]
  /\ IF saving.step = "none" THEN saving.doc = {} /\ saving.pend = {} ELSE Doc(saving.doc)
  /\ Behind(saving.sync.cur, server)

RunType ==
  [doc : SUBSET Struct, pend : SUBSET Struct, cur : Cursor,
   pulled : BOOLEAN, sent : SUBSET Struct, edited : BOOLEAN,
   reoffered : BOOLEAN, retried : BOOLEAN]
RunOK ==
  /\ phase \in Phases
  /\ run \in RunType
  /\ IF phase \in Loaded THEN Doc(run.doc) ELSE run.doc = {}
  /\ phase \notin Pulled => ~run.pulled /\ run.sent = {}
  /\ phase \in {"idle", "stale"} => run.pend = {}
  /\ Behind(run.cur, server)

Bounds == scope \in Scopes /\ faults \in 0 .. scope.max

\* A run that found nothing to do holds what the server it saw holds: what a
\* proposed squash rests on.
QuietRun ==
  phase \in Pulled /\ run.pend = {} /\ run.sent = {} /\ ~run.pulled /\ run.cur = ServerHead
  => Visible(server.doc) \subseteq Visible(run.doc)

TInv == ServerOK /\ LiveOK /\ DiskOK /\ SavingOK /\ RunOK /\ Bounds /\ QuietRun

\* What a step keeps in every scope.
Kept == TInv' /\ Visible(server.doc) \subseteq Visible(server.doc)'

\* A commit that hides nothing keeps the server in order, and leaves every
\* cursor behind (Commit).
LEMMA CommitFacts ==
  ASSUME ServerOK, NEW doc, NEW ep \in 0 .. MaxEpoch, Commit(doc, ep),
         Doc(doc), <<ep, base>> \in doc, server.epoch <= ep,
         Visible(server.doc) \subseteq Visible(doc)
  PROVE  /\ ServerOK'
         /\ Visible(server.doc) \subseteq Visible(server.doc)'
         /\ \A c : Behind(c, server) => Behind(c, server') /\ c.seq < server'.seq
         /\ \A i \in 1 .. server.seq : log'[i] = log[i]
         /\ server'.doc = doc /\ server'.epoch = ep
<1> USE ScopeAssumption
<1>1. server' = [doc |-> doc, seq |-> server.seq + 1, epoch |-> ep]
  BY DEF Commit
<1>2. /\ server' \in [doc : SUBSET Struct, seq : Nat, epoch : 0 .. MaxEpoch]
      /\ server'.doc = doc /\ server'.seq = server.seq + 1 /\ server'.epoch = ep
  BY <1>1 DEF ServerOK, Doc
<1>3. Visible(doc) \subseteq Content
  BY DocShows
<1>4. /\ log' \in Seq(SUBSET Content) /\ Len(log') = server.seq + 1
      /\ \A i \in 1 .. server.seq : log'[i] = log[i]
      /\ log'[server.seq + 1] = Visible(doc)
  BY <1>3 DEF Commit, ServerOK
<1>5. \A i \in 1 .. server'.seq : log'[i] \subseteq Visible(doc)
  <2> TAKE i \in 1 .. server'.seq
  <2>1. CASE i = server.seq + 1
    BY <2>1, <1>4
  <2>2. CASE i \in 1 .. server.seq
    BY <2>2, <1>4 DEF ServerOK
  <2> QED  BY <2>1, <2>2, <1>2 DEF ServerOK
<1>6. \A c : Behind(c, server) => Behind(c, server') /\ c.seq < server'.seq
  BY <1>2 DEF Behind, Cursor, ServerOK
<1>7. ServerOK'
  BY <1>2, <1>4, <1>5 DEF ServerOK
<1> QED  BY <1>2, <1>4, <1>6, <1>7

\* A commit disturbs nothing of the device.
LEMMA CommitKeeps ==
  ASSUME TInv, NEW doc, NEW ep \in 0 .. MaxEpoch, Commit(doc, ep),
         Doc(doc), <<ep, base>> \in doc, server.epoch <= ep,
         Visible(server.doc) \subseteq Visible(doc),
         UNCHANGED <<scope, up, live, disk, saving>>
  PROVE  /\ ServerOK' /\ DiskOK' /\ SavingOK'
         /\ Visible(server.doc) \subseteq Visible(server.doc)'
         /\ Behind(run.cur, server') /\ run.cur # ServerHead'
<1>1. /\ ServerOK'
      /\ Visible(server.doc) \subseteq Visible(server.doc)'
      /\ \A c : Behind(c, server) => Behind(c, server') /\ c.seq < server'.seq
  BY CommitFacts DEF TInv
<1>2. DiskOK'
  BY <1>1 DEF TInv, DiskOK
<1>3. SavingOK'
  BY <1>1 DEF TInv, SavingOK
<1>4. Behind(run.cur, server') /\ run.cur.seq < server'.seq
  BY <1>1 DEF TInv, RunOK, RunType
<1>5. run.cur # ServerHead'
  BY <1>4, <1>1 DEF ServerHead, ServerOK, Behind, Cursor
<1> QED  BY <1>1, <1>2, <1>3, <1>4, <1>5

LEMMA OneElement ==
  ASSUME NEW T, NEW x \in T
  PROVE  <<x>> \in Seq(T) /\ Len(<<x>>) = 1 /\ <<x>>[1] = x
  OBVIOUS

LEMMA InitTInv == Init => TInv
<1> SUFFICES ASSUME Init PROVE TInv
  OBVIOUS
<1> USE ScopeAssumption
<1>1. /\ Doc(Fresh(0, {base})) /\ Visible(Fresh(0, {base})) = {base}
      /\ <<0, base>> \in Fresh(0, {base})
  BY DocFresh DEF Content
<1>2. ServerOK
  <2>1. log = <<{base}>> /\ {base} \in SUBSET Content
    BY DEF Init, Content
  <2>2. log \in Seq(SUBSET Content) /\ Len(log) = 1 /\ log[1] = {base}
    <3> DEFINE T == SUBSET Content
    <3> HIDE DEF T
    <3>1. {base} \in T
      BY <2>1 DEF T
    <3>2. <<{base}>> \in Seq(T) /\ Len(<<{base}>>) = 1 /\ <<{base}>>[1] = {base}
      BY <3>1, OneElement
    <3>3. log \in Seq(T) /\ Len(log) = 1 /\ log[1] = {base}
      BY <2>1, <3>2, Zenon
    <3> QED  BY <3>3, Zenon DEF T
  <2>3. server = [doc |-> Fresh(0, {base}), seq |-> 1, epoch |-> 0]
    BY DEF Init
  <2>4. /\ server \in [doc : SUBSET Struct, seq : Nat, epoch : 0 .. MaxEpoch]
        /\ server.doc = Fresh(0, {base}) /\ server.seq = 1 /\ server.epoch = 0
    BY <1>1, <2>3 DEF Doc
  <2>5. \A i \in 1 .. server.seq : log[i] = {base}
    BY <2>2, <2>4
  <2>6. Visible(server.doc) = {base}
    BY <1>1, <2>4, Zenon
  <2>7. Doc(server.doc) /\ <<server.epoch, base>> \in server.doc
    BY <1>1, <2>4, Zenon
  <2>8. log[server.seq] = Visible(server.doc) /\ server.seq >= 1
    <3>1. log[server.seq] = Visible(server.doc)
      BY <2>2, <2>4, <2>6, Zenon
    <3> QED  BY <2>4, <3>1
  <2>9. \A i \in 1 .. server.seq : log[i] \subseteq Visible(server.doc)
    BY <2>5, <2>6
  <2> QED  BY <2>2, <2>4, <2>7, <2>8, <2>9, Zenon DEF ServerOK
<1>3. LiveOK
  BY <1>1 DEF Init, LiveOK, Doc
<1>4. Behind([seq |-> 1, epoch |-> 0], server) /\ Behind([seq |-> 0, epoch |-> 0], server)
  BY DEF Init, Behind, Cursor
<1>5. DiskOK
  BY <1>1, <1>4 DEF Init, DiskOK, Doc, Behind
<1>6. SavingOK
  BY <1>4 DEF Init, SavingOK, NoSave, NoSync, SyncType, Behind, Cursor
<1>7. RunOK
  BY <1>4 DEF Init, RunOK, RunType, NoRun, Phases, Loaded, Pulled, Behind
<1>8. Bounds
  BY DEF Init, Bounds
<1>9. QuietRun
  BY DEF Init, QuietRun, Pulled
<1> QED  BY <1>2, <1>3, <1>5, <1>6, <1>7, <1>8, <1>9 DEF TInv

(***************************************************************************)
(* The steps, one lemma for each group.                                    *)
(***************************************************************************)
LEMMA RemotePushKeeps ==
  ASSUME TInv, UNCHANGED scope, NEW e \in Remote, RemotePush(e)
  PROVE  Kept
<1> DEFINE D == server.doc \cup Fresh(server.epoch, {e})
<1>1. /\ Doc(D) /\ Visible(D) = Visible(server.doc) \cup {e}
  <2>1. /\ server.epoch \in 0 .. MaxEpoch /\ <<server.epoch, base>> \in server.doc
        /\ Doc(server.doc) /\ {e} \subseteq Content
    BY DEF TInv, ServerOK, Content
  <2> QED  BY <2>1, DocAdd
<1>2. /\ ServerOK' /\ DiskOK' /\ SavingOK'
      /\ Visible(server.doc) \subseteq Visible(server.doc)'
      /\ Behind(run.cur, server') /\ run.cur # ServerHead'
  <2>1. server.epoch \in 0 .. MaxEpoch /\ <<server.epoch, base>> \in D
        /\ server.epoch <= server.epoch
    BY ScopeAssumption DEF TInv, ServerOK
  <2>2. Commit(D, server.epoch) /\ UNCHANGED <<scope, up, live, disk, saving>>
    BY DEF RemotePush
  <2> QED  BY <1>1, <2>1, <2>2, CommitKeeps
<1>3. LiveOK' /\ RunOK' /\ Bounds' /\ QuietRun'
  BY <1>2 DEF RemotePush, TInv, LiveOK, RunOK, RunType, Bounds, QuietRun
<1> QED  BY <1>2, <1>3 DEF Kept, TInv

LEMMA RemoteSquashKeeps ==
  ASSUME TInv, UNCHANGED scope, RemoteSquash
  PROVE  Kept
<1> DEFINE k == server.epoch + 1
           D == Rebuilt(server.doc, k)
<1>1. k \in 0 .. MaxEpoch /\ server.epoch <= k
  BY ScopeAssumption DEF TInv, ServerOK, RemoteSquash
<1>2. Doc(D) /\ Visible(D) = Visible(server.doc) /\ <<k, base>> \in D
  BY <1>1, DocFresh, DocShows DEF TInv, ServerOK, Doc, Rebuilt
<1>3. /\ ServerOK' /\ DiskOK' /\ SavingOK'
      /\ Visible(server.doc) \subseteq Visible(server.doc)'
      /\ Behind(run.cur, server') /\ run.cur # ServerHead'
  <2>1. Commit(D, k) /\ UNCHANGED <<scope, up, live, disk, saving>>
    BY DEF RemoteSquash
  <2> QED  BY <1>1, <1>2, <2>1, CommitKeeps
<1>4. LiveOK' /\ RunOK' /\ Bounds' /\ QuietRun'
  BY <1>3 DEF RemoteSquash, TInv, LiveOK, RunOK, RunType, Bounds, QuietRun
<1> QED  BY <1>3, <1>4 DEF Kept, TInv

LEMMA ApplyLocalKeeps ==
  ASSUME TInv, UNCHANGED scope, NEW e \in Local, ApplyLocal(e)
  PROVE  Kept
<1>1. PICK k \in Lineages(live.doc) :
        live' = [doc |-> live.doc \cup Fresh(k, {e}), pend |-> live.pend \cup Fresh(k, {e})]
  BY DEF ApplyLocal
<1>2. k \in 0 .. MaxEpoch /\ <<k, base>> \in live.doc /\ {e} \subseteq Content
  BY DEF TInv, LiveOK, Lineages, Held, Struct, Content
<1>3. Doc(live.doc \cup Fresh(k, {e})) /\ Fresh(k, {e}) \subseteq Struct
  BY <1>2, DocAdd DEF ApplyLocal, TInv, LiveOK, Fresh, Struct
<1>4. LiveOK'
  BY <1>1, <1>3 DEF ApplyLocal, TInv, LiveOK, Doc
<1>5. /\ run' = run \/ run' = [run EXCEPT !.edited = TRUE]
      /\ UNCHANGED <<server, log, disk, saving, phase, faults>>
  BY DEF ApplyLocal
<1>6. RunOK' /\ QuietRun'
  BY <1>5 DEF TInv, RunOK, RunType, QuietRun, ServerHead
<1> QED  BY <1>4, <1>5, <1>6 DEF Kept, TInv, ServerOK, DiskOK, SavingOK, Bounds

LEMMA SaveKeeps ==
  ASSUME TInv, UNCHANGED scope, SaveSnapshot \/ SaveStep
  PROVE  Kept
<1>1. CASE SaveSnapshot
  <2>1. SavingOK' /\ saving'.step # "none"
    BY <1>1 DEF SaveSnapshot, TInv, SavingOK, LiveOK, NoSave
  <2> QED  BY <1>1, <2>1
           DEF SaveSnapshot, Kept, TInv, ServerOK, DiskOK, LiveOK, RunOK, RunType, Bounds, QuietRun, ServerHead
<1>2. CASE SaveEncode
  <2>1. up /\ Doc(live.doc) /\ Doc(saving.doc)
    BY <1>2 DEF SaveEncode, TInv, LiveOK, SavingOK
  <2>2. SavingOK' /\ saving'.step # "none"
    BY <1>2, <2>1 DEF SaveEncode, TInv, SavingOK, LiveOK
  <2> QED  BY <1>2, <2>1, <2>2
           DEF SaveEncode, Kept, TInv, ServerOK, DiskOK, LiveOK, RunOK, RunType, Bounds, QuietRun, ServerHead
<1>3. CASE ReadSync
  <2>1. [k \in DOMAIN NoSync |-> disk[k]]
        = [cur |-> disk.cur, unlanded |-> disk.unlanded, reoffered |-> disk.reoffered]
    BY DEF NoSync
  <2>2. SavingOK' /\ saving'.step # "none"
    BY <1>3, <2>1 DEF ReadSync, TInv, SavingOK, DiskOK, SyncType
  <2>3. up
    BY <1>3 DEF ReadSync, TInv, LiveOK
  <2> QED  BY <1>3, <2>2, <2>3
           DEF ReadSync, Kept, TInv, ServerOK, DiskOK, LiveOK, RunOK, RunType, Bounds, QuietRun, ServerHead
<1>4. CASE SaveQueue
  <2>1. WithSync(saving.sync)
        = [doc |-> disk.doc, pend |-> disk.pend, cur |-> saving.sync.cur,
           unlanded |-> saving.sync.unlanded, reoffered |-> saving.sync.reoffered]
    BY DEF WithSync, TInv, DiskOK, SavingOK, SyncType
  <2>2. DiskOK'
    BY <1>4, <2>1 DEF SaveQueue, TInv, DiskOK, SavingOK, SyncType
  <2>3. SavingOK' /\ saving'.step # "none"
    <3>1. NoSync \in SyncType /\ Behind(NoSync.cur, server)
      BY ScopeAssumption DEF TInv, SyncType, NoSync, Behind, Cursor, ServerOK
    <3>2. saving' = [saving EXCEPT !.step = "doc", !.sync = NoSync] /\ server' = server
      BY <1>4 DEF SaveQueue
    <3>3. saving.step # "none"
      BY <1>4 DEF SaveQueue
    <3> QED  BY <3>1, <3>2, <3>3 DEF TInv, SavingOK
  <2>4. up
    BY <1>4 DEF SaveQueue, TInv, LiveOK
  <2> QED  BY <1>4, <2>2, <2>3, <2>4
           DEF SaveQueue, Kept, TInv, ServerOK, LiveOK, RunOK, RunType, Bounds, QuietRun, ServerHead
<1>5. CASE SaveDoc
  <2>1. DiskOK'
    BY <1>5 DEF SaveDoc, TInv, DiskOK, SavingOK, Doc
  <2>2. SavingOK' /\ saving'.step = "none"
    BY <1>5, ScopeAssumption
    DEF SaveDoc, TInv, SavingOK, SyncType, NoSync, NoSave, Behind, Cursor, ServerOK
  <2>3. up
    BY <1>5 DEF SaveDoc, TInv, LiveOK
  <2> QED  BY <1>5, <2>1, <2>2, <2>3
           DEF SaveDoc, Kept, TInv, ServerOK, LiveOK, RunOK, RunType, Bounds, QuietRun, ServerHead
<1> QED  BY <1>1, <1>2, <1>3, <1>4, <1>5 DEF SaveStep

\* What a device-side step of a run has to show (TInv).
LEMMA DeviceStep ==
  ASSUME TInv, UNCHANGED <<scope, server, log>>, LiveOK', DiskOK', SavingOK', RunOK',
         Bounds', QuietRun'
  PROVE  Kept
  BY DEF Kept, TInv, ServerOK

LEMMA RunStarts ==
  ASSUME TInv, UNCHANGED scope, StartRun \/ LoadRun
  PROVE  Kept
<1>1. CASE StartRun
  <2>1. RunOK'
    <3>1. phase' \in Phases /\ phase' \notin Loaded /\ phase' \notin Pulled
          /\ phase' \notin {"idle", "stale"}
      BY <1>1 DEF StartRun, Phases, Loaded, Pulled
    <3>a. /\ NoRun \in RunType /\ NoRun.doc = {} /\ ~NoRun.pulled /\ NoRun.sent = {}
      BY ScopeAssumption DEF NoRun, RunType, Cursor
    <3>b. \E x \in BOOLEAN : run' = [NoRun EXCEPT !.pend = live.pend, !.retried = x]
      BY <1>1 DEF StartRun
    <3>2. /\ run'.doc = {} /\ ~run'.pulled /\ run'.sent = {} /\ run'.cur = NoRun.cur
          /\ run' \in RunType
      BY <3>a, <3>b DEF TInv, LiveOK, RunType
    <3>3. Behind(NoRun.cur, server)
      BY ScopeAssumption DEF NoRun, Behind, Cursor, TInv, ServerOK
    <3> QED  BY <1>1, <3>1, <3>2, <3>3 DEF StartRun, RunOK, RunType
  <2>2. QuietRun'
    BY <1>1 DEF StartRun, QuietRun, Pulled
  <2>3. LiveOK' /\ DiskOK' /\ SavingOK' /\ Bounds'
    BY <1>1 DEF StartRun, TInv, LiveOK, DiskOK, SavingOK, Bounds
  <2> QED  BY <1>1, <2>1, <2>2, <2>3, DeviceStep DEF StartRun
<1>2. CASE LoadRun
  <2>1. up
    BY <1>2 DEF LoadRun, TInv, LiveOK
  <2>2. RunOK'
    BY <1>2, <2>1
    DEF LoadRun, TInv, RunOK, RunType, LiveOK, DiskOK, Loaded, Pulled, Phases, Doc
  <2>3. QuietRun'
    BY <1>2 DEF LoadRun, QuietRun, Pulled
  <2>4. LiveOK' /\ DiskOK' /\ SavingOK' /\ Bounds'
    BY <1>2, <2>1 DEF LoadRun, TInv, LiveOK, DiskOK, SavingOK, Bounds
  <2> QED  BY <1>2, <2>2, <2>3, <2>4, DeviceStep DEF LoadRun
<1> QED  BY <1>1, <1>2

\* What merging the server's document into the run's gives (Merged).
LEMMA MergedFacts ==
  ASSUME TInv, phase \in Loaded
  PROVE  /\ Held(run.doc \cup server.doc) = run.doc \cup server.doc
         /\ Doc(run.doc \cup server.doc)
         /\ Visible(run.doc \cup server.doc) = Visible(run.doc) \cup Visible(server.doc)
         /\ Merged(run) = [run EXCEPT !.doc = run.doc \cup server.doc, !.cur = ServerHead,
                                      !.pulled = run.doc \cup server.doc # run.doc]
         /\ Behind(ServerHead, server)
<1>1. Doc(run.doc) /\ Doc(server.doc)
  BY DEF TInv, ServerOK, RunOK, RunType
<1>2. /\ Doc(run.doc \cup server.doc)
      /\ Visible(run.doc \cup server.doc) = Visible(run.doc) \cup Visible(server.doc)
  BY <1>1, DocUnion
<1>3. Behind(ServerHead, server)
  BY DEF ServerHead, Behind, Cursor, TInv, ServerOK
<1> QED  BY <1>2, <1>3 DEF Doc, Merged, TInv, RunOK, RunType

\* What is expressed again in the adopted document's history (Adopted).
Rescue ==
  Fresh(server.epoch,
        (Visible(run.doc) \cap {s[2] : s \in run.pend}) \ Visible(server.doc))

LEMMA AdoptedFacts ==
  ASSUME TInv, phase \in Loaded
  PROVE  /\ Adopted(run) = [run EXCEPT !.doc = server.doc \cup Rescue, !.pend = Rescue,
                                       !.cur = ServerHead, !.pulled = TRUE]
         /\ Doc(server.doc \cup Rescue)
         /\ Visible(server.doc \cup Rescue)
              = Visible(server.doc) \cup (Visible(run.doc) \cap {s[2] : s \in run.pend})
         /\ Rescue \subseteq Fresh(server.epoch, Content) /\ Rescue \subseteq Struct
         /\ \A s \in Rescue : s[2] # base
         /\ Behind(ServerHead, server)
<1> DEFINE C == (Visible(run.doc) \cap {s[2] : s \in run.pend}) \ Visible(server.doc)
<1>1. /\ server.epoch \in 0 .. MaxEpoch /\ <<server.epoch, base>> \in server.doc
      /\ Doc(server.doc) /\ Doc(run.doc)
  BY DEF TInv, ServerOK, RunOK, RunType
<1>2. C \subseteq Content /\ base \notin C
  BY <1>1, DocShows DEF Doc
<1>3. /\ Doc(server.doc \cup Fresh(server.epoch, C))
      /\ Visible(server.doc \cup Fresh(server.epoch, C)) = Visible(server.doc) \cup C
  BY <1>1, <1>2, DocAdd
<1>4. /\ Fresh(server.epoch, C) \subseteq Fresh(server.epoch, Content)
      /\ Fresh(server.epoch, C) \subseteq Struct
      /\ \A s \in Fresh(server.epoch, C) : s[2] # base
  BY <1>1, <1>2 DEF Fresh, Struct
<1>5. Behind(ServerHead, server)
  BY DEF ServerHead, Behind, Cursor, TInv, ServerOK
<1>6. Rescue = Fresh(server.epoch, C)
  BY DEF Rescue
<1>7. Adopted(run) = [run EXCEPT !.doc = server.doc \cup Rescue, !.pend = Rescue,
                                 !.cur = ServerHead, !.pulled = TRUE]
  BY DEF Adopted, Rescue
<1>8. Visible(server.doc) \cup C
        = Visible(server.doc) \cup (Visible(run.doc) \cap {s[2] : s \in run.pend})
  OBVIOUS
<1> QED  BY <1>3, <1>4, <1>5, <1>6, <1>7, <1>8

\* The ways a pull ends (Pull): the server's document adopted, or merged; a
\* mismatch repaired; nothing to do.
LEMMA PullCases ==
  ASSUME TInv, Pull
  PROVE  \/ /\ server.seq > run.cur.seq /\ Adopts(run)
            /\ run' = [Adopted(run) EXCEPT !.reoffered = FALSE]
         \/ /\ server.seq > run.cur.seq /\ ~Adopts(run)
            /\ run' = [Merged(run) EXCEPT !.reoffered = FALSE]
         \/ /\ run.cur.seq = server.seq /\ run.cur.epoch = server.epoch
            /\ run.pend = {} /\ run' = Repaired(run)
         \/ /\ run.cur.seq = server.seq /\ run.cur.epoch = server.epoch
            /\ run.pend # {} \/ run.doc = server.doc
            /\ run' = [run EXCEPT !.reoffered = FALSE]
<1>1. server.seq > run.cur.seq
      \/ (run.cur.seq = server.seq /\ run.cur.epoch = server.epoch)
  BY DEF TInv, RunOK, RunType, Behind, ServerOK, Cursor
<1>2. ~(server.seq > run.cur.seq) =>
        run.cur.seq = server.seq /\ run.cur.epoch = server.epoch
  BY <1>1
<1>3. CASE server.seq > run.cur.seq
  BY <1>3 DEF Pull
<1>4. CASE ~(server.seq > run.cur.seq)
  BY <1>2, <1>4 DEF Pull, Mismatched
<1> QED  BY <1>3, <1>4

LEMMA PullKeeps ==
  ASSUME TInv, UNCHANGED scope, Pull
  PROVE  Kept
<1>1. /\ phase \in Loaded /\ phase = "pulling" /\ phase' = "pulled" /\ Doc(run.doc) /\ up
      /\ ~run.pulled /\ run.sent = {}
  BY DEF Pull, TInv, RunOK, RunType, Loaded, Pulled, LiveOK
<1>2. LiveOK' /\ DiskOK' /\ SavingOK' /\ Bounds'
  BY <1>1 DEF Pull, TInv, LiveOK, DiskOK, SavingOK, Bounds
<1>3. phase' \in Phases /\ phase' \in Loaded /\ phase' \in Pulled
      /\ phase' \notin {"idle", "stale"}
  BY <1>1 DEF Phases, Loaded, Pulled
<1>t. run.doc \in SUBSET Struct /\ ServerHead \in Cursor
  BY DEF ServerHead, Cursor, TInv, ServerOK, RunOK, RunType
<1>4. CASE run' = [Adopted(run) EXCEPT !.reoffered = FALSE]
  <2>r. Rescue \in SUBSET Struct /\ Doc(server.doc \cup Rescue)
    BY <1>1, AdoptedFacts
  <2>d. server.doc \cup Rescue \in SUBSET Struct
    BY <2>r DEF Doc
  <2>2. /\ run'.pulled /\ run'.doc = server.doc \cup Rescue /\ run'.cur = ServerHead
        /\ run' \in RunType
    <3>1. run' = [run EXCEPT !.doc = server.doc \cup Rescue, !.pend = Rescue,
                             !.cur = ServerHead, !.pulled = TRUE, !.reoffered = FALSE]
      BY <1>1, <1>4, AdoptedFacts DEF TInv, RunOK, RunType
    <3> HIDE DEF Rescue
    <3> QED  BY <3>1, <2>r, <2>d, <1>t DEF TInv, RunOK, RunType
  <2>1. RunOK'
    BY <1>1, <1>3, <1>t, <2>r, <2>2, AdoptedFacts DEF Pull, RunOK, RunType
  <2> QED  BY <1>2, <2>1, <2>2, DeviceStep DEF Pull, QuietRun
<1>5. CASE run' = [Merged(run) EXCEPT !.reoffered = FALSE] \/ run' = Repaired(run)
  <2>1. Merged(run).doc = run.doc \cup server.doc
    BY <1>1, MergedFacts DEF TInv, RunOK, RunType
  <2>u. run.doc \cup server.doc \in SUBSET Struct
    BY <1>1, MergedFacts DEF Doc
  <2>m. /\ run'.doc = run.doc \cup server.doc /\ run'.cur = ServerHead
        /\ run' \in RunType
    <3>1. \E x, y \in BOOLEAN, P \in SUBSET Struct :
            run' = [run EXCEPT !.doc = run.doc \cup server.doc, !.cur = ServerHead,
                               !.pulled = x, !.reoffered = y, !.pend = P]
      <4> DEFINE x == run.doc \cup server.doc # run.doc
      <4>1. Merged(run) = [run EXCEPT !.doc = run.doc \cup server.doc, !.cur = ServerHead,
                                      !.pulled = x]
        BY <1>1, MergedFacts
      <4>x. x \in BOOLEAN /\ run \in RunType
        BY DEF TInv, RunOK
      <4> HIDE DEF x
      <4>2. CASE run' = [Merged(run) EXCEPT !.reoffered = FALSE]
        <5>1. run' = [run EXCEPT !.doc = run.doc \cup server.doc, !.cur = ServerHead,
                                 !.pulled = x, !.reoffered = FALSE, !.pend = run.pend]
          BY <4>1, <4>2, <4>x DEF RunType
        <5> QED  BY <5>1, <4>x DEF RunType
      <4>3. CASE run' = Repaired(run)
        <5>1. PICK P \in SUBSET Struct :
                run' = [Merged(run) EXCEPT !.pend = P, !.reoffered = TRUE]
          BY <4>3, <2>1, <2>u DEF Repaired
        <5>2. run' = [run EXCEPT !.doc = run.doc \cup server.doc, !.cur = ServerHead,
                                 !.pulled = x, !.reoffered = TRUE, !.pend = P]
          BY <5>1, <4>1, <4>x DEF RunType
        <5> QED  BY <5>2, <4>x
      <4> QED  BY <4>2, <4>3, <1>5
    <3> QED  BY <3>1, <2>u, <1>t DEF TInv, RunOK, RunType
  <2>2. run'.doc = run.doc \cup server.doc /\ run'.cur = ServerHead /\ RunOK'
    BY <1>1, <1>3, <2>m, MergedFacts DEF Pull, RunOK, RunType
  <2>3. QuietRun'
    BY <2>2, <1>1, MergedFacts DEF QuietRun, Pull
  <2> QED  BY <1>2, <2>2, <2>3, DeviceStep DEF Pull
<1>6. CASE /\ run.pend # {} \/ run.doc = server.doc
           /\ run' = [run EXCEPT !.reoffered = FALSE]
  <2>1. RunOK'
    BY <1>1, <1>3, <1>6 DEF Pull, TInv, RunOK, RunType
  <2>2. run'.pend = run.pend /\ run'.doc = run.doc
    BY <1>6 DEF TInv, RunOK, RunType
  <2>3. QuietRun'
    BY <1>6, <2>2 DEF QuietRun, Pull
  <2> QED  BY <1>2, <2>1, <2>3, DeviceStep DEF Pull
<1> QED  BY <1>4, <1>5, <1>6, PullCases

\* A run that ends leaves nothing (NoRun).
LEMMA RunEnds ==
  ASSUME TInv, ServerOK', run' = NoRun, phase' \in {"idle", "stale"}
  PROVE  RunOK' /\ QuietRun'
<1>1. /\ NoRun \in RunType /\ NoRun.doc = {} /\ ~NoRun.pulled /\ NoRun.sent = {}
      /\ NoRun.pend = {}
  BY ScopeAssumption DEF NoRun, RunType, Cursor
<1>2. phase' \in Phases /\ phase' \notin Loaded /\ phase' \notin Pulled
  BY DEF Phases, Loaded, Pulled
<1>3. Behind(NoRun.cur, server')
  BY ScopeAssumption DEF ServerOK, NoRun, Behind, Cursor
<1> QED  BY <1>1, <1>2, <1>3 DEF RunOK, QuietRun

\* A forgotten cursor is behind every server (Forget).
LEMMA ForgetBehind ==
  ASSUME NEW c, NEW h, Behind(c, h), h.seq >= 1, h.seq \in Nat
  PROVE  /\ Behind(Forget(c), h)
         /\ Forget(c).seq = 0 /\ Forget(c).epoch = c.epoch /\ Forget(c) \in Cursor
  BY DEF Behind, Forget, Cursor

\* The state a run saves (Saved).
LEMMA SavedFacts ==
  ASSUME TInv, NEW c \in Cursor, disk' = Saved(c)
  PROVE  /\ disk' \in [doc : SUBSET Struct, pend : SUBSET Struct, cur : Cursor,
                       unlanded : BOOLEAN, reoffered : BOOLEAN]
         /\ disk'.doc = disk.doc /\ disk'.pend = run.pend /\ disk'.cur = c
         /\ disk'.unlanded = run.pulled
         /\ Behind(c, server') => DiskOK'
<1>1. /\ disk' = [disk EXCEPT !.pend = run.pend, !.cur = c, !.unlanded = run.pulled,
                              !.reoffered = run.reoffered]
      /\ run.pend \in SUBSET Struct /\ run.pulled \in BOOLEAN /\ run.reoffered \in BOOLEAN
  BY DEF Saved, TInv, RunOK, RunType
<1>2. /\ disk' \in [doc : SUBSET Struct, pend : SUBSET Struct, cur : Cursor,
                    unlanded : BOOLEAN, reoffered : BOOLEAN]
      /\ disk'.doc = disk.doc /\ disk'.pend = run.pend /\ disk'.cur = c
      /\ disk'.unlanded = run.pulled
  BY <1>1 DEF TInv, DiskOK
<1> QED  BY <1>2 DEF TInv, DiskOK

\* The state a failed push saves (FailedPush).
LEMMA FailedPushFacts ==
  ASSUME TInv, FailedPush
  PROVE  /\ disk'.doc = disk.doc /\ disk'.pend = run.pend
         /\ disk'.cur = (IF run.pulled THEN Forget(run.cur) ELSE run.cur)
         /\ disk'.cur.epoch = run.cur.epoch
         /\ Behind(run.cur, server') /\ server'.seq >= 1 /\ server'.seq \in Nat => DiskOK'
<1> DEFINE c == IF run.pulled THEN Forget(run.cur) ELSE run.cur
<1>1. c \in Cursor /\ c.epoch = run.cur.epoch
  BY ForgetBehind DEF TInv, RunOK, RunType, ServerOK, Behind
<1>2. disk' = Saved(c)
  BY DEF FailedPush
<1>3. ASSUME Behind(run.cur, server'), server'.seq >= 1, server'.seq \in Nat
      PROVE  Behind(c, server')
  BY <1>3, ForgetBehind
<1> HIDE DEF c
<1>4. /\ disk'.doc = disk.doc /\ disk'.pend = run.pend /\ disk'.cur = c
      /\ Behind(c, server') => DiskOK'
  BY <1>1, <1>2, SavedFacts
<1> QED  BY <1>1, <1>3, <1>4 DEF c

LEMMA SavesKeep ==
  ASSUME TInv, UNCHANGED scope, SaveContent \/ SaveCursor \/ SaveSquashCursor
  PROVE  Kept
<1>0. up /\ phase \in Pulled /\ phase \in Loaded /\ Doc(run.doc) /\ run.doc \in SUBSET Struct
  BY DEF SaveContent, SaveCursor, SaveSquashCursor, TInv, LiveOK, RunOK, Loaded, Pulled, Doc
<1>1. /\ phase' \in Phases /\ phase' \in Pulled /\ phase' \in Loaded
      /\ phase' \notin {"idle", "stale"}
      /\ UNCHANGED <<server, log, up, live, saving, run, faults>>
  BY DEF SaveContent, SaveCursor, SaveSquashCursor, Phases, Loaded, Pulled
<1>2. DiskOK'
  <2>1. CASE SaveContent
    BY <1>0, <2>1 DEF SaveContent, TInv, DiskOK
  <2>2. CASE SaveCursor
    <3>1. run.cur \in Cursor /\ Behind(run.cur, server')
      BY <2>2 DEF SaveCursor, TInv, RunOK, RunType
    <3> QED  BY <2>2, <3>1, SavedFacts DEF SaveCursor
  <2>3. CASE SaveSquashCursor
    BY <2>3 DEF SaveSquashCursor, TInv, DiskOK, RunOK, RunType
  <2> QED  BY <2>1, <2>2, <2>3
<1>3. RunOK' /\ QuietRun'
  BY <1>0, <1>1 DEF TInv, RunOK, QuietRun, ServerHead
<1>4. LiveOK' /\ SavingOK' /\ Bounds'
  BY <1>0, <1>1 DEF TInv, LiveOK, SavingOK, Bounds
<1> QED  BY <1>1, <1>2, <1>3, <1>4, DeviceStep

\* What an accepted push shows (Accept).
LEMMA PushedFacts ==
  ASSUME TInv
  PROVE  /\ Doc(Held(server.doc \cup run.pend))
         /\ server.doc \subseteq Held(server.doc \cup run.pend)
         /\ <<server.epoch, base>> \in Held(server.doc \cup run.pend)
         /\ Visible(server.doc) \subseteq Visible(Held(server.doc \cup run.pend))
<1> DEFINE U == server.doc \cup run.pend
<1>1. U \subseteq Struct /\ server.doc \subseteq U
  BY DEF TInv, ServerOK, RunOK, RunType, Doc
<1>2. Held(server.doc) \subseteq Held(U) /\ Visible(server.doc) \subseteq Visible(U)
  BY <1>1, HeldGrows
<1>3. base \in Visible(U)
  BY <1>2 DEF TInv, ServerOK, Doc
<1>4. Doc(Held(U)) /\ Visible(Held(U)) = Visible(U)
  BY <1>1, <1>3, HeldIsDoc
<1> QED  BY <1>2, <1>4 DEF TInv, ServerOK, Doc

LEMMA PushKeeps ==
  ASSUME TInv, UNCHANGED scope, PushNothing \/ Accept
  PROVE  Kept
<1>0. up /\ phase = "pushing" /\ phase' = "pushed" /\ phase \in Pulled /\ phase \in Loaded
      /\ phase' \in Phases /\ phase' \in Pulled /\ phase' \in Loaded
  BY DEF PushNothing, Accept, TInv, LiveOK, Loaded, Pulled, Phases
<1>1. CASE PushNothing
  <2>1. RunOK' /\ QuietRun' /\ LiveOK' /\ DiskOK' /\ SavingOK' /\ Bounds'
    BY <1>0, <1>1
    DEF PushNothing, TInv, RunOK, QuietRun, ServerHead, LiveOK, DiskOK, SavingOK, Bounds
  <2> QED  BY <1>1, <2>1, DeviceStep DEF PushNothing
<1>2. CASE Accept
  <2>1. /\ ServerOK' /\ DiskOK' /\ SavingOK'
        /\ Visible(server.doc) \subseteq Visible(server.doc)'
        /\ Behind(run.cur, server')
    <3>1. /\ Commit(Held(server.doc \cup run.pend), server.epoch)
          /\ UNCHANGED <<scope, up, live, disk, saving>>
      BY <1>2 DEF Accept
    <3>2. server.epoch \in 0 .. MaxEpoch /\ server.epoch <= server.epoch
      BY ScopeAssumption DEF TInv, ServerOK
    <3> QED  BY <3>1, <3>2, PushedFacts, CommitKeeps
  <2>2. /\ run' \in RunType /\ run'.doc = run.doc /\ run'.cur = run.cur
        /\ run'.sent = run.pend /\ run'.sent # {}
    BY <1>2 DEF Accept, TInv, RunOK, RunType
  <2>3. RunOK' /\ QuietRun'
    BY <1>0, <2>1, <2>2 DEF TInv, RunOK, QuietRun
  <2>4. LiveOK' /\ Bounds'
    BY <1>0, <1>2 DEF Accept, TInv, LiveOK, Bounds
  <2> QED  BY <2>1, <2>3, <2>4 DEF Kept, TInv
<1> QED  BY <1>1, <1>2

LEMMA FaultBounds ==
  ASSUME TInv, UNCHANGED scope, NEW f, Fault(f)
  PROVE  Bounds'
  BY ScopeAssumption DEF Fault, TInv, Bounds

LEMMA RunFails ==
  ASSUME TInv, UNCHANGED scope,
         PullFails \/ MediaFails \/ WriteFails \/ PushFails \/ RejectStale
  PROVE  Kept
<1>0. up /\ run' = NoRun /\ phase' \in {"idle", "stale"} /\ UNCHANGED <<live, saving, up>>
  BY DEF PullFails, MediaFails, WriteFails, PushFails, RejectStale, TInv, LiveOK
<1>1. LiveOK' /\ Bounds'
  BY <1>0, FaultBounds
  DEF PullFails, MediaFails, WriteFails, PushFails, RejectStale, TInv, LiveOK, Bounds
<1>2. CASE UNCHANGED <<server, log>>
  <2>1. ServerOK' /\ SavingOK'
    BY <1>0, <1>2 DEF TInv, ServerOK, SavingOK
  <2>2. CASE UNCHANGED disk
    <3>1. DiskOK'
      BY <1>2, <2>2 DEF TInv, DiskOK
    <3> QED  BY <1>0, <1>1, <1>2, <2>1, <3>1, RunEnds, DeviceStep
  <2>3. CASE disk' = [disk EXCEPT !.cur = Forget(run.cur)]
    <3>1. Behind(Forget(run.cur), server) /\ Forget(run.cur) \in Cursor
      BY ForgetBehind DEF TInv, ServerOK, RunOK, RunType
    <3>2. DiskOK'
      BY <1>2, <2>3, <3>1 DEF TInv, DiskOK
    <3> QED  BY <1>0, <1>1, <1>2, <2>1, <3>2, RunEnds, DeviceStep
  <2>4. CASE FailedPush
    <3>1. DiskOK'
      BY <1>2, <2>4, FailedPushFacts DEF TInv, ServerOK, RunOK
    <3> QED  BY <1>0, <1>1, <1>2, <2>1, <3>1, RunEnds, DeviceStep
  <2> QED  BY <2>2, <2>3, <2>4 DEF PullFails, MediaFails, WriteFails, PushFails, RejectStale
<1>3. CASE FailedPush /\ Commit(Held(server.doc \cup run.pend), server.epoch)
  <2>1. server.epoch \in 0 .. MaxEpoch /\ server.epoch <= server.epoch
    BY ScopeAssumption DEF TInv, ServerOK
  <2>2. /\ ServerOK' /\ Visible(server.doc) \subseteq Visible(server.doc)'
        /\ \A c : Behind(c, server) => Behind(c, server') /\ c.seq < server'.seq
    BY <1>3, <2>1, PushedFacts, CommitFacts DEF TInv
  <2>3. DiskOK'
    BY <1>3, <2>2, FailedPushFacts DEF TInv, RunOK, ServerOK
  <2>4. SavingOK'
    BY <1>0, <2>2 DEF TInv, SavingOK
  <2> QED  BY <1>0, <1>1, <2>2, <2>3, <2>4, RunEnds DEF Kept, TInv
<1> QED  BY <1>2, <1>3 DEF PullFails, MediaFails, WriteFails, PushFails, RejectStale

\* A squash this device proposes rebuilds what the server shows (ProposeSquash).
LEMMA ProposeFacts ==
  ASSUME TInv, UNCHANGED scope, ProposeSquash
  PROVE  /\ server.epoch + 1 \in 0 .. MaxEpoch
         /\ Doc(run.doc)
         /\ Commit(Rebuilt(run.doc, server.epoch + 1), server.epoch + 1)
         /\ Doc(Rebuilt(run.doc, server.epoch + 1))
         /\ Visible(Rebuilt(run.doc, server.epoch + 1)) = Visible(run.doc)
         /\ <<server.epoch + 1, base>> \in Rebuilt(run.doc, server.epoch + 1)
         /\ Visible(server.doc) \subseteq Visible(run.doc)
<1>1. server.epoch + 1 \in 0 .. MaxEpoch
  BY ScopeAssumption DEF TInv, ServerOK, ProposeSquash
<1>2. Doc(run.doc) /\ Visible(server.doc) \subseteq Visible(run.doc)
  BY DEF ProposeSquash, AtHead, TInv, RunOK, QuietRun, Loaded, Pulled
<1>3. /\ Doc(Rebuilt(run.doc, server.epoch + 1))
      /\ Visible(Rebuilt(run.doc, server.epoch + 1)) = Visible(run.doc)
      /\ <<server.epoch + 1, base>> \in Rebuilt(run.doc, server.epoch + 1)
  BY <1>1, <1>2, DocFresh, DocShows DEF Doc, Rebuilt
<1> QED  BY <1>1, <1>2, <1>3 DEF ProposeSquash

LEMMA SquashKeeps ==
  ASSUME TInv, UNCHANGED scope, ProposeSquash \/ AdoptSquash \/ SkipAdoption
  PROVE  Kept
<1>0. /\ up /\ phase \in Loaded /\ phase \in Pulled
      /\ phase' \in Phases /\ phase' \in Pulled /\ phase' \in Loaded
      /\ phase' \notin {"idle", "stale"}
      /\ UNCHANGED <<up, live, saving>>
  BY DEF ProposeSquash, AdoptSquash, SkipAdoption, TInv, LiveOK, Loaded, Pulled, Phases
<1>1. LiveOK' /\ Bounds'
  BY <1>0, FaultBounds DEF ProposeSquash, AdoptSquash, SkipAdoption, TInv, LiveOK, Bounds
<1>2. CASE ProposeSquash
  <2>1. server.epoch <= server.epoch + 1
    BY DEF TInv, ServerOK
  <2>2. /\ ServerOK' /\ DiskOK' /\ SavingOK'
        /\ Visible(server.doc) \subseteq Visible(server.doc)'
        /\ Behind(run.cur, server') /\ run.cur # ServerHead'
    BY <1>2, <2>1, ProposeFacts, CommitKeeps DEF ProposeSquash
  <2>3. RunOK' /\ QuietRun'
    BY <1>0, <1>2, <2>2 DEF ProposeSquash, TInv, RunOK, QuietRun
  <2> QED  BY <1>1, <2>2, <2>3 DEF Kept, TInv
<1>3. CASE AdoptSquash
  <2>r. Rescue \in SUBSET Struct /\ Doc(server.doc \cup Rescue)
    BY <1>0, AdoptedFacts
  <2>d. server.doc \cup Rescue \in SUBSET Struct /\ ServerHead \in Cursor
    BY <2>r DEF Doc, ServerHead, Cursor, TInv, ServerOK
  <2>2. /\ run'.pulled /\ run'.doc = server.doc \cup Rescue /\ run'.cur = ServerHead
        /\ run' \in RunType
    <3>1. run' = [run EXCEPT !.doc = server.doc \cup Rescue, !.pend = Rescue,
                             !.cur = ServerHead, !.pulled = TRUE]
      BY <1>0, <1>3, AdoptedFacts DEF AdoptSquash
    <3> HIDE DEF Rescue
    <3> QED  BY <3>1, <2>r, <2>d DEF TInv, RunOK, RunType
  <2>3. RunOK' /\ QuietRun'
    BY <1>0, <1>3, <2>r, <2>2, AdoptedFacts DEF AdoptSquash, RunOK, QuietRun
  <2>4. DiskOK'
    BY <1>3, <2>r, <2>d, <2>2 DEF AdoptSquash, TInv, DiskOK
  <2>5. SavingOK'
    BY <1>0, <1>3 DEF AdoptSquash, TInv, SavingOK
  <2> QED  BY <1>1, <1>3, <2>3, <2>4, <2>5, DeviceStep DEF AdoptSquash
<1>4. CASE SkipAdoption
  <2>1. RunOK' /\ QuietRun' /\ DiskOK' /\ SavingOK'
    BY <1>0, <1>4 DEF SkipAdoption, TInv, RunOK, QuietRun, ServerHead, DiskOK, SavingOK
  <2> QED  BY <1>1, <1>4, <2>1, DeviceStep DEF SkipAdoption
<1> QED  BY <1>2, <1>3, <1>4

\* What a landing can leave: the live document, the run's with the unsent edits
\* replayed, or all three merged (Land).
LEMMA LandFacts ==
  ASSUME TInv, UNCHANGED scope, Land
  PROVE  /\ up /\ Doc(run.doc) /\ Doc(live.doc)
         /\ live'.pend = live.pend \ run.sent
         /\ \/ ~run.pulled /\ live'.doc = live.doc
            \/ run.pulled /\ live'.doc = Held(run.doc \cup (live.pend \ run.sent))
            \/ /\ run.pulled /\ run.edited
               /\ live'.doc = Held(live.doc \cup run.doc \cup (live.pend \ run.sent))
         /\ Visible(run.doc) \subseteq Visible(run.doc \cup (live.pend \ run.sent))
         /\ Visible(live.doc) \subseteq Visible(live.doc \cup run.doc \cup (live.pend \ run.sent))
         /\ LiveOK'
<1> DEFINE pend == live.pend \ run.sent
           A == run.doc \cup pend
           B == live.doc \cup run.doc \cup pend
<1>1. up /\ Doc(run.doc) /\ Doc(live.doc)
  BY DEF Land, TInv, RunOK, LiveOK, Loaded, Pulled
<1>2. PICK d \in (IF ~run.pulled THEN {live.doc}
                  ELSE IF run.edited THEN {Held(B), Replaced(pend)} ELSE {Replaced(pend)}) :
        live' = [doc |-> d, pend |-> pend]
  BY DEF Land
<1>3. /\ live'.pend = pend /\ live'.doc = d
      /\ \/ ~run.pulled /\ d = live.doc
         \/ run.pulled /\ d = Held(A)
         \/ run.pulled /\ run.edited /\ d = Held(B)
  BY <1>2 DEF Replaced
<1>4. A \subseteq Struct /\ B \subseteq Struct /\ pend \subseteq Struct
  BY <1>1 DEF Doc, TInv, LiveOK
<1>5. /\ Visible(run.doc) \subseteq Visible(A) /\ Visible(live.doc) \subseteq Visible(B)
  BY HeldGrows
<1>6. Doc(Held(A)) /\ Doc(Held(B))
  BY <1>1, <1>4, <1>5, HeldIsDoc DEF Doc
<1>7. LiveOK'
  <2>1. Doc(d)
    BY <1>1, <1>3, <1>6
  <2>2. d \in SUBSET Struct /\ pend \in SUBSET Struct
    BY <2>1, <1>4 DEF Doc
  <2> QED  BY <1>1, <1>2, <1>3, <2>1, <2>2 DEF Land, LiveOK
<1> QED  BY <1>1, <1>3, <1>5, <1>7

LEMMA LandKeeps ==
  ASSUME TInv, UNCHANGED scope, Land
  PROVE  Kept
<1>1. ServerOK' /\ RunOK' /\ QuietRun'
  BY RunEnds DEF Land, TInv, ServerOK
<1>2. DiskOK' /\ SavingOK' /\ Bounds'
  BY DEF Land, TInv, DiskOK, SavingOK, Bounds
<1> QED  BY <1>1, <1>2, LandFacts, DeviceStep DEF Land

LEMMA StopFacts ==
  ASSUME TInv, UNCHANGED <<server, log>>, Stop
  PROVE  ServerOK' /\ LiveOK' /\ SavingOK' /\ RunOK' /\ QuietRun'
<1>1. ServerOK'
  BY DEF TInv, ServerOK
<1>2. RunOK' /\ QuietRun'
  BY <1>1, RunEnds DEF Stop
<1>3. NoSave.sync.cur = NoRun.cur /\ Behind(NoRun.cur, server')
  BY <1>1, ScopeAssumption DEF ServerOK, NoSave, NoSync, NoRun, Behind, Cursor
<1>4. SavingOK'
  BY <1>3, ScopeAssumption DEF Stop, SavingOK, NoSave, NoSync, SyncType, Cursor, Behind, NoRun
<1>5. LiveOK'
  BY DEF Stop, LiveOK, NoSave
<1> QED  BY <1>1, <1>2, <1>4, <1>5

\* What a quit leaves on disk (Quit).
LEMMA QuitFacts ==
  ASSUME TInv, UNCHANGED scope, Quit
  PROVE  /\ up /\ Stop /\ UNCHANGED <<server, log>>
         /\ DiskOK'
         /\ disk'.doc \in {live.doc, saving.doc}
         /\ disk'.pend \in {live.pend, saving.pend}
         /\ disk'.cur \in {disk.cur, Forget(disk.cur), saving.sync.cur}
         /\ saving = NoSave => /\ disk'.doc = live.doc /\ disk'.pend = live.pend
<1>1. PICK sync \in {AbandonUnlanded} \cup Late({"encode", "queue"}, disk)
                     \cup (IF "signout" \in scope.faults THEN {disk} ELSE {})
                     \cup Late({"write"}, WithSync(saving.sync)),
           doc \in {live.doc} \cup Late({"queue", "write", "doc"}, saving.doc),
           pend \in {live.pend} \cup Late({"encode", "queue", "write"}, saving.pend) :
        disk' = [sync EXCEPT !.doc = doc, !.pend = pend]
  BY DEF Quit
<1>2. /\ doc \in {live.doc, saving.doc} /\ pend \in {live.pend, saving.pend}
      /\ saving = NoSave => doc = live.doc /\ pend = live.pend
  BY <1>1 DEF Late, NoSave
<1>3. Doc(doc) /\ doc \in SUBSET Struct /\ pend \in SUBSET Struct
  <2>1. doc = live.doc \/ (doc = saving.doc /\ saving.step # "none")
    BY <1>1 DEF Late
  <2>2. Doc(doc)
    BY <2>1 DEF Quit, TInv, LiveOK, SavingOK
  <2> QED  BY <1>2, <2>2 DEF Doc, TInv, LiveOK, SavingOK
<1>4. sync \in {disk, AbandonUnlanded, WithSync(saving.sync)}
  BY <1>1 DEF Late
<1>5. WithSync(saving.sync)
        = [doc |-> disk.doc, pend |-> disk.pend, cur |-> saving.sync.cur,
           unlanded |-> saving.sync.unlanded, reoffered |-> saving.sync.reoffered]
  BY DEF WithSync, TInv, DiskOK, SavingOK, SyncType
<1>6. /\ Behind(Forget(disk.cur), server) /\ Forget(disk.cur) \in Cursor
  BY ForgetBehind DEF TInv, DiskOK, ServerOK
<1>7. AbandonUnlanded = [disk EXCEPT !.cur = Forget(disk.cur), !.unlanded = FALSE]
      \/ AbandonUnlanded = disk
  BY DEF AbandonUnlanded
<1> DEFINE T == [doc : SUBSET Struct, pend : SUBSET Struct, cur : Cursor,
                 unlanded : BOOLEAN, reoffered : BOOLEAN]
<1>8. /\ sync \in T /\ Behind(sync.cur, server)
      /\ sync.cur \in {disk.cur, Forget(disk.cur), saving.sync.cur}
  <2>1. CASE sync = disk
    BY <2>1 DEF TInv, DiskOK
  <2>2. CASE sync = [disk EXCEPT !.cur = Forget(disk.cur), !.unlanded = FALSE]
    BY <2>2, <1>6 DEF TInv, DiskOK
  <2>3. CASE sync = WithSync(saving.sync)
    BY <2>3, <1>5 DEF TInv, DiskOK, SavingOK, SyncType
  <2> QED  BY <2>1, <2>2, <2>3, <1>4, <1>7
<1>9. /\ disk' \in T /\ disk'.doc = doc /\ disk'.pend = pend /\ disk'.cur = sync.cur
  BY <1>1, <1>3, <1>8
<1>10. DiskOK'
  BY <1>3, <1>8, <1>9 DEF Quit, DiskOK
<1> QED  BY <1>2, <1>8, <1>9, <1>10 DEF Quit

LEMMA StopKeeps ==
  ASSUME TInv, UNCHANGED scope, Crash \/ Quit
  PROVE  Kept
<1>1. Stop /\ UNCHANGED <<server, log>> /\ Bounds' /\ DiskOK'
  BY QuitFacts, FaultBounds DEF Crash, Quit, TInv, DiskOK
<1> QED  BY <1>1, StopFacts, DeviceStep

LEMMA RestartKeeps ==
  ASSUME TInv, UNCHANGED scope, Restart
  PROVE  /\ Kept /\ up'
         /\ live'.doc = Held(disk.doc \cup disk.pend) /\ live'.pend = disk.pend
         /\ Visible(live.doc') = Visible(disk.doc \cup disk.pend)
<1> DEFINE U == disk.doc \cup disk.pend
<1>1. U \subseteq Struct /\ base \in Visible(U)
  <2>1. Visible(disk.doc) \subseteq Visible(U)
    BY HeldGrows
  <2> QED  BY <2>1 DEF TInv, DiskOK, Doc
<1>2. Doc(Held(U)) /\ Visible(Held(U)) = Visible(U) /\ Held(U) \in SUBSET Struct
  BY <1>1, HeldIsDoc DEF Doc
<1>3. live' = [doc |-> Held(U), pend |-> disk.pend]
  BY DEF Restart
<1>4. LiveOK'
  BY <1>2, <1>3 DEF Restart, LiveOK, TInv, DiskOK
<1>5. DiskOK' /\ SavingOK' /\ RunOK' /\ Bounds' /\ QuietRun'
  BY DEF Restart, TInv, DiskOK, SavingOK, RunOK, Bounds, QuietRun, ServerHead
<1> QED  BY <1>2, <1>3, <1>4, <1>5, DeviceStep DEF Restart

LEMMA StepKeeps ==
  ASSUME TInv, [Next]_vars
  PROVE  Kept
<1>1. CASE UNCHANGED vars
  BY <1>1
  DEF vars, Kept, TInv, ServerOK, LiveOK, DiskOK, SavingOK, RunOK, Bounds, QuietRun, ServerHead
<1>2. CASE Next
  <2>0. UNCHANGED scope
    BY <1>2 DEF Next
  <2>1. CASE \E e \in Remote : RemotePush(e)
    BY <2>0, <2>1, RemotePushKeeps
  <2>2. CASE RemoteSquash
    BY <2>0, <2>2, RemoteSquashKeeps
  <2>3. CASE \E e \in Local : ApplyLocal(e)
    BY <2>0, <2>3, ApplyLocalKeeps
  <2>4. CASE SaveSnapshot \/ SaveStep
    BY <2>0, <2>4, SaveKeeps
  <2>5. CASE RunStep
    BY <2>0, <2>5, RunStarts, PullKeeps, SavesKeep, PushKeeps, RunFails, SquashKeeps, LandKeeps
    DEF RunStep
  <2>6. CASE PullFails \/ PushFails \/ MediaFails \/ WriteFails
    BY <2>0, <2>6, RunFails
  <2>7. CASE ProposeSquash \/ SkipAdoption
    BY <2>0, <2>7, SquashKeeps
  <2>8. CASE Crash \/ Quit
    BY <2>0, <2>8, StopKeeps
  <2>9. CASE Restart
    BY <2>0, <2>9, RestartKeeps
  <2> QED  BY <1>2, <2>1, <2>2, <2>3, <2>4, <2>5, <2>6, <2>7, <2>8, <2>9 DEF Next
<1> QED  BY <1>1, <1>2

LEMMA TypeImplied == TInv => TypeOK
<1> SUFFICES ASSUME TInv PROVE TypeOK
  OBVIOUS
<1>1. Held({}) = {}
  BY DEF Held
<1>2. \A S \in {server.doc, live.doc, disk.doc, saving.doc, run.doc} : Held(S) = S
  BY <1>1 DEF TInv, ServerOK, LiveOK, DiskOK, SavingOK, RunOK, Doc
<1>3. saving.sync \in [cur : Cursor, unlanded : BOOLEAN, reoffered : BOOLEAN]
  BY DEF TInv, SavingOK, SyncType
<1> QED
  BY <1>2 DEF TypeOK, TInv, ServerOK, LiveOK, DiskOK, SavingOK, SyncType, RunOK, RunType, Bounds

\* In every scope, whatever fails: the variables keep their types, and every
\* document holds only structs that integrate. The queue of updates may hold
\* others: those never reach a document.
THEOREM TypeCorrect == Spec => []TypeOK
<1>1. TInv /\ [Next]_vars => TInv'
  BY StepKeeps DEF Kept
<1> QED  BY InitTInv, <1>1, TypeImplied, PTL DEF Spec

\* In every scope, whatever fails: no push, squash or offer takes content away
\* from what the server shows. A squash proposed by this device rests on a run
\* that found nothing to do at the server's head, and so holds all of it.
THEOREM ServerKeepsContent == Spec => ServerKeeps
<1>1. TInv /\ [Next]_vars => TInv'
  BY StepKeeps DEF Kept
<1>2. TInv /\ [Next]_vars => [Visible(server.doc) \subseteq Visible(server.doc')]_vars
  BY StepKeeps DEF Kept
<1> QED  BY InitTInv, <1>1, <1>2, PTL DEF Spec, ServerKeeps

(***************************************************************************)
(* Part 2. Scopes without squashes: whatever fails, there is one history,  *)
(* and a run's document grows from the live one.                           *)
(***************************************************************************)
Plain == ~scope.squashes

First(S) == S \subseteq Fresh(0, Content)

PlainOK ==
  /\ server.epoch = 0
  /\ First(server.doc)
  /\ First(live.doc) /\ First(live.pend)
  /\ First(disk.doc) /\ First(disk.pend)
  /\ First(saving.doc) /\ First(saving.pend)
  /\ First(run.doc) /\ First(run.pend) /\ First(run.sent)
  /\ phase \notin {"squashed", "adopted", "landing"}

\* What is queued, or in a run, is in the live document or on the server; a run
\* that landed now would lose nothing of the live document.
Reach == live.doc \cup server.doc
PlainLive ==
  /\ up => live.pend \subseteq live.doc /\ disk.pend \subseteq Reach
  /\ saving.pend \subseteq live.doc
  /\ phase = "starting" => run.pend \subseteq live.doc
  /\ phase = "pulling" => run.pend \subseteq run.doc \cup server.doc
  /\ run.doc \subseteq Reach /\ run.pend \subseteq Reach /\ run.sent \subseteq Reach
  /\ run.pulled => run.pend \subseteq run.doc /\ run.sent \subseteq run.doc
  /\ phase \in Loaded => live.doc \subseteq run.doc \cup live.pend
  /\ phase \in Loaded /\ ~run.pulled => run.doc \subseteq live.doc

\* In one history everything integrates.
LEMMA FirstHeld ==
  ASSUME NEW D, Doc(D), First(D), NEW P, First(P)
  PROVE  Held(D \cup P) = D \cup P /\ First(D \cup P)
<1>1. \A s \in D \cup P : s[1] = 0
  BY DEF First, Fresh
<1>2. PICK s \in Held(D) : s[2] = base
  BY DEF Doc, Visible
<1>3. <<0, base>> \in D
  BY <1>1, <1>2 DEF Held
<1> QED  BY <1>1, <1>3 DEF Held, First

LEMMA InitPlain == Init => PlainOK /\ PlainLive
  BY DEF Init, PlainOK, PlainLive, First, Fresh, Content, NoSave, NoRun, Reach, Loaded, Pulled

LEMMA PlainOthers ==
  ASSUME TInv, PlainOK, PlainLive, Plain, UNCHANGED scope,
         (\E e \in Remote : RemotePush(e)) \/ Accept
  PROVE  PlainOK' /\ PlainLive' /\ server.doc \subseteq server.doc'
<1>1. CASE \E e \in Remote : RemotePush(e)
  <2>1. PICK e \in Remote : RemotePush(e)
    BY <1>1
  <2>2. /\ server' = [doc |-> server.doc \cup Fresh(server.epoch, {e}), seq |-> server.seq + 1,
                      epoch |-> server.epoch]
        /\ UNCHANGED <<up, live, disk, saving, phase, run>>
    BY <2>1 DEF RemotePush, Commit
  <2>3. First(Fresh(0, {e}))
    BY DEF First, Fresh, Content
  <2>4. server'.doc = server.doc \cup Fresh(0, {e}) /\ server'.epoch = 0 /\ First(server'.doc)
    BY <2>2, <2>3 DEF PlainOK, First
  <2> QED  BY <2>2, <2>4 DEF PlainOK, PlainLive, Reach
<1>2. CASE Accept
  <2>1. /\ server' = [doc |-> Held(server.doc \cup run.pend), seq |-> server.seq + 1,
                      epoch |-> server.epoch]
        /\ UNCHANGED <<up, live, disk, saving>>
        /\ phase = "pushing" /\ phase' = "pushed"
        /\ run' = [run EXCEPT !.sent = run.pend, !.pend = {}]
    BY <1>2 DEF Accept, Commit
  <2>2. Held(server.doc \cup run.pend) = server.doc \cup run.pend /\ First(server.doc \cup run.pend)
    BY FirstHeld DEF TInv, ServerOK, PlainOK
  <2>3. server'.doc = server.doc \cup run.pend /\ server'.epoch = 0 /\ First(server'.doc)
    BY <2>1, <2>2 DEF PlainOK
  <2>4. /\ run'.sent = run.pend /\ run'.pend = {} /\ run'.doc = run.doc
        /\ run'.pulled = run.pulled
    BY <2>1 DEF TInv, RunOK, RunType
  <2> QED  BY <2>1, <2>3, <2>4 DEF PlainOK, PlainLive, Reach, First, Loaded, Pulled
<1> QED  BY <1>1, <1>2

\* What a step of a save that is being written changes (SaveStep).
LEMMA SaveStepFacts ==
  ASSUME TInv, SaveStep
  PROVE  /\ saving'.pend \in {saving.pend, {}} /\ saving'.doc \in {saving.doc, live.doc, {}}
         /\ disk'.pend \in {disk.pend, saving.pend} /\ disk'.doc \in {disk.doc, saving.doc}
         /\ UNCHANGED <<server, log, live, phase, run, up>>
         /\ saving.step # "none"
         /\ saving'.step \in {"queue", "write", "doc", "none"}
         /\ saving'.step = "none" => saving'.pend = {}
         /\ disk'.cur = disk.cur \/ (saving.step = "write" /\ disk'.cur = saving.sync.cur)
         /\ saving'.step = "write" => disk' = disk /\ saving'.sync = [k \in DOMAIN NoSync |-> disk[k]]
         /\ saving.step = "write" => disk'.pend = saving.pend
         /\ saving.step # "write" => disk'.pend = disk.pend
<1> USE DEF TInv, SavingOK, DiskOK
<1>1. CASE SaveEncode
  <2>1. PICK d \in {saving.doc, live.doc} :
          saving' = [saving EXCEPT !.step = "queue", !.doc = d]
    BY <1>1 DEF SaveEncode
  <2>2. saving'.pend = saving.pend /\ saving'.doc = d /\ saving'.step = "queue"
    BY <2>1
  <2> QED  BY <1>1, <2>2 DEF SaveEncode
<1>2. CASE ReadSync
  <2>1. /\ saving'.pend = saving.pend /\ saving'.doc = saving.doc /\ saving'.step = "write"
        /\ saving'.sync = [k \in DOMAIN NoSync |-> disk[k]]
    BY <1>2 DEF ReadSync
  <2> QED  BY <1>2, <2>1 DEF ReadSync
<1>3. CASE SaveQueue
  <2>1. WithSync(saving.sync)
        = [doc |-> disk.doc, pend |-> disk.pend, cur |-> saving.sync.cur,
           unlanded |-> saving.sync.unlanded, reoffered |-> saving.sync.reoffered]
    BY DEF WithSync, SyncType
  <2>2. disk'.doc = disk.doc /\ disk'.pend = saving.pend /\ disk'.cur = saving.sync.cur
    BY <1>3, <2>1 DEF SaveQueue
  <2>3. saving'.pend = saving.pend /\ saving'.doc = saving.doc /\ saving'.step = "doc"
    BY <1>3 DEF SaveQueue
  <2> QED  BY <1>3, <2>2, <2>3 DEF SaveQueue
<1>4. CASE SaveDoc
  <2>1. /\ disk'.doc = saving.doc /\ disk'.pend = disk.pend /\ disk'.cur = disk.cur
        /\ saving'.pend = {} /\ saving'.doc = {} /\ saving'.step = "none"
    BY <1>4 DEF SaveDoc, NoSave
  <2> QED  BY <1>4, <2>1 DEF SaveDoc
<1> QED  BY <1>1, <1>2, <1>3, <1>4 DEF SaveStep

LEMMA PlainUser ==
  ASSUME TInv, PlainOK, PlainLive, Plain, UNCHANGED scope,
         (\E e \in Local : ApplyLocal(e)) \/ SaveSnapshot \/ SaveStep
  PROVE  PlainOK' /\ PlainLive' /\ live.doc \subseteq live.doc'
<1>1. CASE \E e \in Local : ApplyLocal(e)
  <2>1. PICK e \in Local : ApplyLocal(e)
    BY <1>1
  <2>2. PICK k \in Lineages(live.doc) :
          live' = [doc |-> live.doc \cup Fresh(k, {e}), pend |-> live.pend \cup Fresh(k, {e})]
    BY <2>1 DEF ApplyLocal
  <2>3. k = 0
    BY <2>2 DEF Lineages, Held, PlainOK, First, Fresh
  <2>4. First(Fresh(0, {e}))
    BY DEF First, Fresh, Content
  <2>5. /\ live'.doc = live.doc \cup Fresh(0, {e}) /\ live'.pend = live.pend \cup Fresh(0, {e})
        /\ UNCHANGED <<server, disk, saving, phase, up>> /\ up
        /\ UNCHANGED <<run.doc, run.pend, run.sent, run.pulled>>
    BY <2>1, <2>2, <2>3 DEF ApplyLocal, TInv, RunOK, RunType
  <2> QED  BY <2>4, <2>5 DEF PlainOK, PlainLive, Reach, First
<1>2. CASE SaveSnapshot
  <2>1. /\ saving'.pend = live.pend /\ saving'.doc = live.doc /\ up
        /\ UNCHANGED <<server, live, disk, phase, run, up>>
    BY <1>2 DEF SaveSnapshot, NoSave
  <2> QED  BY <2>1 DEF PlainOK, PlainLive, Reach
<1>3. CASE SaveStep
  <2>1. /\ saving'.pend \in {saving.pend, {}} /\ saving'.doc \in {saving.doc, live.doc, {}}
        /\ disk'.pend \in {disk.pend, saving.pend} /\ disk'.doc \in {disk.doc, saving.doc}
        /\ UNCHANGED <<server, live, phase, run, up>>
    BY <1>3, SaveStepFacts
  <2>3. First({})
    BY DEF First
  <2>4. PlainOK'
    BY <2>1, <2>3 DEF PlainOK
  <2>5. PlainLive'
    BY <2>1 DEF PlainLive, Reach
  <2> QED  BY <2>1, <2>4, <2>5
<1> QED  BY <1>1, <1>2, <1>3

LEMMA PlainPull ==
  ASSUME TInv, PlainOK, PlainLive, Plain, UNCHANGED scope, Pull
  PROVE  /\ PlainOK' /\ PlainLive' /\ UNCHANGED live
         /\ \/ run'.doc = run.doc \cup server.doc /\ run'.cur = ServerHead
            \/ run'.doc = run.doc /\ run'.cur = run.cur
         /\ run'.doc # run.doc => run'.pulled
<1>1. /\ phase = "pulling" /\ phase' = "pulled" /\ ~run.pulled /\ run.sent = {}
      /\ phase \in Loaded /\ phase' \in Loaded
      /\ UNCHANGED <<server, up, live, disk, saving>>
  BY DEF Pull, TInv, RunOK, Loaded, Pulled
<1>2. run.cur.epoch = server.epoch /\ ~Adopts(run)
  BY ScopeAssumption DEF PlainOK, TInv, RunOK, Behind, Cursor, Adopts
<1>3. \/ run' = [Merged(run) EXCEPT !.reoffered = FALSE]
      \/ run' = Repaired(run)
      \/ run' = [run EXCEPT !.reoffered = FALSE]
  BY <1>2, PullCases
<1>4. First(run.doc \cup server.doc)
  BY DEF PlainOK, First
<1>5. /\ Merged(run) = [run EXCEPT !.doc = run.doc \cup server.doc, !.cur = ServerHead,
                                   !.pulled = run.doc \cup server.doc # run.doc]
      /\ Merged(run).doc = run.doc \cup server.doc /\ Merged(run).cur = ServerHead
      /\ Merged(run).pulled = (run.doc \cup server.doc # run.doc)
      /\ Merged(run).pend = run.pend /\ Merged(run).sent = run.sent
  BY <1>1, MergedFacts DEF TInv, RunOK, RunType
<1>6. /\ \/ run'.doc = run.doc \cup server.doc /\ run'.cur = ServerHead
         \/ run'.doc = run.doc /\ run'.cur = run.cur
      /\ run'.doc # run.doc <=> run'.pulled
      /\ run'.sent = {}
      /\ run'.pend \in {run.pend, {}, run'.doc}
  <2>1. CASE run' = [Merged(run) EXCEPT !.reoffered = FALSE]
    <3>1. /\ run'.doc = run.doc \cup server.doc /\ run'.cur = ServerHead
          /\ run'.pulled = (run.doc \cup server.doc # run.doc)
          /\ run'.pend = run.pend /\ run'.sent = run.sent
      BY <1>5, <2>1 DEF TInv, RunOK, RunType
    <3> QED  BY <1>1, <3>1
  <2>2. CASE run' = Repaired(run)
    <3>1. /\ run'.doc = run.doc \cup server.doc /\ run'.cur = ServerHead
          /\ run'.pulled = (run.doc \cup server.doc # run.doc)
          /\ run'.pend \in {{}, run.doc \cup server.doc} /\ run'.sent = run.sent
      BY <1>5, <2>2 DEF Repaired, TInv, RunOK, RunType
    <3> QED  BY <1>1, <3>1
  <2>3. CASE run' = [run EXCEPT !.reoffered = FALSE]
    <3>1. /\ run'.doc = run.doc /\ run'.cur = run.cur /\ run'.pulled = run.pulled
          /\ run'.pend = run.pend /\ run'.sent = run.sent
      BY <2>3 DEF TInv, RunOK, RunType
    <3> QED  BY <1>1, <3>1
  <2> QED  BY <1>3, <2>1, <2>2, <2>3
<1>7. PlainOK'
  BY <1>1, <1>4, <1>6 DEF PlainOK, First
<1>8. run'.doc \subseteq Reach /\ run'.pend \subseteq Reach
  BY <1>1, <1>6 DEF PlainLive, Reach
<1>9. PlainLive'
  BY <1>1, <1>6, <1>8 DEF PlainLive, Reach
<1> QED  BY <1>1, <1>6, <1>7, <1>9

LEMMA PlainRun ==
  ASSUME TInv, PlainOK, PlainLive, Plain, UNCHANGED scope,
         StartRun \/ LoadRun \/ SaveContent \/ PushNothing \/ SaveCursor
  PROVE  PlainOK' /\ PlainLive' /\ UNCHANGED live
<1>1. CASE StartRun
  <2>1. /\ run'.pend = live.pend /\ run'.doc = {} /\ run'.sent = {} /\ ~run'.pulled
        /\ phase' = "starting" /\ up
        /\ UNCHANGED <<server, up, live, disk, saving>>
    BY <1>1 DEF StartRun, NoRun
  <2>2. First({})
    BY DEF First
  <2> QED  BY <2>1, <2>2 DEF PlainOK, PlainLive, Reach, Loaded, Pulled
<1>2. CASE LoadRun
  <2>1. /\ run'.pend = run.pend \cup disk.pend /\ run'.doc = live.doc
        /\ run'.sent = run.sent /\ run'.pulled = run.pulled
        /\ phase = "starting" /\ phase' = "pulling" /\ UNCHANGED <<server, up, live, disk, saving>>
    BY <1>2 DEF LoadRun, TInv, RunOK, RunType
  <2>2. up /\ ~run.pulled /\ run.sent = {}
    BY <2>1 DEF TInv, LiveOK, RunOK, Pulled
  <2> QED  BY <2>1, <2>2 DEF PlainOK, PlainLive, Reach, First
<1>3. CASE SaveContent \/ PushNothing \/ SaveCursor
  <2>1. /\ up /\ phase \in Loaded /\ phase' \in Loaded
        /\ phase' \notin {"squashed", "adopted", "landing", "starting", "pulling"}
        /\ UNCHANGED <<server, up, live, saving, run>>
    BY <1>3 DEF SaveContent, PushNothing, SaveCursor, TInv, LiveOK, Loaded, Pulled
  <2>2. disk'.doc \in {disk.doc, run.doc} /\ disk'.pend \in {disk.pend, run.pend}
    <3>1. CASE SaveContent
      BY <3>1 DEF SaveContent, TInv, DiskOK
    <3>2. CASE SaveCursor
      BY <3>2, SavedFacts DEF SaveCursor, TInv, RunOK, RunType
    <3> QED  BY <1>3, <3>1, <3>2 DEF PushNothing
  <2> QED  BY <2>1, <2>2 DEF PlainOK, PlainLive, Reach
<1> QED  BY <1>1, <1>2, <1>3

\* A run that fails leaves what it saved; its push may have arrived.
LEMMA PlainFails ==
  ASSUME TInv, PlainOK, PlainLive, Plain, UNCHANGED scope,
         PullFails \/ MediaFails \/ WriteFails \/ PushFails \/ RejectStale
  PROVE  PlainOK' /\ PlainLive' /\ UNCHANGED live
<1>1. /\ run'.doc = {} /\ run'.pend = {} /\ run'.sent = {} /\ ~run'.pulled
      /\ phase' \in {"idle", "stale"} /\ UNCHANGED <<live, saving, up>>
  BY DEF PullFails, MediaFails, WriteFails, PushFails, RejectStale, NoRun
<1>2. disk'.doc = disk.doc /\ disk'.pend \in {disk.pend, run.pend}
  <2>1. CASE FailedPush
    BY <2>1, FailedPushFacts
  <2>2. CASE disk' = disk \/ disk' = [disk EXCEPT !.cur = Forget(run.cur)]
    BY <2>2 DEF TInv, DiskOK
  <2> QED  BY <2>1, <2>2 DEF PullFails, MediaFails, WriteFails, PushFails, RejectStale
<1>3. server.doc \subseteq server'.doc /\ First(server'.doc) /\ server'.epoch = 0
  <2>1. CASE server' = server
    BY <2>1 DEF PlainOK
  <2>2. CASE Commit(Held(server.doc \cup run.pend), server.epoch)
    <3>1. Held(server.doc \cup run.pend) = server.doc \cup run.pend /\ First(server.doc \cup run.pend)
      BY FirstHeld DEF TInv, ServerOK, PlainOK
    <3>2. /\ server'.doc = Held(server.doc \cup run.pend) /\ server'.epoch = server.epoch
      BY <2>2 DEF Commit
    <3> QED  BY <3>1, <3>2 DEF PlainOK
  <2> QED  BY <2>1, <2>2 DEF PullFails, MediaFails, WriteFails, PushFails, RejectStale
<1>4. First({})
  BY DEF First
<1> QED  BY <1>1, <1>2, <1>3, <1>4 DEF PlainOK, PlainLive, Reach, Loaded, Pulled

LEMMA PlainLand ==
  ASSUME TInv, PlainOK, PlainLive, Plain, UNCHANGED scope, Land
  PROVE  /\ PlainOK' /\ PlainLive' /\ live.doc \subseteq live.doc'
         /\ run.doc \subseteq live.doc'
<1> DEFINE pend == live.pend \ run.sent
<1>1. /\ up /\ Doc(run.doc) /\ Doc(live.doc) /\ live'.pend = pend
      /\ \/ ~run.pulled /\ live'.doc = live.doc
         \/ run.pulled /\ live'.doc = Held(run.doc \cup pend)
         \/ run.pulled /\ live'.doc = Held(live.doc \cup run.doc \cup pend)
  BY LandFacts
<1>2. First(run.doc) /\ First(live.doc) /\ First(pend) /\ First(run.doc \cup pend)
  BY DEF PlainOK, First
<1>3. Held(run.doc \cup pend) = run.doc \cup pend
  BY <1>1, <1>2, FirstHeld
<1>4. Held(live.doc \cup (run.doc \cup pend)) = live.doc \cup (run.doc \cup pend)
  BY <1>1, <1>2, FirstHeld
<1>5. /\ run'.doc = {} /\ run'.pend = {} /\ run'.sent = {} /\ ~run'.pulled
      /\ phase' = "idle" /\ phase \in Loaded /\ UNCHANGED <<server, disk, saving, up>>
  BY DEF Land, NoRun, Loaded, Pulled
<1>6. live.doc \cup (run.doc \cup pend) = live.doc \cup run.doc \cup pend
  OBVIOUS
<1>7. /\ live.doc \subseteq run.doc \cup live.pend
      /\ run.pulled => run.sent \subseteq run.doc
      /\ ~run.pulled => run.doc \subseteq live.doc
      /\ live.pend \subseteq live.doc
  BY <1>1, <1>5 DEF PlainLive
<1>8. /\ live'.doc \in {live.doc, run.doc \cup pend, live.doc \cup run.doc \cup pend}
      /\ live.doc \subseteq live'.doc /\ run.doc \subseteq live'.doc /\ pend \subseteq live'.doc
  BY <1>1, <1>3, <1>4, <1>6, <1>7
<1>9. First({}) /\ First(live'.doc)
  BY <1>2, <1>8 DEF First
<1>10. PlainOK'
  BY <1>1, <1>2, <1>5, <1>9 DEF PlainOK
<1>11. PlainLive'
  BY <1>1, <1>5, <1>8 DEF PlainLive, Reach, Loaded, Pulled
<1> QED  BY <1>8, <1>10, <1>11

LEMMA PlainStops ==
  ASSUME TInv, PlainOK, PlainLive, Plain, UNCHANGED scope, Crash \/ Quit \/ Restart
  PROVE  PlainOK' /\ PlainLive' /\ ~(up /\ up')
<1>1. First({})
  BY DEF First
<1>2. CASE Crash \/ Quit
  <2>1. Stop /\ UNCHANGED server /\ up
    BY <1>2, QuitFacts DEF Crash, Quit
  <2>2. disk'.doc \in {disk.doc, live.doc, saving.doc} /\ disk'.pend \in {disk.pend, live.pend, saving.pend}
    BY <1>2, QuitFacts DEF Crash
  <2>3. /\ live'.doc = {} /\ live'.pend = {} /\ saving'.doc = {} /\ saving'.pend = {}
        /\ run'.doc = {} /\ run'.pend = {} /\ run'.sent = {} /\ ~run'.pulled
        /\ ~up' /\ phase' = "idle"
    BY <2>1 DEF Stop, NoSave, NoRun
  <2> QED  BY <1>1, <2>1, <2>2, <2>3 DEF PlainOK, PlainLive, Reach, Loaded, Pulled
<1>3. CASE Restart
  <2>1. live'.doc = Held(disk.doc \cup disk.pend) /\ live'.pend = disk.pend
    BY <1>3, RestartKeeps
  <2>2. Held(disk.doc \cup disk.pend) = disk.doc \cup disk.pend /\ First(disk.doc \cup disk.pend)
    BY FirstHeld DEF TInv, DiskOK, PlainOK
  <2>3. /\ ~up /\ up' /\ UNCHANGED <<server, disk, saving, phase, run>>
    BY <1>3 DEF Restart
  <2>4. /\ phase = "idle" /\ saving.pend = {} /\ run.doc = {} /\ run.pend = {} /\ run.sent = {}
        /\ ~run.pulled
    <3>1. phase = "idle" /\ saving.step = "none"
      BY <2>3 DEF TInv, LiveOK
    <3> QED  BY <3>1 DEF TInv, SavingOK, RunOK, Loaded, Pulled
  <2> QED  BY <2>1, <2>2, <2>3, <2>4 DEF PlainOK, PlainLive, Reach, Loaded, Pulled
<1> QED  BY <1>2, <1>3

LEMMA StepPlain ==
  ASSUME TInv, PlainOK, PlainLive, Plain, [Next]_vars
  PROVE  PlainOK' /\ PlainLive' /\ (up /\ up' => live.doc \subseteq live.doc')
<1>1. CASE UNCHANGED vars
  BY <1>1 DEF vars, PlainOK, PlainLive, Reach
<1>2. CASE Next
  <2>0. UNCHANGED scope
    BY <1>2 DEF Next
  <2>1. CASE \E e \in Remote : RemotePush(e)
    BY <2>0, <2>1, PlainOthers DEF RemotePush
  <2>2. CASE RemoteSquash \/ ProposeSquash
    BY <2>2 DEF RemoteSquash, ProposeSquash, Plain
  <2>3. CASE (\E e \in Local : ApplyLocal(e)) \/ SaveSnapshot \/ SaveStep
    BY <2>0, <2>3, PlainUser
  <2>4. CASE RunStep \/ SkipAdoption
    <3>1. CASE Pull
      BY <2>0, <3>1, PlainPull
    <3>2. CASE StartRun \/ LoadRun \/ SaveContent \/ PushNothing \/ SaveCursor
      BY <2>0, <3>2, PlainRun
    <3>3. CASE Accept
      BY <2>0, <3>3, PlainOthers DEF Accept
    <3>4. CASE RejectStale
      BY <2>0, <3>4, PlainFails
    <3>5. CASE Land
      BY <2>0, <3>5, PlainLand
    <3>6. CASE AdoptSquash \/ SaveSquashCursor \/ SkipAdoption
      BY <3>6 DEF AdoptSquash, SaveSquashCursor, SkipAdoption, PlainOK
    <3> QED  BY <2>4, <3>1, <3>2, <3>3, <3>4, <3>5, <3>6 DEF RunStep
  <2>5. CASE PullFails \/ PushFails \/ MediaFails \/ WriteFails
    BY <2>0, <2>5, PlainFails
  <2>6. CASE Crash \/ Quit \/ Restart
    BY <2>0, <2>6, PlainStops
  <2> QED  BY <1>2, <2>1, <2>2, <2>3, <2>4, <2>5, <2>6 DEF Next
<1> QED  BY <1>1, <1>2

(***************************************************************************)
(* What the cursor claims, where nothing crashes, races or is overlapped.  *)
(***************************************************************************)
Orderly ==
  Plain /\ scope.faults \cap {"crash", "write", "racing", "overlap", "signout"} = {}

Shown(l, cur) == IF cur.seq = 0 THEN {} ELSE l[cur.seq]

\* A save is between runs, and writes the cursor back as it is on disk.
OneSave ==
  /\ saving.step # "none" => phase = "idle"
  /\ saving.step = "write" => saving.sync = [k \in DOMAIN NoSync |-> disk[k]]

\* A run's document holds what its cursor claims. The saved cursor's claim is in
\* the live document, unless a run has saved its own and is about to land.
Covered ==
  /\ phase \in Loaded => Shown(log, run.cur) \subseteq Visible(run.doc)
  /\ ~up => Shown(log, disk.cur) \subseteq Visible(disk.doc \cup disk.pend)
  /\ up /\ phase = "saved" => disk.cur = run.cur /\ disk.unlanded = run.pulled
  /\ up /\ phase # "saved" => Shown(log, disk.cur) \subseteq Visible(live.doc)

\* What a cursor claims does not change, is no more than the server shows, and
\* is all of it at the head.
LEMMA ShownFacts ==
  ASSUME TInv, NEW c, Behind(c, server), \A i \in 1 .. server.seq : log'[i] = log[i]
  PROVE  /\ Shown(log', c) = Shown(log, c)
         /\ Shown(log, ServerHead) = Visible(server.doc)
         /\ Shown(log, Forget(c)) = {} /\ Shown(log', Forget(c)) = {}
<1>1. c.seq = 0 \/ c.seq \in 1 .. server.seq
  BY DEF Behind, Cursor, TInv, ServerOK
<1>2. Forget(c).seq = 0
  BY ForgetBehind DEF TInv, ServerOK
<1>3. Shown(log, ServerHead) = Visible(server.doc)
  BY DEF Shown, ServerHead, TInv, ServerOK
<1>4. Shown(log, Forget(c)) = {} /\ Shown(log', Forget(c)) = {}
  BY <1>2 DEF Shown
<1>5. Shown(log', c) = Shown(log, c)
  BY <1>1 DEF Shown
<1> QED  BY <1>3, <1>4, <1>5

LEMMA InitCovered == Init => OneSave /\ Covered
<1> SUFFICES ASSUME Init PROVE OneSave /\ Covered
  OBVIOUS
<1>1. OneSave
  BY DEF Init, OneSave, NoSave
<1>2. Doc(Fresh(0, {base})) /\ Visible(Fresh(0, {base})) = {base}
  <2>1. 0 \in 0 .. MaxEpoch /\ {base} \subseteq Content /\ base \in {base}
    BY ScopeAssumption DEF Content
  <2> QED  BY <2>1, DocFresh
<1>3. log[1] = {base} /\ disk.cur.seq = 1 /\ live.doc = Fresh(0, {base})
  <2>1. log = <<{base}>> /\ <<{base}>>[1] = {base}
    BY DEF Init
  <2>2. log[1] = {base}
    BY <2>1, Zenon
  <2> QED  BY <2>2 DEF Init
<1>4. Shown(log, disk.cur) \subseteq Visible(live.doc)
  BY <1>2, <1>3, Zenon DEF Shown
<1> QED  BY <1>1, <1>4 DEF Init, Covered, Loaded, Pulled

LEMMA CoveredServer ==
  ASSUME TInv, OneSave, Covered, NEW doc, NEW ep, Commit(doc, ep),
         UNCHANGED <<up, live, disk, saving>>, UNCHANGED <<run.doc, run.cur, run.pulled>>,
         phase' = phase \/ (phase = "pushing" /\ phase' = "pushed")
  PROVE  OneSave' /\ Covered'
<1>1. \A i \in 1 .. server.seq : log'[i] = log[i]
  BY DEF Commit, TInv, ServerOK
<1>2. Shown(log', disk.cur) = Shown(log, disk.cur) /\ Shown(log', run.cur) = Shown(log, run.cur)
  BY <1>1, ShownFacts DEF TInv, DiskOK, RunOK
<1>3. OneSave'
  BY DEF OneSave
<1> QED  BY <1>2, <1>3 DEF Covered, Loaded, Pulled

LEMMA CoveredUser ==
  ASSUME TInv, PlainOK, PlainLive, OneSave, Covered, Orderly, UNCHANGED scope,
         (\E e \in Local : ApplyLocal(e)) \/ SaveSnapshot \/ SaveStep
  PROVE  OneSave' /\ Covered'
<1>1. CASE \E e \in Local : ApplyLocal(e)
  <2>1. /\ UNCHANGED <<log, up, disk, saving, phase, run.doc, run.cur, run.pulled>> /\ up
    BY <1>1 DEF ApplyLocal, TInv, RunOK, RunType
  <2>2. Visible(live.doc) \subseteq Visible(live.doc')
    BY <1>1, PlainUser, HeldGrows DEF Orderly
  <2> QED  BY <2>1, <2>2 DEF OneSave, Covered
<1>2. CASE SaveSnapshot
  <2>1. phase = "idle"
    BY <1>2 DEF SaveSnapshot, Orderly
  <2>2. saving'.step = "encode"
    BY <1>2 DEF SaveSnapshot, NoSave
  <2> QED  BY <1>2, <2>1, <2>2 DEF SaveSnapshot, OneSave, Covered
<1>3. CASE SaveStep
  <2>1. /\ saving.step # "none" /\ UNCHANGED <<log, live, phase, run, up>>
        /\ disk'.cur = disk.cur \/ (saving.step = "write" /\ disk'.cur = saving.sync.cur)
        /\ saving'.step = "write" => saving'.sync = [k \in DOMAIN NoSync |-> disk'[k]]
    <3>1. saving'.step = "write" =>
            disk' = disk /\ saving'.sync = [k \in DOMAIN NoSync |-> disk[k]]
      BY <1>3, SaveStepFacts
    <3> QED  BY <1>3, <3>1, SaveStepFacts
  <2>2. up /\ phase = "idle"
    BY <2>1 DEF TInv, LiveOK, OneSave
  <2>3. disk'.cur = disk.cur
    BY <2>1 DEF OneSave, NoSync
  <2> QED  BY <2>1, <2>2, <2>3 DEF OneSave, Covered, Loaded, Pulled
<1> QED  BY <1>1, <1>2, <1>3

LEMMA CoveredRun ==
  ASSUME TInv, PlainOK, PlainLive, OneSave, Covered, Orderly, UNCHANGED scope,
         StartRun \/ LoadRun \/ Pull \/ SaveContent \/ PushNothing \/ SaveCursor
  PROVE  OneSave' /\ Covered'
<1>0. up /\ UNCHANGED <<up, log, live, saving>>
  BY DEF StartRun, LoadRun, Pull, SaveContent, PushNothing, SaveCursor, TInv, LiveOK
<1>1. OneSave'
  <2>1. saving.step = "none"
    BY DEF StartRun, LoadRun, Pull, SaveContent, PushNothing, SaveCursor, Orderly, OneSave, NoSave
  <2> QED  BY <1>0, <2>1 DEF OneSave
<1>2. CASE StartRun
  BY <1>0, <1>1, <1>2 DEF StartRun, Covered, Loaded, Pulled
<1>3. CASE LoadRun
  <2>1. run'.doc = live.doc /\ run'.cur = disk.cur
    BY <1>3 DEF LoadRun, TInv, RunOK, RunType
  <2> QED  BY <1>0, <1>1, <1>3, <2>1 DEF LoadRun, Covered
<1>4. CASE Pull
  <2>1. \/ run'.doc = run.doc \cup server.doc /\ run'.cur = ServerHead
        \/ run'.doc = run.doc /\ run'.cur = run.cur
    BY <1>4, PlainPull DEF Orderly
  <2>2. phase \in Loaded /\ phase # "saved" /\ phase' # "saved" /\ UNCHANGED <<server, disk>>
    BY <1>4 DEF Pull, Loaded
  <2>3. Shown(log, ServerHead) = Visible(server.doc)
    BY <1>0, ShownFacts DEF TInv, DiskOK
  <2>4. Visible(server.doc) \subseteq Visible(run.doc \cup server.doc)
    BY HeldGrows
  <2>5. Shown(log, run'.cur) \subseteq Visible(run'.doc)
    BY <2>1, <2>2, <2>3, <2>4 DEF Covered
  <2> QED  BY <1>0, <1>1, <2>2, <2>5 DEF Covered
<1>5. CASE SaveContent \/ PushNothing
  <2>1. /\ phase \in Loaded /\ phase # "saved" /\ phase' # "saved"
        /\ run' = run /\ disk'.cur = disk.cur
    BY <1>5 DEF SaveContent, PushNothing, Loaded, Pulled, TInv, DiskOK
  <2> QED  BY <1>0, <1>1, <2>1 DEF Covered
<1>6. CASE SaveCursor
  <2>1. /\ phase \in Loaded /\ phase' = "saved" /\ run' = run
        /\ disk'.cur = run.cur /\ disk'.unlanded = run.pulled
    BY <1>6, SavedFacts DEF SaveCursor, Loaded, Pulled, TInv, RunOK, RunType
  <2> QED  BY <1>0, <1>1, <2>1 DEF Covered
<1> QED  BY <1>2, <1>3, <1>4, <1>5, <1>6

LEMMA CoveredEnds ==
  ASSUME TInv, PlainOK, PlainLive, OneSave, Covered, Orderly, UNCHANGED scope,
         PullFails \/ MediaFails \/ WriteFails \/ PushFails \/ RejectStale \/ Land
  PROVE  OneSave' /\ Covered'
<1>0. /\ up /\ up' /\ phase' \in {"idle", "stale"} /\ phase' # "saved" /\ phase' \notin Loaded
      /\ phase \in Loaded /\ phase # "idle" /\ saving' = saving /\ run' = NoRun
  BY DEF PullFails, MediaFails, WriteFails, PushFails, RejectStale, Land, TInv, LiveOK,
         Loaded, Pulled
<1>1. OneSave'
  BY <1>0 DEF OneSave
<1>2. \A i \in 1 .. server.seq : log'[i] = log[i]
  BY DEF PullFails, MediaFails, WriteFails, PushFails, RejectStale, Land, Commit, TInv, ServerOK
<1>3. /\ Shown(log', disk.cur) = Shown(log, disk.cur)
      /\ Shown(log', run.cur) = Shown(log, run.cur)
      /\ Shown(log', Forget(run.cur)) = {}
  BY <1>2, ShownFacts DEF TInv, DiskOK, RunOK
<1>4. ~run.pulled => Shown(log, run.cur) \subseteq Visible(live.doc)
  <2>1. ~run.pulled => Visible(run.doc) \subseteq Visible(live.doc)
    BY <1>0, HeldGrows DEF PlainLive
  <2> QED  BY <1>0, <2>1 DEF Covered
<1>5. Shown(log', disk'.cur) \subseteq Visible(live'.doc)
  <2>1. CASE FailedPush /\ live' = live
    <3>1. disk'.cur = (IF run.pulled THEN Forget(run.cur) ELSE run.cur)
      BY <2>1, FailedPushFacts
    <3> QED  BY <2>1, <3>1, <1>3, <1>4
  <2>2. CASE PullFails
    BY <2>2, <1>0, <1>3 DEF PullFails, Covered
  <2>3. CASE MediaFails
    <3>1. disk.cur = run.cur /\ live' = live
      BY <2>3, <1>0 DEF MediaFails, Covered
    <3>2. disk'.cur = (IF run.pulled THEN Forget(run.cur) ELSE run.cur)
      BY <2>3, <3>1 DEF MediaFails, TInv, DiskOK
    <3> QED  BY <3>1, <3>2, <1>3, <1>4
  <2>4. CASE WriteFails
    BY <2>4 DEF WriteFails, Fault, Orderly
  <2>5. CASE Land
    <3>1. phase = "saved" /\ disk' = disk
      BY <2>5 DEF Land, PlainOK
    <3>2. disk.cur = run.cur
      BY <3>1, <1>0 DEF Covered
    <3>3. Visible(run.doc) \subseteq Visible(live.doc')
      BY <2>5, PlainLand, HeldGrows DEF Orderly
    <3> QED  BY <1>0, <1>3, <3>1, <3>2, <3>3 DEF Covered
  <2> QED  BY <2>1, <2>2, <2>3, <2>4, <2>5 DEF PushFails, RejectStale
<1> QED  BY <1>0, <1>1, <1>5 DEF Covered

LEMMA CoveredStops ==
  ASSUME TInv, PlainOK, PlainLive, OneSave, Covered, Orderly, UNCHANGED scope,
         Crash \/ Quit \/ Restart
  PROVE  OneSave' /\ Covered'
<1>1. CASE Crash
  BY <1>1 DEF Crash, Fault, Orderly
<1>2. CASE Quit
  <2>1. saving = NoSave /\ Late({"write"}, WithSync(saving.sync)) = {}
        /\ Late({"encode", "queue"}, disk) = {} /\ "signout" \notin scope.faults
    <3>1. "racing" \notin scope.faults /\ "signout" \notin scope.faults
      BY DEF Orderly
    <3>2. saving = NoSave
      BY <1>2, <3>1 DEF Quit
    <3>3. saving.step = "none"
      BY <3>2 DEF NoSave
    <3> QED  BY <3>1, <3>2, <3>3 DEF Late
  <2>2. \E doc, pend : disk' = [AbandonUnlanded EXCEPT !.doc = doc, !.pend = pend]
    <3>1. PICK sync \in {AbandonUnlanded} \cup Late({"encode", "queue"}, disk)
                         \cup (IF "signout" \in scope.faults THEN {disk} ELSE {})
                         \cup Late({"write"}, WithSync(saving.sync)) :
            \E doc, pend : disk' = [sync EXCEPT !.doc = doc, !.pend = pend]
      BY <1>2 DEF Quit
    <3>2. sync = AbandonUnlanded
      BY <2>1, <3>1
    <3> QED  BY <3>1, <3>2
  <2>3. disk'.cur = AbandonUnlanded.cur
    <3>1. AbandonUnlanded \in [doc : SUBSET Struct, pend : SUBSET Struct, cur : Cursor,
                               unlanded : BOOLEAN, reoffered : BOOLEAN]
      BY ForgetBehind DEF AbandonUnlanded, TInv, DiskOK, ServerOK
    <3> QED  BY <2>2, <3>1
  <2>4. /\ up /\ ~up' /\ UNCHANGED log /\ disk'.doc = live.doc /\ disk'.pend = live.pend
        /\ phase' = "idle" /\ saving' = NoSave
    BY <1>2, <2>1, QuitFacts DEF Stop
  <2>5. Shown(log, Forget(disk.cur)) = {}
    BY <2>4, ShownFacts DEF TInv, DiskOK
  <2>6. Shown(log, disk'.cur) \subseteq Visible(live.doc)
    <3>1. CASE phase # "idle" /\ disk.unlanded
      <4>1. disk'.cur = Forget(disk.cur)
        BY <2>3, <3>1 DEF AbandonUnlanded, TInv, DiskOK
      <4> QED  BY <4>1, <2>5
    <3>2. CASE ~(phase # "idle" /\ disk.unlanded)
      <4>1. disk'.cur = disk.cur
        BY <2>3, <3>2 DEF AbandonUnlanded
      <4>2. CASE phase = "saved"
        <5>1. disk.cur = run.cur /\ ~run.pulled /\ phase \in Loaded
          BY <4>2, <3>2, <2>4 DEF Covered, Loaded, Pulled
        <5>2. Visible(run.doc) \subseteq Visible(live.doc)
          BY <5>1, HeldGrows DEF PlainLive
        <5> QED  BY <4>1, <5>1, <5>2 DEF Covered
      <4>3. CASE phase # "saved"
        BY <4>1, <4>3, <2>4 DEF Covered
      <4> QED  BY <4>2, <4>3
    <3> QED  BY <3>1, <3>2
  <2>7. Visible(live.doc) \subseteq Visible(live.doc \cup live.pend)
    BY HeldGrows
  <2>8. OneSave'
    BY <2>4 DEF OneSave, NoSave
  <2> QED  BY <2>4, <2>6, <2>7, <2>8 DEF Covered, Loaded, Pulled
<1>3. CASE Restart
  <2>1. Visible(live'.doc) = Visible(disk.doc \cup disk.pend)
    BY <1>3, RestartKeeps
  <2>2. /\ ~up /\ up' /\ UNCHANGED <<log, disk, saving, phase, run>> /\ phase = "idle"
    BY <1>3 DEF Restart, TInv, LiveOK
  <2> QED  BY <2>1, <2>2 DEF OneSave, Covered, Loaded, Pulled
<1> QED  BY <1>1, <1>2, <1>3

LEMMA StepCovered ==
  ASSUME TInv, PlainOK, PlainLive, OneSave, Covered, Orderly, [Next]_vars
  PROVE  OneSave' /\ Covered'
<1>1. CASE UNCHANGED vars
  BY <1>1 DEF vars, OneSave, Covered
<1>2. CASE Next
  <2>0. UNCHANGED scope
    BY <1>2 DEF Next
  <2>1. CASE \E e \in Remote : RemotePush(e)
    BY <2>1, CoveredServer DEF RemotePush
  <2>2. CASE RemoteSquash \/ ProposeSquash
    BY <2>2 DEF RemoteSquash, ProposeSquash, Orderly, Plain
  <2>3. CASE (\E e \in Local : ApplyLocal(e)) \/ SaveSnapshot \/ SaveStep
    BY <2>0, <2>3, CoveredUser
  <2>4. CASE RunStep \/ SkipAdoption
    <3>1. CASE StartRun \/ LoadRun \/ Pull \/ SaveContent \/ PushNothing \/ SaveCursor
      BY <2>0, <3>1, CoveredRun
    <3>2. CASE Accept
      <4>1. UNCHANGED <<run.doc, run.cur, run.pulled>>
        BY <3>2 DEF Accept, TInv, RunOK, RunType
      <4> QED  BY <3>2, <4>1, CoveredServer DEF Accept
    <3>3. CASE RejectStale \/ Land
      BY <2>0, <3>3, CoveredEnds
    <3>4. CASE AdoptSquash \/ SaveSquashCursor \/ SkipAdoption
      BY <3>4 DEF AdoptSquash, SaveSquashCursor, SkipAdoption, PlainOK
    <3> QED  BY <2>4, <3>1, <3>2, <3>3, <3>4 DEF RunStep
  <2>5. CASE PullFails \/ PushFails \/ MediaFails \/ WriteFails
    BY <2>0, <2>5, CoveredEnds
  <2>6. CASE Crash \/ Quit \/ Restart
    BY <2>0, <2>6, CoveredStops
  <2> QED  BY <1>2, <2>1, <2>2, <2>3, <2>4, <2>5, <2>6 DEF Next
<1> QED  BY <1>1, <1>2

\* What holds of every behaviour, whatever its scope, so far.
COInv ==
  /\ TInv
  /\ Plain => PlainOK /\ PlainLive
  /\ Orderly => OneSave /\ Covered

LEMMA ScopeStays == [Next]_vars => UNCHANGED scope
  BY DEF Next, vars

LEMMA StepCOInv == COInv /\ [Next]_vars => COInv'
<1> SUFFICES ASSUME COInv, [Next]_vars PROVE COInv'
  OBVIOUS
<1>0. UNCHANGED scope
  BY ScopeStays
<1>1. TInv'
  BY StepKeeps DEF COInv, Kept
<1>2. ASSUME Plain' PROVE PlainOK' /\ PlainLive'
  <2>1. Plain
    BY <1>0, <1>2 DEF Plain
  <2> QED  BY <2>1, StepPlain DEF COInv
<1>3. ASSUME Orderly' PROVE OneSave' /\ Covered'
  <2>1. Orderly
    BY <1>0, <1>3 DEF Orderly, Plain
  <2> QED  BY <2>1, StepCovered DEF COInv, Orderly
<1> QED  BY <1>1, <1>2, <1>3 DEF COInv

\* Between runs the device holds what its saved cursor claims, and so what the
\* server will not send again: in every scope without squashes where no crash,
\* failed write, racing or overlapping save or sign-out can lose a file.
THEOREM CursorClaims == Spec => []LiveCovered
<1>1. Init => COInv
  BY InitTInv, InitPlain, InitCovered DEF COInv
<1>2. COInv => LiveCovered
  <2> SUFFICES ASSUME COInv, Orderly, up, phase = "idle"
               PROVE  Claim \subseteq Visible(live.doc)
    BY DEF LiveCovered, Orderly, Plain
  <2> QED  BY DEF COInv, Covered, Shown, Claim
<1> QED  BY <1>1, <1>2, StepCOInv, PTL DEF Spec

(***************************************************************************)
(* Part 3. Squashes, by this device and by others, where nothing fails but *)
(* pulls: a document of another epoch replaces the local one, and its      *)
(* queued edits are expressed again.                                       *)
(***************************************************************************)
Quiet == scope.squashes /\ scope.faults \subseteq {"pull"}

\* Whose epoch a document is of; and of which epochs a queue holds a population.
Of(S, k) == S \subseteq Fresh(k, Content)
OfOne(S) == \E k \in 0 .. MaxEpoch : Of(S, k)
BaseOf(S, k) == \A j \in 0 .. MaxEpoch : <<j, base>> \in S => j = k
NoBase(S) == \A j \in 0 .. MaxEpoch : <<j, base>> \notin S

Agreed == {"saved", "squashed", "adopted", "landing"}

\* A cursor of the server's epoch means a document of that epoch. A run that was
\* refused as stale leaves a cursor ahead of the live document: of an epoch the
\* server has left, so the next run adopts.
QuietOK ==
  /\ up /\ ~run.edited
  /\ Of(server.doc, server.epoch)
  /\ OfOne(live.doc) /\ OfOne(disk.doc) /\ OfOne(saving.doc) /\ OfOne(run.doc)
  /\ NoBase(live.pend) /\ NoBase(saving.pend)
  /\ BaseOf(disk.pend, disk.cur.epoch)
  /\ phase = "starting" => NoBase(run.pend)
  /\ phase \in Loaded => BaseOf(run.pend, run.cur.epoch)
  /\ phase \notin Agreed /\ disk.cur.epoch = server.epoch => Of(live.doc, server.epoch)
  /\ phase = "pulling" /\ run.cur.epoch = server.epoch => Of(run.doc, server.epoch)
  /\ phase \in Pulled => Of(run.doc, run.cur.epoch)
  /\ phase \in {"saved", "squashed", "landing"} => disk.cur = run.cur
  /\ phase \in {"squashed", "adopted"} => run.pend = {}

\* Everything in a document is shown by the server, or queued in its history.
Sees(D, P) == \A s \in D : s[2] \in Visible(server.doc) \/ s \in P
QuietLive ==
  /\ Sees(live.doc, live.pend)
  /\ phase \in {"starting", "pulling"} => live.pend \subseteq run.pend
  /\ phase \in Loaded => Visible(live.doc) \subseteq Visible(run.doc)
  /\ phase \in Loaded /\ ~run.pulled => run.doc = live.doc
  /\ phase \in {"pulled", "pushing"} => Sees(run.doc, run.pend)
  /\ phase \in {"pushed", "saved", "squashed", "adopted", "landing"} => Sees(run.doc, {})

QInv == OneSave /\ QuietOK /\ QuietLive

\* A document of an epoch holds its population.
LEMMA OfBase ==
  ASSUME NEW D, Doc(D), NEW k, Of(D, k)
  PROVE  <<k, base>> \in D /\ k \in 0 .. MaxEpoch
<1>1. \A s \in D : s[1] = k
  BY DEF Of, Fresh
<1>2. PICK s \in Held(D) : s[2] = base
  BY DEF Doc, Visible
<1>3. <<k, base>> \in D
  BY <1>1, <1>2 DEF Held
<1> QED  BY <1>3 DEF Doc, Struct

\* What integrates of a document and of a queue without another population is of
\* the document's epoch.
LEMMA HeldOf ==
  ASSUME NEW D, Doc(D), NEW k, Of(D, k), NEW P, P \subseteq Struct, BaseOf(P, k)
  PROVE  /\ Of(Held(D \cup P), k)
         /\ D \subseteq Held(D \cup P)
         /\ \A s \in Held(D \cup P) : s \in D \/ s \in P
         /\ \A s \in P : s[1] = k => s \in Held(D \cup P)
<1>1. <<k, base>> \in D /\ k \in 0 .. MaxEpoch
  BY OfBase
<1>2. \A s \in D : s[1] = k
  BY DEF Of, Fresh
<1>3. \A s \in Held(D \cup P) : s[1] = k
  <2> SUFFICES ASSUME NEW s \in Held(D \cup P), s \notin D PROVE s[1] = k
    BY <1>2
  <2>1. s \in P /\ <<s[1], base>> \in D \cup P /\ s[1] \in 0 .. MaxEpoch
    BY DEF Held, Struct
  <2>2. CASE <<s[1], base>> \in D
    BY <1>2, <2>2
  <2>3. CASE <<s[1], base>> \in P
    BY <2>1, <2>3 DEF BaseOf
  <2> QED  BY <2>1, <2>2, <2>3
<1>4. Held(D \cup P) \subseteq D \cup P
  BY HeldGrows
<1>5. D \subseteq Struct
  BY DEF Doc
<1>6. \A s \in Held(D \cup P) : s \in Fresh(k, Content)
  <2> SUFFICES ASSUME NEW s \in Held(D \cup P) PROVE s \in Fresh(k, Content)
    OBVIOUS
  <2>1. s \in Struct /\ s[1] = k
    BY <1>3, <1>4, <1>5
  <2> QED  BY <2>1 DEF Struct, Fresh
<1>7. D \subseteq Held(D \cup P) /\ \A s \in P : s[1] = k => s \in Held(D \cup P)
  BY <1>1, <1>2 DEF Held
<1> QED  BY <1>4, <1>6, <1>7 DEF Of

LEMMA InitQuiet == Init => (Quiet => QInv)
<1> SUFFICES ASSUME Init, Quiet PROVE QInv
  OBVIOUS
<1>1. 0 \in 0 .. MaxEpoch /\ Of(Fresh(0, {base}), 0) /\ Of({}, 0) /\ NoBase({})
      /\ \A k : BaseOf({}, k)
  BY ScopeAssumption DEF Of, Fresh, Content, NoBase, BaseOf
<1>2. OfOne(Fresh(0, {base})) /\ OfOne({})
  BY <1>1 DEF OfOne
<1>3. Doc(Fresh(0, {base})) /\ Visible(Fresh(0, {base})) = {base}
  <2>1. {base} \subseteq Content /\ base \in {base}
    BY DEF Content
  <2> QED  BY <1>1, <2>1, DocFresh
<1>4. Sees(Fresh(0, {base}), {})
  BY <1>3 DEF Init, Sees, Fresh
<1>5. OneSave
  BY DEF Init, OneSave, NoSave
<1>6. QuietOK
  BY <1>1, <1>2 DEF Init, QuietOK, NoSave, NoRun, Agreed, Loaded, Pulled
<1>7. QuietLive
  BY <1>4 DEF Init, QuietLive, Loaded, Pulled
<1> QED  BY <1>5, <1>6, <1>7 DEF QInv

\* A commit that hides nothing leaves the device as it was.
LEMMA QuietServer ==
  ASSUME TInv, QInv, Kept, server.epoch <= server'.epoch,
         Of(server'.doc, server'.epoch),
         UNCHANGED <<up, live, disk, saving, run>>,
         phase' = phase \/ (phase = "saved" /\ phase' = "squashed" /\ run.pend = {})
  PROVE  QInv'
<1>1. Visible(server.doc) \subseteq Visible(server'.doc)
  BY DEF Kept
<1>2. /\ disk.cur.epoch = server'.epoch => server.epoch = server'.epoch
                                           /\ disk.cur.epoch = server.epoch
      /\ run.cur.epoch = server'.epoch => server.epoch = server'.epoch
                                          /\ run.cur.epoch = server.epoch
  BY ScopeAssumption DEF Kept, TInv, DiskOK, RunOK, Behind, Cursor, ServerOK
<1>3. OneSave'
  BY DEF QInv, OneSave
<1>4. QuietOK'
  BY <1>2 DEF QInv, QuietOK, Agreed, Loaded, Pulled
<1>5. QuietLive'
  BY <1>1 DEF QInv, QuietLive, Sees, Loaded, Pulled
<1> QED  BY <1>3, <1>4, <1>5 DEF QInv

LEMMA QuietCommits ==
  ASSUME TInv, QInv, UNCHANGED scope,
         (\E e \in Remote : RemotePush(e)) \/ RemoteSquash \/ ProposeSquash
  PROVE  QInv'
<1>1. Kept
  BY RemotePushKeeps, RemoteSquashKeeps, SquashKeeps
<1>2. UNCHANGED <<up, live, disk, saving, run>>
  BY DEF RemotePush, RemoteSquash, ProposeSquash
<1>3. server.epoch \in 0 .. MaxEpoch /\ Of(server.doc, server.epoch)
  BY DEF TInv, ServerOK, QInv, QuietOK
<1>4. CASE \E e \in Remote : RemotePush(e)
  <2>1. PICK e \in Remote : RemotePush(e)
    BY <1>4
  <2>2. server'.doc = server.doc \cup Fresh(server.epoch, {e}) /\ server'.epoch = server.epoch
    BY <2>1 DEF RemotePush, Commit
  <2>3. Of(server'.doc, server'.epoch)
    BY <1>3, <2>2 DEF Of, Fresh, Content
  <2> QED  BY <1>1, <1>2, <1>3, <2>1, <2>2, <2>3, QuietServer DEF RemotePush
<1>5. CASE RemoteSquash
  <2>1. server'.doc = Rebuilt(server.doc, server.epoch + 1) /\ server'.epoch = server.epoch + 1
    BY <1>5 DEF RemoteSquash, Commit
  <2>2. Visible(server.doc) \subseteq Content
    BY DocShows DEF TInv, ServerOK
  <2>3. Of(server'.doc, server'.epoch)
    BY <2>1, <2>2 DEF Of, Rebuilt, Fresh
  <2>4. server.epoch <= server'.epoch /\ phase' = phase
    BY <1>3, <1>5, <2>1 DEF RemoteSquash
  <2> QED  BY <1>1, <1>2, <2>3, <2>4, QuietServer
<1>6. CASE ProposeSquash
  <2>1. server'.doc = Rebuilt(run.doc, server.epoch + 1) /\ server'.epoch = server.epoch + 1
    BY <1>6 DEF ProposeSquash, Commit
  <2>2. Visible(run.doc) \subseteq Content
    BY <1>6, ProposeFacts, DocShows
  <2>3. Of(server'.doc, server'.epoch)
    BY <2>1, <2>2 DEF Of, Rebuilt, Fresh
  <2>4. /\ server.epoch <= server'.epoch
        /\ phase = "saved" /\ phase' = "squashed" /\ run.pend = {}
    BY <1>3, <1>6, <2>1 DEF ProposeSquash
  <2> QED  BY <1>1, <1>2, <2>3, <2>4, QuietServer
<1> QED  BY <1>4, <1>5, <1>6

LEMMA QuietUser ==
  ASSUME TInv, QInv, Quiet, UNCHANGED scope,
         (\E e \in Local : ApplyLocal(e)) \/ SaveSnapshot \/ SaveStep
  PROVE  QInv' /\ Visible(live.doc) \subseteq Visible(live.doc')
<1>0. "typing" \notin scope.faults /\ "signout" \notin scope.faults
  BY DEF Quiet
<1>1. CASE \E e \in Local : ApplyLocal(e)
  <2>1. PICK e \in Local : ApplyLocal(e)
    BY <1>1
  <2>2. PICK k \in Lineages(live.doc) :
          live' = [doc |-> live.doc \cup Fresh(k, {e}), pend |-> live.pend \cup Fresh(k, {e})]
    BY <2>1 DEF ApplyLocal
  <2>3. phase = "idle" /\ UNCHANGED <<up, server, disk, saving, phase, run>>
    BY <1>0, <2>1 DEF ApplyLocal
  <2>4. /\ live'.doc = live.doc \cup Fresh(k, {e}) /\ live'.pend = live.pend \cup Fresh(k, {e})
    BY <2>2
  <2>5. /\ \A j : Of(live.doc, j) => j = k /\ Of(live'.doc, j)
        /\ OfOne(live'.doc)
    <3>1. \A j : Of(live.doc, j) => j = k
      BY DEF Lineages, Held, Of, Fresh
    <3>2. e \in Content
      BY DEF Content
    <3>3. \A j : Of(live.doc, j) => Of(live'.doc, j)
      BY <2>4, <3>1, <3>2 DEF Of, Fresh
    <3> QED  BY <3>1, <3>3 DEF QInv, QuietOK, OfOne
  <2>6. e # base
    BY ContentAssumption
  <2>7. NoBase(live'.pend)
    BY <2>4, <2>6 DEF NoBase, Fresh, QInv, QuietOK
  <2>8. Sees(live'.doc, live'.pend)
    BY <2>3, <2>4 DEF Sees, QInv, QuietLive
  <2>a. phase \notin Loaded /\ phase \notin Agreed /\ phase \notin Pulled
    BY <2>3 DEF Loaded, Pulled, Agreed
  <2>b. QuietOK'
    BY <2>3, <2>5, <2>7, <2>a DEF QInv, QuietOK
  <2>c. QuietLive'
    BY <2>3, <2>8, <2>a DEF QInv, QuietLive, Sees
  <2>9. QuietOK' /\ QuietLive' /\ OneSave'
    BY <2>3, <2>b, <2>c DEF QInv, OneSave
  <2>10. Visible(live.doc) \subseteq Visible(live'.doc)
    BY <2>4, HeldGrows
  <2> QED  BY <2>9, <2>10 DEF QInv
<1>2. CASE SaveSnapshot
  <2>1. /\ saving'.pend = live.pend /\ saving'.doc = live.doc /\ saving'.step = "encode"
        /\ phase = "idle" /\ UNCHANGED <<server, live, disk, phase, run, up>>
    BY <1>0, <1>2 DEF SaveSnapshot, NoSave
  <2>2. QuietOK' /\ QuietLive'
    BY <2>1 DEF QInv, QuietOK, QuietLive, Sees, Loaded, Pulled, Agreed
  <2>3. OneSave'
    BY <2>1 DEF OneSave
  <2> QED  BY <2>1, <2>2, <2>3 DEF QInv
<1>3. CASE SaveStep
  <2>1. /\ saving'.pend \in {saving.pend, {}} /\ saving'.doc \in {saving.doc, live.doc, {}}
        /\ disk'.doc \in {disk.doc, saving.doc}
        /\ UNCHANGED <<server, live, phase, run, up>>
        /\ saving.step # "none"
        /\ disk'.cur = disk.cur \/ (saving.step = "write" /\ disk'.cur = saving.sync.cur)
        /\ disk'.pend \in {disk.pend, saving.pend}
    BY <1>3, SaveStepFacts
  <2>2. saving'.step = "write" => saving'.sync = [j \in DOMAIN NoSync |-> disk'[j]]
    <3>1. saving'.step = "write" =>
            disk' = disk /\ saving'.sync = [j \in DOMAIN NoSync |-> disk[j]]
      BY <1>3, SaveStepFacts
    <3> QED  BY <3>1
  <2>3. phase = "idle"
    BY <2>1 DEF QInv, OneSave
  <2>4. disk'.cur = disk.cur
    BY <2>1 DEF QInv, OneSave, NoSync
  <2>5. OfOne({}) /\ NoBase({})
    BY DEF OfOne, Of, NoBase, QInv, QuietOK
  <2>6. NoBase(saving.pend) => BaseOf(saving.pend, disk.cur.epoch)
    BY DEF NoBase, BaseOf
  <2>7. OfOne(disk'.doc) /\ OfOne(saving'.doc) /\ NoBase(saving'.pend)
        /\ BaseOf(disk'.pend, disk'.cur.epoch)
    BY <2>1, <2>4, <2>5, <2>6 DEF QInv, QuietOK
  <2>8. OneSave'
    BY <2>1, <2>2, <2>3 DEF OneSave
  <2>9. QuietOK' /\ QuietLive'
    BY <2>1, <2>3, <2>4, <2>7 DEF QInv, QuietOK, QuietLive, Sees, Loaded, Pulled, Agreed
  <2> QED  BY <2>1, <2>8, <2>9 DEF QInv
<1> QED  BY <1>1, <1>2, <1>3

LEMMA QuietStarts ==
  ASSUME TInv, QInv, Quiet, UNCHANGED scope, StartRun \/ LoadRun
  PROVE  QInv' /\ UNCHANGED live
<1>0. UNCHANGED <<up, server, live, disk, saving>>
  BY DEF StartRun, LoadRun
<1>1. OneSave'
  <2>1. "overlap" \notin scope.faults
    BY DEF Quiet
  <2>2. saving.step = "none"
    BY <2>1 DEF StartRun, LoadRun, QInv, OneSave, NoSave
  <2> QED  BY <1>0, <2>2 DEF OneSave
<1>2. CASE StartRun
  <2>1. /\ run'.pend = live.pend /\ run'.doc = {} /\ phase' = "starting"
        /\ phase \notin Agreed /\ ~run'.edited
    BY <1>2 DEF StartRun, NoRun, Agreed
  <2>2. OfOne({})
    BY DEF OfOne, Of, QInv, QuietOK
  <2>3. QuietOK' /\ QuietLive'
    BY <1>0, <2>1, <2>2 DEF QInv, QuietOK, QuietLive, Sees, Loaded, Pulled, Agreed
  <2> QED  BY <1>0, <1>1, <2>3 DEF QInv
<1>3. CASE LoadRun
  <2>1. /\ run'.pend = run.pend \cup disk.pend /\ run'.doc = live.doc /\ run'.cur = disk.cur
        /\ phase = "starting" /\ phase' = "pulling" /\ run'.edited = run.edited
    BY <1>3 DEF LoadRun, TInv, RunOK, RunType
  <2>2. BaseOf(run'.pend, run'.cur.epoch)
    BY <2>1 DEF QInv, QuietOK, BaseOf, NoBase
  <2>3. QuietOK' /\ QuietLive'
    BY <1>0, <2>1, <2>2 DEF QInv, QuietOK, QuietLive, Sees, Loaded, Pulled, Agreed
  <2> QED  BY <1>0, <1>1, <2>3 DEF QInv
<1> QED  BY <1>2, <1>3

\* Adopting shows what the run showed: what it lacks is queued, and rescued.
LEMMA AdoptShows ==
  ASSUME TInv, QInv, phase \in Loaded, Sees(run.doc, run.pend)
  PROVE  /\ Visible(run.doc) \subseteq Visible(server.doc \cup Rescue)
         /\ Of(server.doc \cup Rescue, server.epoch)
         /\ NoBase(Rescue) /\ BaseOf(Rescue, server.epoch)
         /\ Sees(server.doc \cup Rescue, Rescue)
<1>1. /\ Visible(server.doc \cup Rescue)
           = Visible(server.doc) \cup (Visible(run.doc) \cap {s[2] : s \in run.pend})
      /\ Rescue \subseteq Fresh(server.epoch, Content)
      /\ \A s \in Rescue : s[2] # base
  BY AdoptedFacts
<1>2. Visible(run.doc) = {s[2] : s \in run.doc} /\ Visible(server.doc) = {s[2] : s \in server.doc}
  BY DocShows DEF TInv, RunOK, ServerOK
<1>3. Visible(run.doc) \subseteq Visible(server.doc \cup Rescue)
  BY <1>1, <1>2 DEF Sees
<1>4. Of(server.doc \cup Rescue, server.epoch)
  BY <1>1 DEF Of, QInv, QuietOK
<1>5. NoBase(Rescue) /\ BaseOf(Rescue, server.epoch)
  <2>1. \A j : <<j, base>>[2] = base
    OBVIOUS
  <2>2. \A j : <<j, base>> \notin Rescue
    BY <1>1, <2>1
  <2> QED  BY <2>2 DEF NoBase, BaseOf
<1>6. Sees(server.doc \cup Rescue, Rescue)
  BY <1>2 DEF Sees
<1> QED  BY <1>3, <1>4, <1>5, <1>6

LEMMA QuietPull ==
  ASSUME TInv, QInv, Quiet, UNCHANGED scope, Pull
  PROVE  QInv' /\ UNCHANGED live
<1>0. /\ UNCHANGED <<up, server, live, disk, saving>> /\ phase = "pulling" /\ phase' = "pulled"
      /\ phase \in Loaded /\ phase' \in Pulled /\ phase' \in Loaded /\ ~run.pulled
  BY DEF Pull, Loaded, Pulled, TInv, RunOK
<1>1. OneSave'
  <2>1. saving.step = "none"
    BY <1>0 DEF QInv, OneSave
  <2> QED  BY <1>0, <2>1 DEF OneSave
<1>2. /\ run.doc = live.doc /\ live.pend \subseteq run.pend /\ Sees(run.doc, run.pend)
  BY <1>0 DEF QInv, QuietLive, Sees
<1>e. run'.edited = run.edited
  BY PullCases DEF Adopted, Merged, Repaired, TInv, RunOK, RunType
\* What the run has to have after the pull.
<1>3. SUFFICES /\ BaseOf(run'.pend, run'.cur.epoch) /\ Of(run'.doc, run'.cur.epoch)
               /\ run'.cur.epoch \in 0 .. MaxEpoch
               /\ Visible(run.doc) \subseteq Visible(run'.doc)
               /\ ~run'.pulled => run'.doc = run.doc
               /\ Sees(run'.doc, run'.pend)
  <2>1. OfOne(run'.doc)
    BY <1>3 DEF OfOne
  <2>2. QuietOK'
    BY <1>0, <1>e, <1>3, <2>1 DEF QInv, QuietOK, Agreed
  <2>3. QuietLive'
    BY <1>0, <1>2, <1>3 DEF QInv, QuietLive, Sees
  <2> QED  BY <1>0, <1>1, <2>2, <2>3 DEF QInv
<1>4. server.epoch \in 0 .. MaxEpoch /\ ServerHead.epoch = server.epoch
  BY DEF TInv, ServerOK, ServerHead
<1>5. CASE run' = [Adopted(run) EXCEPT !.reoffered = FALSE]
  <2>1. /\ run'.doc = server.doc \cup Rescue /\ run'.pend = Rescue /\ run'.cur = ServerHead
        /\ run'.pulled
    <3>1. run' = [run EXCEPT !.doc = server.doc \cup Rescue, !.pend = Rescue,
                             !.cur = ServerHead, !.pulled = TRUE, !.reoffered = FALSE]
      BY <1>0, <1>5, AdoptedFacts DEF TInv, RunOK, RunType
    <3> HIDE DEF Rescue
    <3> QED  BY <3>1 DEF TInv, RunOK, RunType
  <2> QED  BY <1>0, <1>2, <1>4, <2>1, AdoptShows
<1>6. CASE /\ run.cur.epoch = server.epoch
           /\ \/ run' = [Merged(run) EXCEPT !.reoffered = FALSE]
              \/ run.pend = {} /\ run' = Repaired(run)
  <2>1. /\ Merged(run) = [run EXCEPT !.doc = run.doc \cup server.doc, !.cur = ServerHead,
                                     !.pulled = run.doc \cup server.doc # run.doc]
        /\ Merged(run).doc = run.doc \cup server.doc /\ Merged(run).cur = ServerHead
        /\ Merged(run).pulled = (run.doc \cup server.doc # run.doc)
        /\ Merged(run).pend = run.pend
    BY <1>0, MergedFacts DEF TInv, RunOK, RunType
  <2>2. /\ run'.doc = run.doc \cup server.doc /\ run'.cur = ServerHead
        /\ run'.pulled = (run.doc \cup server.doc # run.doc)
        /\ run'.pend = run.pend \/ (run.pend = {} /\ run'.pend = run.doc \cup server.doc)
    <3>1. CASE run' = [Merged(run) EXCEPT !.reoffered = FALSE]
      BY <2>1, <3>1 DEF TInv, RunOK, RunType
    <3>2. CASE run.pend = {} /\ run' = Repaired(run)
      BY <2>1, <3>2 DEF Repaired, TInv, RunOK, RunType
    <3> QED  BY <1>6, <3>1, <3>2
  <2>3. Of(run.doc \cup server.doc, server.epoch)
    BY <1>0, <1>6 DEF QInv, QuietOK, Of
  <2>4. BaseOf(run.doc \cup server.doc, server.epoch)
    BY <2>3 DEF BaseOf, Of, Fresh
  <2>5. BaseOf(run.pend, server.epoch)
    BY <1>0, <1>6 DEF QInv, QuietOK
  <2>6. Sees(run.doc \cup server.doc, run.pend)
    BY <1>2, DocShows DEF Sees, TInv, ServerOK
  <2>7. Sees(run'.doc, run'.pend)
    BY <2>2, <2>6 DEF Sees
  <2>8. Visible(run.doc) \subseteq Visible(run.doc \cup server.doc)
    BY HeldGrows
  <2> QED  BY <1>4, <2>2, <2>3, <2>4, <2>5, <2>7, <2>8
<1>7. CASE run.cur.epoch = server.epoch /\ run' = [run EXCEPT !.reoffered = FALSE]
  <2>1. run'.doc = run.doc /\ run'.pend = run.pend /\ run'.cur = run.cur
    BY <1>7 DEF TInv, RunOK, RunType
  <2> QED  BY <1>0, <1>2, <1>4, <1>7, <2>1 DEF QInv, QuietOK
<1>8. ~Adopts(run) => run.cur.epoch = server.epoch
  BY DEF Adopts
<1> QED  BY <1>5, <1>6, <1>7, <1>8, PullCases

\* A run in its phases waits for no save, and no save for it.
LEMMA NoSaveInRun ==
  ASSUME OneSave, phase # "idle", UNCHANGED saving
  PROVE  OneSave'
  BY DEF OneSave

LEMMA QuietSaves ==
  ASSUME TInv, QInv, Quiet, UNCHANGED scope,
         SaveContent \/ PushNothing \/ SaveCursor \/ SaveSquashCursor
  PROVE  QInv' /\ UNCHANGED live
<1>0. /\ UNCHANGED <<up, server, live, saving, run>> /\ phase \in Pulled /\ phase' \in Pulled
      /\ phase \in Loaded /\ phase' \in Loaded /\ phase # "idle"
      /\ phase' \notin {"starting", "pulling", "pulled", "squashed", "adopted"}
  BY DEF SaveContent, PushNothing, SaveCursor, SaveSquashCursor, Loaded, Pulled
<1>1. OneSave'
  BY <1>0, NoSaveInRun DEF QInv
<1>2. CASE SaveContent \/ PushNothing
  <2>1. /\ disk'.doc \in {disk.doc, run.doc} /\ disk'.pend = disk.pend /\ disk'.cur = disk.cur
        /\ phase \notin Agreed /\ phase' \notin Agreed
    BY <1>2 DEF SaveContent, PushNothing, Agreed, TInv, DiskOK
  <2>2. QuietOK'
    BY <1>0, <2>1 DEF QInv, QuietOK, Agreed
  <2>3. Sees(run.doc, run.pend) /\ (PushNothing => Sees(run.doc, {}))
    BY <1>2 DEF QInv, QuietLive, Sees, SaveContent, PushNothing
  <2>4. QuietLive'
    BY <1>0, <1>2, <2>3 DEF QInv, QuietLive, Sees, SaveContent, PushNothing
  <2> QED  BY <1>0, <1>1, <2>2, <2>4 DEF QInv
<1>3. CASE SaveCursor \/ SaveSquashCursor
  <2>1. /\ disk'.doc = disk.doc /\ disk'.pend = run.pend /\ disk'.cur = run.cur
        /\ phase \in {"pushed", "adopted"} /\ phase' \in {"saved", "landing"}
    <3>1. CASE SaveCursor
      BY <3>1, SavedFacts DEF SaveCursor, TInv, RunOK, RunType
    <3>2. CASE SaveSquashCursor
      BY <3>2 DEF SaveSquashCursor, TInv, DiskOK
    <3> QED  BY <1>3, <3>1, <3>2
  <2>2. QuietOK'
    BY <1>0, <2>1 DEF QInv, QuietOK, Agreed
  <2>3. QuietLive'
    BY <1>0, <2>1 DEF QInv, QuietLive, Sees
  <2> QED  BY <1>0, <1>1, <2>2, <2>3 DEF QInv
<1> QED  BY <1>2, <1>3

\* The server takes the pushed updates of its epoch: the run's all are.
LEMMA QuietAccept ==
  ASSUME TInv, QInv, Quiet, UNCHANGED scope, Accept
  PROVE  QInv' /\ UNCHANGED live
<1> DEFINE D == Held(server.doc \cup run.pend)
<1>0. /\ UNCHANGED <<up, live, disk, saving>> /\ phase = "pushing" /\ phase' = "pushed"
      /\ phase \in Loaded /\ phase \in Pulled /\ phase' \in Loaded /\ phase' \in Pulled
      /\ run.cur.epoch = server.epoch
      /\ server'.doc = D /\ server'.epoch = server.epoch
  BY DEF Accept, Loaded, Pulled, Commit, CurrentEpoch
<1>1. OneSave'
  BY <1>0, NoSaveInRun DEF QInv
<1>2. /\ run'.doc = run.doc /\ run'.pend = {} /\ run'.cur = run.cur
      /\ run'.pulled = run.pulled /\ run'.edited = run.edited
  BY DEF Accept, TInv, RunOK, RunType
<1>3. Doc(server.doc) /\ Of(server.doc, server.epoch) /\ BaseOf(run.pend, server.epoch)
      /\ run.pend \subseteq Struct /\ Of(run.doc, server.epoch)
  BY <1>0 DEF TInv, ServerOK, QInv, QuietOK, RunOK, RunType
<1>4. /\ Of(D, server.epoch)
      /\ \A s \in run.pend : s[1] = server.epoch => s \in D
  BY <1>3, HeldOf
<1>5. Doc(D) /\ Visible(server.doc) \subseteq Visible(D)
  BY PushedFacts
<1>6. \A s \in run.doc : s[2] \in Visible(D)
  <2> SUFFICES ASSUME NEW s \in run.doc PROVE s[2] \in Visible(D)
    OBVIOUS
  <2>1. s[1] = server.epoch
    BY <1>3 DEF Of, Fresh
  <2>2. CASE s \in run.pend
    <3>1. s \in D
      BY <1>4, <2>1, <2>2
    <3>2. Visible(D) = {x[2] : x \in D}
      BY <1>5, DocShows
    <3> QED  BY <3>1, <3>2
  <2>3. CASE s[2] \in Visible(server.doc)
    BY <1>5, <2>3
  <2> QED  BY <1>0, <2>2, <2>3 DEF QInv, QuietLive, Sees
<1>7. BaseOf({}, run.cur.epoch)
  BY DEF BaseOf
<1>8. QuietOK'
  BY <1>0, <1>2, <1>4, <1>7 DEF QInv, QuietOK, Agreed
<1>9. QuietLive'
  <2>1. Sees(live.doc, live.pend)'
    BY <1>0, <1>5 DEF QInv, QuietLive, Sees
  <2>2. Sees(run.doc, {})'
    BY <1>0, <1>2, <1>6 DEF Sees
  <2> QED  BY <1>0, <1>2, <2>1, <2>2 DEF QInv, QuietLive
<1> QED  BY <1>0, <1>1, <1>8, <1>9 DEF QInv

\* A run refused as stale leaves a cursor of an epoch the server has left.
LEMMA QuietFails ==
  ASSUME TInv, QInv, Quiet, UNCHANGED scope, RejectStale \/ PullFails
  PROVE  QInv' /\ UNCHANGED live
<1>0. /\ UNCHANGED <<up, server, live, saving>> /\ phase \notin Agreed /\ phase # "idle"
      /\ phase' \in {"idle", "stale"} /\ run'.doc = {} /\ ~run'.edited
      /\ phase \in Loaded /\ phase' \notin Loaded
  BY DEF RejectStale, PullFails, NoRun, Agreed, Loaded, Pulled
<1>1. OneSave'
  BY <1>0, NoSaveInRun DEF QInv
<1>2. OfOne({})
  BY DEF OfOne, Of, QInv, QuietOK
<1>3. /\ disk'.doc = disk.doc
      /\ BaseOf(disk'.pend, disk'.cur.epoch)
      /\ disk'.cur.epoch = server.epoch => Of(live.doc, server.epoch)
  <2>1. CASE PullFails
    BY <1>0, <2>1 DEF PullFails, QInv, QuietOK
  <2>2. CASE RejectStale
    <3>1. /\ disk'.doc = disk.doc /\ disk'.pend = run.pend
          /\ disk'.cur.epoch = run.cur.epoch /\ run.cur.epoch # server.epoch
      BY <2>2, FailedPushFacts DEF RejectStale, CurrentEpoch
    <3> QED  BY <1>0, <3>1 DEF QInv, QuietOK
  <2> QED  BY <2>1, <2>2
<1>4. QuietOK'
  BY <1>0, <1>2, <1>3 DEF QInv, QuietOK, Loaded, Pulled, Agreed
<1>5. QuietLive'
  BY <1>0 DEF QInv, QuietLive, Sees, Loaded, Pulled
<1> QED  BY <1>0, <1>1, <1>4, <1>5 DEF QInv

LEMMA QuietSquash ==
  ASSUME TInv, QInv, Quiet, UNCHANGED scope, AdoptSquash \/ SkipAdoption
  PROVE  QInv' /\ UNCHANGED live
<1>0. /\ UNCHANGED <<up, server, live, saving>> /\ phase = "squashed" /\ phase # "idle"
      /\ phase \in Loaded /\ phase \in Pulled /\ run.pend = {}
  BY DEF AdoptSquash, SkipAdoption, Loaded, Pulled, QInv, QuietOK
<1>1. OneSave'
  BY <1>0, NoSaveInRun DEF QInv
<1>2. CASE AdoptSquash
  <2>1. /\ run'.doc = server.doc \cup Rescue /\ run'.pend = Rescue /\ run'.cur = ServerHead
        /\ run'.pulled /\ run'.edited = run.edited
    <3>1. run' = [run EXCEPT !.doc = server.doc \cup Rescue, !.pend = Rescue,
                             !.cur = ServerHead, !.pulled = TRUE]
      BY <1>0, <1>2, AdoptedFacts DEF AdoptSquash
    <3> HIDE DEF Rescue
    <3> QED  BY <3>1 DEF TInv, RunOK, RunType
  <2>2. Rescue = {}
    BY <1>0 DEF Rescue, Fresh
  <2>3. Sees(run.doc, run.pend)
    BY <1>0 DEF QInv, QuietLive, Sees
  <2>4. /\ Visible(run.doc) \subseteq Visible(run'.doc)
        /\ Of(run'.doc, server.epoch) /\ BaseOf(run'.pend, server.epoch)
        /\ Sees(run'.doc, {})
    BY <1>0, <2>1, <2>2, <2>3, AdoptShows
  <2>5. run'.cur.epoch = server.epoch /\ server.epoch \in 0 .. MaxEpoch
    BY <2>1 DEF ServerHead, TInv, ServerOK
  <2>6. /\ phase' = "adopted" /\ phase' \in Loaded /\ phase' \in Pulled /\ phase' \in Agreed
        /\ disk'.doc = run'.doc /\ disk'.pend = disk.pend /\ disk'.cur = disk.cur
    BY <1>2 DEF AdoptSquash, Loaded, Pulled, Agreed, TInv, DiskOK
  <2>7. OfOne(run'.doc)
    BY <2>4, <2>5 DEF OfOne
  <2>8. QuietOK'
    BY <1>0, <2>1, <2>2, <2>4, <2>5, <2>6, <2>7 DEF QInv, QuietOK
  <2>9. QuietLive'
    <3>1. Sees(live.doc, live.pend)' /\ Sees(run.doc, {})'
      BY <1>0, <2>4 DEF QInv, QuietLive, Sees
    <3>2. Visible(live.doc) \subseteq Visible(run'.doc)
      BY <1>0, <2>4 DEF QInv, QuietLive
    <3> QED  BY <1>0, <2>1, <2>6, <3>1, <3>2 DEF QuietLive
  <2> QED  BY <1>0, <1>1, <2>8, <2>9 DEF QInv
<1>3. CASE SkipAdoption
  <2>1. phase' = "landing" /\ UNCHANGED <<disk, run>> /\ phase' \in Loaded /\ phase' \in Pulled
    BY <1>3 DEF SkipAdoption, Loaded, Pulled
  <2>2. QuietOK' /\ QuietLive'
    BY <1>0, <2>1 DEF QInv, QuietOK, QuietLive, Sees, Agreed
  <2> QED  BY <1>0, <1>1, <2>2 DEF QInv
<1> QED  BY <1>2, <1>3

LEMMA QuietLand ==
  ASSUME TInv, QInv, Quiet, UNCHANGED scope, Land
  PROVE  QInv' /\ Visible(live.doc) \subseteq Visible(live.doc')
<1> DEFINE pend == live.pend \ run.sent
           k == run.cur.epoch
<1>0. /\ UNCHANGED <<up, server, disk, saving>> /\ phase \in {"saved", "landing"}
      /\ phase # "idle" /\ phase' = "idle" /\ run'.doc = {} /\ ~run'.edited
      /\ phase \in Loaded /\ phase \in Pulled
      /\ phase' \notin Loaded /\ phase' \notin Pulled /\ phase' \notin Agreed
  BY DEF Land, NoRun, Loaded, Pulled, Agreed
<1>1. OneSave'
  BY <1>0, NoSaveInRun DEF QInv
<1>2. /\ Doc(run.doc) /\ live'.pend = pend
      /\ \/ ~run.pulled /\ live'.doc = live.doc
         \/ run.pulled /\ live'.doc = Held(run.doc \cup pend)
  BY LandFacts DEF QInv, QuietOK
<1>3. /\ Of(run.doc, k) /\ disk.cur = run.cur /\ Sees(run.doc, {})
      /\ Visible(live.doc) \subseteq Visible(run.doc)
      /\ ~run.pulled => run.doc = live.doc
  BY <1>0 DEF QInv, QuietOK, QuietLive
<1>4. NoBase(pend) /\ BaseOf(pend, k) /\ pend \subseteq Struct
  BY DEF NoBase, BaseOf, QInv, QuietOK, TInv, LiveOK
<1>5. k \in 0 .. MaxEpoch
  BY <1>2, <1>3, OfBase
<1>6. /\ Of(live'.doc, k) /\ Sees(live'.doc, pend)
      /\ Visible(live.doc) \subseteq Visible(live'.doc)
  <2>1. CASE ~run.pulled /\ live'.doc = live.doc
    BY <1>3, <2>1 DEF Sees
  <2>2. CASE run.pulled /\ live'.doc = Held(run.doc \cup pend)
    <3>1. /\ Of(live'.doc, k) /\ run.doc \subseteq live'.doc
          /\ \A s \in live'.doc : s \in run.doc \/ s \in pend
      BY <1>2, <1>3, <1>4, <2>2, HeldOf
    <3>2. Visible(run.doc) \subseteq Visible(live'.doc)
      BY <3>1, HeldGrows
    <3> QED  BY <1>3, <3>1, <3>2 DEF Sees
  <2> QED  BY <1>2, <2>1, <2>2
<1>7. OfOne(live'.doc) /\ OfOne({})
  BY <1>5, <1>6 DEF OfOne, Of
<1>8. QuietOK'
  BY <1>0, <1>2, <1>3, <1>4, <1>6, <1>7 DEF QInv, QuietOK
<1>9. QuietLive'
  <2>1. Sees(live.doc, live.pend)'
    BY <1>0, <1>2, <1>6 DEF Sees
  <2> QED  BY <1>0, <2>1 DEF QuietLive, Loaded, Pulled
<1> QED  BY <1>1, <1>6, <1>8, <1>9 DEF QInv

LEMMA StepQuiet ==
  ASSUME TInv, QInv, Quiet, [Next]_vars
  PROVE  QInv' /\ Visible(live.doc) \subseteq Visible(live.doc')
<1>1. CASE UNCHANGED vars
  BY <1>1 DEF vars, QInv, OneSave, QuietOK, QuietLive, Sees
<1>2. CASE Next
  <2>0. UNCHANGED scope
    BY <1>2 DEF Next
  <2>1. CASE (\E e \in Remote : RemotePush(e)) \/ RemoteSquash \/ ProposeSquash
    <3>1. live' = live
      BY <2>1 DEF RemotePush, RemoteSquash, ProposeSquash
    <3> QED  BY <2>0, <2>1, <3>1, QuietCommits
  <2>2. CASE (\E e \in Local : ApplyLocal(e)) \/ SaveSnapshot \/ SaveStep
    BY <2>0, <2>2, QuietUser
  <2>3. CASE RunStep \/ SkipAdoption \/ PullFails
    <3>1. CASE StartRun \/ LoadRun
      BY <2>0, <3>1, QuietStarts
    <3>2. CASE Pull
      BY <2>0, <3>2, QuietPull
    <3>3. CASE SaveContent \/ PushNothing \/ SaveCursor \/ SaveSquashCursor
      BY <2>0, <3>3, QuietSaves
    <3>4. CASE Accept
      BY <2>0, <3>4, QuietAccept
    <3>5. CASE RejectStale \/ PullFails
      BY <2>0, <3>5, QuietFails
    <3>6. CASE AdoptSquash \/ SkipAdoption
      BY <2>0, <3>6, QuietSquash
    <3>7. CASE Land
      BY <2>0, <3>7, QuietLand
    <3> QED  BY <2>3, <3>1, <3>2, <3>3, <3>4, <3>5, <3>6, <3>7 DEF RunStep
  <2>4. CASE PushFails \/ MediaFails \/ WriteFails \/ Crash \/ Quit
    BY <2>4 DEF PushFails, MediaFails, WriteFails, Crash, Quit, Fault, Quiet
  <2>5. CASE Restart
    BY <2>5 DEF Restart, QInv, QuietOK
  <2> QED  BY <1>2, <2>1, <2>2, <2>3, <2>4, <2>5 DEF Next
<1> QED  BY <1>1, <1>2

\* Where histories are squashed, only pulls fail: the other failures can merge two
\* histories.
OnlyPullsFail == \A s \in Scopes : s.squashes => s.faults \subseteq {"pull"}

EInv == COInv /\ (Quiet => QInv)

LEMMA InitEInv == Init => EInv
  BY InitTInv, InitPlain, InitCovered, InitQuiet DEF COInv, EInv

LEMMA StepEInv == EInv /\ [Next]_vars => EInv'
<1> SUFFICES ASSUME EInv, [Next]_vars PROVE EInv'
  OBVIOUS
<1>1. COInv'
  BY StepCOInv DEF EInv
<1>2. ASSUME Quiet' PROVE QInv'
  <2>1. Quiet
    BY <1>2, ScopeStays DEF Quiet
  <2> QED  BY <2>1, StepQuiet DEF EInv, COInv
<1> QED  BY <1>1, <1>2 DEF EInv

\* A document of one epoch holds one history (Lineages).
LEMMA OneLineage ==
  ASSUME NEW S, NEW k, Of(S, k)
  PROVE  Cardinality(Lineages(S)) <= 1
<1>1. Lineages(S) \subseteq {k}
  BY DEF Lineages, Held, Of, Fresh
<1>2. CASE Lineages(S) = {}
  BY <1>2, FS_EmptySet
<1>3. CASE Lineages(S) = {k}
  BY <1>3, FS_Singleton
<1> QED  BY <1>1, <1>2, <1>3

\* No document ever holds two histories, its text doubled: without squashes,
\* whatever else fails; with squashes, when no failure but that of a pull comes
\* between the adoption of a history and the landing of the run that adopted it.
THEOREM OneHistory == OnlyPullsFail => (Spec => []NeverMixed)
<1> SUFFICES ASSUME OnlyPullsFail PROVE Spec => []NeverMixed
  OBVIOUS
<1>1. EInv => NeverMixed
  <2> SUFFICES ASSUME EInv, NEW S \in {server.doc, live.doc, disk.doc, run.doc}
               PROVE  Cardinality(Lineages(S)) <= 1
    BY DEF NeverMixed
  <2>1. CASE Plain
    <3>1. Of(S, 0)
      BY <2>1 DEF EInv, COInv, PlainOK, First, Of
    <3> QED  BY <3>1, OneLineage
  <2>2. CASE Quiet
    <3>1. \E k : Of(S, k)
      BY <2>2 DEF EInv, QInv, QuietOK, OfOne
    <3> QED  BY <3>1, OneLineage
  <2>3. Plain \/ Quiet
    BY DEF EInv, COInv, TInv, Bounds, OnlyPullsFail, Plain, Quiet
  <2> QED  BY <2>1, <2>2, <2>3
<1> QED  BY InitEInv, StepEInv, <1>1, PTL DEF Spec

\* While the app runs, nothing a run pulls, adopts or lands takes away what the
\* user sees: under the same condition.
THEOREM UserKeepsVisible == OnlyPullsFail => (Spec => KeepsVisible)
<1> SUFFICES ASSUME OnlyPullsFail PROVE Spec => KeepsVisible
  OBVIOUS
<1>1. EInv /\ [Next]_vars => [up /\ up' => Visible(live.doc) \subseteq Visible(live.doc')]_vars
  <2> SUFFICES ASSUME EInv, [Next]_vars, up, up'
               PROVE  Visible(live.doc) \subseteq Visible(live.doc')
    OBVIOUS
  <2>1. CASE Plain
    BY <2>1, StepPlain, HeldGrows DEF EInv, COInv
  <2>2. CASE Quiet
    BY <2>2, StepQuiet DEF EInv, COInv
  <2>3. Plain \/ Quiet
    BY DEF EInv, COInv, TInv, Bounds, OnlyPullsFail, Plain, Quiet
  <2> QED  BY <2>1, <2>2, <2>3
<1> QED  BY InitEInv, StepEInv, <1>1, PTL DEF Spec, KeepsVisible
=============================================================================
