--------------------------- MODULE Outbox_proofs ---------------------------
(***************************************************************************)
(* Proofs about Outbox: its types, and that no edit is lost.               *)
(***************************************************************************)
EXTENDS Outbox, FiniteSetTheorems, TLAPS

(***************************************************************************)
(* The inductive invariant.                                                *)
(***************************************************************************)
\* A store by itself: its sequences tell its operations apart, its documents
\* hold nothing the workspace lacks, and lack nothing but what a flush writes.
StoreInv(st) ==
  /\ st \in Store
  /\ st.since <= st.next
  /\ \A o \in st.ops : o.seq < st.next
  /\ \A o, p \in st.ops : o.seq = p.seq => o = p
  /\ st.crdt \subseteq st.plain
  /\ \A e \in st.plain \ st.crdt :
       DocOf[e] \in Bound(st.plain) => e \in Unwritten(st) \cup Starter

\* An edit still shown is delivered, queued, or about to be queued by a flush.
NoLostIn(st) ==
  \A e \in st.plain \cap Local :
    DocOf[e] \in Bound(st.plain) =>
      e \in server \cup Carried(st.ops) \cup Unwritten(st)

\* An operation a queue holds can no longer be given an update, so the queue has
\* all it carries; what was acknowledged of it is on the server.
Frozen(n, st) == n < st.next /\ (st.deferred # {} => n < st.since)
CapturedIn(Q, st) ==
  \A x \in Q : /\ Frozen(x.op, st)
               /\ \A o \in st.ops : x.op = o.seq => In(o.ups, x.doc) \subseteq x.body
AckedIn(st) ==
  \A k \in pushed :
    /\ Frozen(k.op, st)
    /\ \A o \in st.ops : k.op = o.seq => In(o.ups, k.doc) \subseteq server

\* The edits of operations made after the run took its snapshot.
Later(st) == UNION {o.ups : o \in {p \in st.ops : p.seq >= watermark}}

\* The operations the run's snapshot held.
Earlier(st) == {o \in st.ops : o.seq < watermark}

\* While a run is on, the workspace is what the run works on and what was
\* edited since, and what the run works on is delivered or queued.
Working == phase \in {"pulling", "pushing", "pushed"}
Queued == diskQueue \cup savedQueue \cup queue
RunFits(st) ==
  /\ phase = "idle" => pushed = {} /\ queue = {}
  /\ phase # "idle" =>
       /\ watermark <= st.next
       /\ st.deferred # {} => watermark <= st.since
       /\ \A x \in Queued \cup pushed : x.op < watermark
  /\ Working =>
       /\ \A e \in runDocs \cap Local :
            DocOf[e] \in Bound(st.plain) => e \in server \cup Carried(st.ops)
       /\ \A e \in st.plain :
            DocOf[e] \in Bound(st.plain) =>
              e \in runDocs \cup Starter \cup Unwritten(st) \cup Later(st)
Good(st) ==
  /\ StoreInv(st)
  /\ NoLostIn(st)
  /\ CapturedIn(Queued, st)
  /\ AckedIn(st)
  /\ RunFits(st)

\* A request is in flight only while a run pushes.
RequestFits == phase # "pushing" => request = {}

IInv == TypeOK /\ Good(store) /\ RequestFits

(***************************************************************************)
(* The operators of the store.                                             *)
(***************************************************************************)
\* An operation of the store has the shape NewOp and Attach give it.
LEMMA CarriersAreOne ==
  ASSUME NEW st, StoreInv(st), Carriers(st) # {}
  PROVE  \E c \in st.ops : Carriers(st) = {c} /\ c.seq >= st.since
<1>1. PICK c \in Carriers(st) : TRUE
  OBVIOUS
<1>2. \A o \in Carriers(st) : o.seq = c.seq
  BY <1>1 DEF Carriers, StoreInv, Store, Operation
<1>3. Carriers(st) = {c}
  BY <1>1, <1>2 DEF Carriers, StoreInv
<1> QED
  BY <1>1, <1>3 DEF Carriers

LEMMA NewOpIs ==
  ASSUME NEW st \in Store, NEW ups
  PROVE  NewOp(st, ups) = [plain |-> st.plain, crdt |-> st.crdt,
                           deferred |-> st.deferred, since |-> st.since,
                           ops |-> st.ops \cup {[seq |-> st.next, ups |-> ups]},
                           next |-> st.next + 1]
<1> DEFINE mid == [st EXCEPT !.ops = @ \cup {[seq |-> st.next, ups |-> ups]}]
<1>1. mid = [plain |-> st.plain, crdt |-> st.crdt, deferred |-> st.deferred,
             since |-> st.since,
             ops |-> st.ops \cup {[seq |-> st.next, ups |-> ups]},
             next |-> st.next]
  BY DEF Store
<1>2. NewOp(st, ups) = [mid EXCEPT !.next = @ + 1]
  BY DEF NewOp
<1> HIDE DEF mid
<1> QED
  BY <1>1, <1>2

LEMMA AttachIs ==
  ASSUME NEW st \in Store, NEW ups, NEW c, Carriers(st) = {c}
  PROVE  Attach(st, ups) = [plain |-> st.plain, crdt |-> st.crdt,
                            deferred |-> st.deferred, since |-> st.since,
                            ops |-> (st.ops \ {c})
                                      \cup {[c EXCEPT !.ups = @ \cup ups]},
                            next |-> st.next]
<1> DEFINE new == (st.ops \ Carriers(st))
                    \cup {[o EXCEPT !.ups = @ \cup ups] : o \in Carriers(st)}
<1>1. new = (st.ops \ {c}) \cup {[c EXCEPT !.ups = @ \cup ups]}
  OBVIOUS
<1>2. Attach(st, ups) = [st EXCEPT !.ops = new]
  BY DEF Attach
<1> HIDE DEF new
<1> QED
  BY <1>1, <1>2 DEF Store

\* flush_crdt writes what was deferred and queues it, under an operation no
\* older than the deferral; every other operation stays as it is.
LEMMA FlushFacts ==
  ASSUME NEW st, StoreInv(st)
  PROVE  /\ Flush(st) \in Store
         /\ Flush(st).plain = st.plain
         /\ Flush(st).crdt = st.crdt \cup Unwritten(st)
         /\ Flush(st).deferred = {}
         /\ Flush(st).since = st.since
         /\ st.next <= Flush(st).next
         /\ \A o \in Flush(st).ops : o.seq < Flush(st).next
         /\ \A o, p \in Flush(st).ops : o.seq = p.seq => o = p
         /\ \A o \in Flush(st).ops :
              o \in st.ops \/ (st.deferred # {} /\ o.seq >= st.since)
         /\ \A p \in st.ops : \E o \in Flush(st).ops :
              o.seq = p.seq /\ p.ups \subseteq o.ups
         /\ \A e \in Unwritten(st) : \E o \in Flush(st).ops :
              o.seq >= st.since /\ e \in o.ups
         /\ \A o \in Flush(st).ops : o.ups \subseteq Carried(st.ops) \cup Unwritten(st)
         /\ \A o \in Flush(st).ops \ st.ops : \A p \in Flush(st).ops : p.seq <= o.seq
<1> DEFINE ups == Unwritten(st)
           written == [st EXCEPT !.crdt = @ \cup ups, !.deferred = {}]
<1>1. /\ st \in Store
      /\ st.since <= st.next
      /\ \A o \in st.ops : o.seq < st.next
      /\ \A o, p \in st.ops : o.seq = p.seq => o = p
  BY DEF StoreInv
<1>2. ups \subseteq st.plain /\ ups \subseteq Edit
  BY <1>1 DEF Unwritten, Store
<1>3. written = [plain |-> st.plain, crdt |-> st.crdt \cup ups, deferred |-> {},
                 since |-> st.since, ops |-> st.ops, next |-> st.next]
  <2> DEFINE mid == [st EXCEPT !.crdt = @ \cup ups]
  <2>1. mid = [plain |-> st.plain, crdt |-> st.crdt \cup ups,
               deferred |-> st.deferred, since |-> st.since, ops |-> st.ops,
               next |-> st.next]
    BY <1>1 DEF Store
  <2>2. written = [mid EXCEPT !.deferred = {}]
    OBVIOUS
  <2> HIDE DEF mid
  <2> QED
    BY <2>1, <2>2
<1>4. /\ \A o \in st.ops : o \in Operation /\ o.ups \subseteq Carried(st.ops)
      /\ st.since \in Nat /\ st.next \in Nat
  BY <1>1 DEF Store, Carried
<1>5. CASE ups = {}
  <2>1. Flush(st) = written
    BY <1>5 DEF Flush
  <2> QED
    BY <2>1, <1>1, <1>2, <1>3, <1>4, <1>5 DEF Store, Operation
<1>6. CASE ups # {} /\ Carriers(st) = {}
  <2> DEFINE o1 == [seq |-> st.next, ups |-> ups]
  <2>1. Flush(st) = NewOp(written, ups)
    BY <1>6 DEF Flush
  <2>2. Flush(st) = [plain |-> st.plain, crdt |-> st.crdt \cup ups, deferred |-> {},
                     since |-> st.since, ops |-> st.ops \cup {o1},
                     next |-> st.next + 1]
    <3> HIDE DEF written, ups
    <3>1. written \in Store
      BY <1>1, <1>2, <1>3 DEF Store
    <3> QED
      BY <2>1, <3>1, <1>3, NewOpIs
  <2>3. o1 \in Operation /\ o1.seq = st.next /\ o1.ups = ups
    BY <1>1, <1>2 DEF Operation, Store
  <2>4. st.deferred # {}
    BY <1>6 DEF Unwritten
  <2>5. Flush(st) \in Store
    BY <2>2, <2>3, <1>1, <1>2 DEF Store
  <2> HIDE DEF o1, ups
  <2>6. \A o \in st.ops : o.seq \in Nat /\ o.seq < st.next /\ st.next \in Nat
    BY <1>1, <1>4 DEF Operation, Store
  <2>7. \A o \in Flush(st).ops \ st.ops : \A p \in Flush(st).ops : p.seq <= o.seq
    BY <2>2, <2>3, <2>6, <1>4
  <2> QED
    BY <2>2, <2>3, <2>4, <2>5, <2>6, <2>7, <1>1, <1>4 DEF ups
<1>7. CASE ups # {} /\ Carriers(st) # {}
  <2>1. PICK c \in st.ops : Carriers(st) = {c} /\ c.seq >= st.since
    BY <1>7, CarriersAreOne
  <2> DEFINE o1 == [c EXCEPT !.ups = @ \cup ups]
  <2>2. Carriers(written) = {c}
    BY <2>1, <1>3 DEF Carriers
  <2>3. Flush(st) = Attach(written, ups)
    BY <1>7 DEF Flush
  <2>4. Flush(st) = [plain |-> st.plain, crdt |-> st.crdt \cup ups, deferred |-> {},
                     since |-> st.since, ops |-> (st.ops \ {c}) \cup {o1},
                     next |-> st.next]
    <3> HIDE DEF written, ups
    <3>1. written \in Store
      BY <1>1, <1>2, <1>3 DEF Store
    <3> QED
      BY <2>2, <2>3, <3>1, <1>3, AttachIs
  <2>5. o1 \in Operation /\ o1.seq = c.seq /\ o1.ups = c.ups \cup ups
    BY <1>2, <1>4 DEF Operation
  <2>6. st.deferred # {}
    BY <1>7 DEF Unwritten
  <2>7. Flush(st) \in Store
    BY <2>4, <2>5, <1>1, <1>2 DEF Store
  <2> HIDE DEF o1, ups
  <2>8. \A o \in st.ops : o.seq \in Nat /\ o.seq < st.next /\ st.next \in Nat
    BY <1>1, <1>4 DEF Operation, Store
  <2>9. \A o \in Flush(st).ops \ st.ops : \A p \in Flush(st).ops : p.seq <= o.seq
    <3>1. \A p \in st.ops : p.seq <= c.seq
      BY <2>1 DEF Carriers
    <3> QED
      BY <2>1, <2>4, <2>5, <2>8, <3>1
  <2> QED
    BY <2>1, <2>4, <2>5, <2>6, <2>7, <2>8, <2>9, <1>1, <1>4 DEF ups
<1> QED
  BY <1>5, <1>6, <1>7

\* What the other lemmas need of a flush.
LEMMA FlushInv ==
  ASSUME NEW st, StoreInv(st)
  PROVE  /\ StoreInv(Flush(st))
         /\ Unwritten(Flush(st)) = {}
         /\ Carried(Flush(st).ops) = Carried(st.ops) \cup Unwritten(st)
<1> DEFINE fl == Flush(st)
<1>1. /\ fl \in Store
      /\ fl.plain = st.plain
      /\ fl.crdt = st.crdt \cup Unwritten(st)
      /\ fl.deferred = {}
      /\ fl.since = st.since
      /\ st.next <= fl.next
      /\ \A o \in fl.ops : o.seq < fl.next
      /\ \A o, p \in fl.ops : o.seq = p.seq => o = p
      /\ \A p \in st.ops : \E o \in fl.ops : o.seq = p.seq /\ p.ups \subseteq o.ups
      /\ \A e \in Unwritten(st) : \E o \in fl.ops : o.seq >= st.since /\ e \in o.ups
      /\ \A o \in fl.ops : o.ups \subseteq Carried(st.ops) \cup Unwritten(st)
  BY FlushFacts
<1> HIDE DEF fl
<1>2. Unwritten(fl) = {}
  BY <1>1 DEF Unwritten
<1>3. Carried(fl.ops) = Carried(st.ops) \cup Unwritten(st)
  BY <1>1 DEF Carried
<1>4. fl.since <= fl.next
  BY <1>1 DEF StoreInv, Store
<1>5. fl.crdt \subseteq fl.plain
  BY <1>1 DEF StoreInv, Unwritten
<1>6. \A e \in fl.plain \ fl.crdt : DocOf[e] \in Bound(fl.plain) => e \in Starter
  BY <1>1 DEF StoreInv
<1> QED
  BY <1>1, <1>2, <1>3, <1>4, <1>5, <1>6 DEF StoreInv, fl

LEMMA FlushCaptured ==
  ASSUME NEW st, StoreInv(st), NEW Q, \A x \in Q : x.op \in Int,
         CapturedIn(Q, st)
  PROVE  CapturedIn(Q, Flush(st))
<1> DEFINE fl == Flush(st)
<1>1. /\ fl \in Store
      /\ fl.deferred = {}
      /\ st.next <= fl.next
      /\ \A o \in fl.ops : o \in st.ops \/ (st.deferred # {} /\ o.seq >= st.since)
  BY FlushFacts
<1> HIDE DEF fl
<1>2. st \in Store
  BY DEF StoreInv
<1>3. SUFFICES ASSUME NEW x \in Q
               PROVE  /\ Frozen(x.op, fl)
                      /\ \A o \in fl.ops : x.op = o.seq => In(o.ups, x.doc) \subseteq x.body
  BY DEF CapturedIn, fl
<1>4. x.op < st.next /\ (st.deferred # {} => x.op < st.since) /\ x.op \in Int
  BY DEF CapturedIn, Frozen
<1>5. Frozen(x.op, fl)
  BY <1>1, <1>2, <1>4 DEF Frozen, Store
<1>6. ASSUME NEW o \in fl.ops, x.op = o.seq
      PROVE  In(o.ups, x.doc) \subseteq x.body
  <2>1. o \in st.ops
    BY <1>1, <1>2, <1>4, <1>6 DEF Store, Operation
  <2> QED
    BY <2>1, <1>6 DEF CapturedIn
<1> QED
  BY <1>5, <1>6

LEMMA QueuedTyped ==
  ASSUME TypeOK
  PROVE  /\ \A x \in Queued : x \in Entry /\ x.op \in Int
         /\ \A k \in pushed : k \in Key /\ k.op \in Int
BY DEF TypeOK, Queued, Entry, Key

\* While a run is on, a flush queues behind what the run took, and leaves that
\* alone.
LEMMA FlushLater ==
  ASSUME TypeOK, NEW st, StoreInv(st), RunFits(st), phase # "idle"
  PROVE  /\ Unwritten(st) \subseteq Later(Flush(st))
         /\ Later(st) \subseteq Later(Flush(st))
         /\ Earlier(Flush(st)) = Earlier(st)
<1> DEFINE fl == Flush(st)
<1>1. /\ fl \in Store
      /\ \A o \in fl.ops : o \in st.ops \/ (st.deferred # {} /\ o.seq >= st.since)
      /\ \A p \in st.ops : \E o \in fl.ops : o.seq = p.seq /\ p.ups \subseteq o.ups
      /\ \A e \in Unwritten(st) : \E o \in fl.ops : o.seq >= st.since /\ e \in o.ups
  BY FlushFacts
<1> HIDE DEF fl
<1>2. /\ \A o \in fl.ops : o.seq \in Nat
      /\ st.since \in Nat /\ watermark \in Nat
      /\ \A o \in st.ops : o.seq \in Nat
  BY <1>1 DEF StoreInv, Store, Operation, TypeOK
<1>3. st.deferred # {} => watermark <= st.since
  BY DEF RunFits
<1>4. Unwritten(st) \subseteq Later(fl)
  <2> SUFFICES ASSUME NEW e \in Unwritten(st) PROVE e \in Later(fl)
    OBVIOUS
  <2>1. PICK o \in fl.ops : o.seq >= st.since /\ e \in o.ups
    BY <1>1
  <2>2. st.deferred # {}
    BY DEF Unwritten
  <2>3. o.seq >= watermark
    BY <1>2, <1>3, <2>1, <2>2
  <2> QED
    BY <2>1, <2>3 DEF Later
<1>5. Later(st) \subseteq Later(fl)
  <2> SUFFICES ASSUME NEW p \in st.ops, p.seq >= watermark
               PROVE  p.ups \subseteq Later(fl)
    BY DEF Later
  <2> QED
    BY <1>1 DEF Later
<1>6. Earlier(fl) \subseteq Earlier(st)
  BY <1>1, <1>2, <1>3 DEF Earlier
<1>7. Earlier(st) \subseteq Earlier(fl)
  <2> SUFFICES ASSUME NEW p \in st.ops, p.seq < watermark PROVE p \in fl.ops
    BY DEF Earlier
  <2>1. PICK o \in fl.ops : o.seq = p.seq
    BY <1>1
  <2>2. o \in st.ops
    BY <1>1, <1>2, <1>3, <2>1
  <2> QED
    BY <2>1, <2>2 DEF StoreInv
<1> QED
  BY <1>4, <1>5, <1>6, <1>7 DEF fl

\* A flush keeps the invariant.
LEMMA FlushGood ==
  ASSUME TypeOK, NEW st, Good(st)
  PROVE  Good(Flush(st))
<1> DEFINE fl == Flush(st)
<1>1. StoreInv(st) /\ st \in Store
  BY DEF Good, StoreInv
<1>2. /\ fl \in Store
      /\ fl.plain = st.plain
      /\ fl.deferred = {}
      /\ st.next <= fl.next
      /\ \A o \in fl.ops : o \in st.ops \/ (st.deferred # {} /\ o.seq >= st.since)
      /\ \A p \in st.ops : \E o \in fl.ops : o.seq = p.seq /\ p.ups \subseteq o.ups
      /\ \A e \in Unwritten(st) : \E o \in fl.ops : o.seq >= st.since /\ e \in o.ups
  BY <1>1, FlushFacts
<1>3. /\ StoreInv(fl)
      /\ Unwritten(fl) = {}
      /\ Carried(fl.ops) = Carried(st.ops) \cup Unwritten(st)
  BY <1>1, FlushInv
<1>4. CapturedIn(Queued, fl)
  BY <1>1, QueuedTyped, FlushCaptured DEF Good
<1> HIDE DEF fl
<1>5. NoLostIn(fl)
  BY <1>2, <1>3 DEF Good, NoLostIn
<1>6. AckedIn(fl)
  <2>1. SUFFICES ASSUME NEW k \in pushed
                 PROVE  /\ Frozen(k.op, fl)
                        /\ \A o \in fl.ops : k.op = o.seq => In(o.ups, k.doc) \subseteq server
    BY DEF AckedIn
  <2>2. k.op \in Int /\ k.op < st.next /\ (st.deferred # {} => k.op < st.since)
    BY QueuedTyped DEF Good, AckedIn, Frozen
  <2>3. Frozen(k.op, fl)
    BY <1>1, <1>2, <2>2 DEF Frozen, Store
  <2>4. \A o \in fl.ops : k.op = o.seq => o \in st.ops
    BY <1>1, <1>2, <2>2 DEF Store, Operation
  <2> QED
    BY <2>3, <2>4 DEF Good, AckedIn
<1>7. RunFits(fl)
  <2>1. CASE phase = "idle"
    BY <2>1 DEF Good, RunFits, Working
  <2>2. CASE phase # "idle"
    <3>1. /\ watermark <= st.next
          /\ st.deferred # {} => watermark <= st.since
          /\ \A x \in Queued \cup pushed : x.op < watermark
          /\ Working =>
               /\ \A e \in runDocs \cap Local :
                    DocOf[e] \in Bound(st.plain) => e \in server \cup Carried(st.ops)
               /\ \A e \in st.plain :
                    DocOf[e] \in Bound(st.plain) =>
                      e \in runDocs \cup Starter \cup Unwritten(st) \cup Later(st)
      BY <2>2 DEF Good, RunFits
    <3>2. watermark <= fl.next
      BY <1>1, <1>2, <3>1 DEF Store, TypeOK
    <3>3. Unwritten(st) \subseteq Later(fl) /\ Later(st) \subseteq Later(fl)
      BY <1>1, <2>2, FlushLater DEF Good, fl
    <3> QED
      BY <1>2, <1>3, <2>2, <3>1, <3>2, <3>3 DEF RunFits
  <2> QED
    BY <2>1, <2>2
<1> QED
  BY <1>3, <1>4, <1>5, <1>6, <1>7 DEF Good, fl

\* What an edit does to the store.
LEMMA EditedIs ==
  ASSUME NEW st \in Store, NEW e
  PROVE  Edited(st, e) =
           [plain |-> st.plain \cup {e}, crdt |-> st.crdt,
            deferred |-> st.deferred \cup {DocOf[e]},
            since |-> IF st.deferred = {} THEN st.next ELSE st.since,
            ops |-> st.ops, next |-> st.next]
<1> DEFINE mid == [st EXCEPT !.plain = @ \cup {e}]
           def == [mid EXCEPT !.deferred = @ \cup {DocOf[e]}]
<1>1. mid = [plain |-> st.plain \cup {e}, crdt |-> st.crdt,
             deferred |-> st.deferred, since |-> st.since, ops |-> st.ops,
             next |-> st.next]
  BY DEF Store
<1>2. Edited(st, e) = [def EXCEPT !.since = IF mid.deferred = {} THEN mid.next ELSE @]
  BY DEF Edited, Defer
<1> HIDE DEF mid
<1>3. def = [plain |-> st.plain \cup {e}, crdt |-> st.crdt,
             deferred |-> st.deferred \cup {DocOf[e]}, since |-> st.since,
             ops |-> st.ops, next |-> st.next]
  BY <1>1
<1> HIDE DEF def
<1> QED
  BY <1>1, <1>2, <1>3

LEMMA BoundAnti ==
  ASSUME NEW S, NEW T, S \subseteq T
  PROVE  Bound(T) \subseteq Bound(S)
BY DEF Bound

\* Making an edit keeps the invariant: its document is deferred.
LEMMA EditedGood ==
  ASSUME TypeOK, NEW st, Good(st), NEW e \in Local, e \notin st.plain
  PROVE  Good(Edited(st, e))
<1> DEFINE ed == Edited(st, e)
<1>1. StoreInv(st) /\ st \in Store
  BY DEF Good, StoreInv
<1>2. ed = [plain |-> st.plain \cup {e}, crdt |-> st.crdt,
            deferred |-> st.deferred \cup {DocOf[e]},
            since |-> IF st.deferred = {} THEN st.next ELSE st.since,
            ops |-> st.ops, next |-> st.next]
  BY <1>1, EditedIs
<1> HIDE DEF ed
<1>3. ed \in Store
  BY <1>1, <1>2, EditAssumption DEF Store, Local
<1>4. Bound(ed.plain) \subseteq Bound(st.plain)
  BY <1>2, BoundAnti
<1>5. e \notin st.crdt
  BY DEF Good, StoreInv
<1>6. \A f \in st.plain \cup {e} :
        (f = e \/ f \in Unwritten(st)) /\ DocOf[f] \in Bound(ed.plain) =>
          f \in Unwritten(ed)
  BY <1>2, <1>5 DEF Unwritten
<1>7. StoreInv(ed)
  <2>1. ed.since <= ed.next
    BY <1>1, <1>2 DEF StoreInv, Store
  <2>2. \A f \in ed.plain \ ed.crdt :
          DocOf[f] \in Bound(ed.plain) => f \in Unwritten(ed) \cup Starter
    BY <1>1, <1>2, <1>4, <1>6 DEF StoreInv
  <2> QED
    BY <1>1, <1>2, <1>3, <2>1, <2>2 DEF StoreInv
<1>8. NoLostIn(ed)
  BY <1>2, <1>4, <1>6 DEF Good, NoLostIn
<1>9. \A n : Frozen(n, st) => Frozen(n, ed)
  BY <1>2 DEF Frozen
<1>10. CapturedIn(Queued, ed)
  BY <1>2, <1>9 DEF Good, CapturedIn
<1>11. AckedIn(ed)
  BY <1>2, <1>9 DEF Good, AckedIn
<1>12. RunFits(ed)
  BY <1>2, <1>4, <1>6 DEF Good, RunFits, Later
<1> QED
  BY <1>7, <1>8, <1>10, <1>11, <1>12 DEF Good, ed

\* So does recording an operation that carries nothing yet.
LEMMA NewOpGood ==
  ASSUME TypeOK, NEW st, Good(st)
  PROVE  Good(NewOp(st, {}))
<1> DEFINE new == NewOp(st, {})
           o1 == [seq |-> st.next, ups |-> {}]
<1>1. StoreInv(st) /\ st \in Store /\ st.next \in Nat /\ st.since \in Nat
  BY DEF Good, StoreInv, Store
<1>2. new = [plain |-> st.plain, crdt |-> st.crdt, deferred |-> st.deferred,
             since |-> st.since, ops |-> st.ops \cup {o1}, next |-> st.next + 1]
  BY <1>1, NewOpIs
<1>3. o1 \in Operation /\ o1.seq = st.next /\ o1.ups = {}
  BY <1>1 DEF Operation
<1> HIDE DEF new, o1
<1>4. new \in Store
  BY <1>1, <1>2, <1>3 DEF Store
<1>5. \A o \in st.ops : o.seq \in Nat /\ o.seq < st.next
  BY <1>1 DEF StoreInv, Store, Operation
<1>6. Unwritten(new) = Unwritten(st)
  BY <1>2 DEF Unwritten
<1>7. StoreInv(new)
  BY <1>1, <1>2, <1>3, <1>4, <1>5, <1>6 DEF StoreInv
<1>8. Carried(new.ops) = Carried(st.ops)
  BY <1>2, <1>3 DEF Carried
<1>9. NoLostIn(new)
  BY <1>2, <1>6, <1>8 DEF Good, NoLostIn
<1>10. \A n \in Int : Frozen(n, st) => Frozen(n, new)
  BY <1>1, <1>2 DEF Frozen
<1>11. CapturedIn(Queued, new)
  <2> SUFFICES ASSUME NEW x \in Queued
               PROVE  /\ Frozen(x.op, new)
                      /\ \A o \in new.ops : x.op = o.seq => In(o.ups, x.doc) \subseteq x.body
    BY DEF CapturedIn
  <2>1. /\ Frozen(x.op, st)
        /\ \A o \in st.ops : x.op = o.seq => In(o.ups, x.doc) \subseteq x.body
    BY DEF Good, CapturedIn
  <2>2. In(o1.ups, x.doc) = {}
    BY <1>3 DEF In
  <2> QED
    BY <1>2, <1>10, <2>1, <2>2, QueuedTyped
<1>12. AckedIn(new)
  <2> SUFFICES ASSUME NEW k \in pushed
               PROVE  /\ Frozen(k.op, new)
                      /\ \A o \in new.ops : k.op = o.seq => In(o.ups, k.doc) \subseteq server
    BY DEF AckedIn
  <2>1. /\ Frozen(k.op, st)
        /\ \A o \in st.ops : k.op = o.seq => In(o.ups, k.doc) \subseteq server
    BY DEF Good, AckedIn
  <2>2. In(o1.ups, k.doc) = {}
    BY <1>3 DEF In
  <2> QED
    BY <1>2, <1>10, <2>1, <2>2, QueuedTyped
<1>13. Later(st) \subseteq Later(new)
  BY <1>2 DEF Later
<1>14. watermark \in Nat
  BY DEF TypeOK
<1>15. RunFits(new)
  <2>1. CASE phase = "idle"
    BY <2>1 DEF Good, RunFits, Working
  <2>2. CASE phase # "idle"
    <3>1. /\ watermark <= st.next
          /\ st.deferred # {} => watermark <= st.since
          /\ \A x \in Queued \cup pushed : x.op < watermark
          /\ Working =>
               /\ \A e \in runDocs \cap Local :
                    DocOf[e] \in Bound(st.plain) => e \in server \cup Carried(st.ops)
               /\ \A e \in st.plain :
                    DocOf[e] \in Bound(st.plain) =>
                      e \in runDocs \cup Starter \cup Unwritten(st) \cup Later(st)
      BY <2>2 DEF Good, RunFits
    <3>2. /\ new.plain = st.plain
          /\ new.deferred = st.deferred
          /\ new.since = st.since
          /\ watermark <= new.next
      BY <1>1, <1>2, <1>14, <3>1
    <3> QED
      BY <1>6, <1>8, <1>13, <2>2, <3>1, <3>2 DEF RunFits
  <2> QED
    BY <2>1, <2>2
<1> QED
  BY <1>7, <1>9, <1>11, <1>12, <1>15 DEF Good, new

(***************************************************************************)
(* The landing.                                                            *)
(***************************************************************************)
LEMMA WithoutFacts ==
  ASSUME NEW st, StoreInv(st), NEW gone
  PROVE  /\ StoreInv(Without(st, gone))
         /\ Without(st, gone).plain = st.plain
         /\ Without(st, gone).crdt = st.crdt
         /\ Without(st, gone).deferred = st.deferred
         /\ Without(st, gone).since = st.since
         /\ Without(st, gone).next = st.next
         /\ Unwritten(Without(st, gone)) = Unwritten(st)
         /\ \A o \in Without(st, gone).ops : \E p \in st.ops :
              /\ o.seq = p.seq /\ o.ups \subseteq p.ups
              /\ \A e \in o.ups : <<p.seq, e>> \notin gone
         /\ \A p \in st.ops : \A e \in p.ups : <<p.seq, e>> \notin gone =>
              \E o \in Without(st, gone).ops : o.seq = p.seq /\ e \in o.ups
<1> DEFINE left(p) == {e \in p.ups : <<p.seq, e>> \notin gone}
           rest == {[seq |-> p.seq, ups |-> left(p)] : p \in st.ops}
           new == {o \in rest : o.ups # {}}
           wo == Without(st, gone)
<1>1. st \in Store
  BY DEF StoreInv
<1>2. wo = [plain |-> st.plain, crdt |-> st.crdt, deferred |-> st.deferred,
            since |-> st.since, ops |-> new, next |-> st.next]
  <2>1. wo = [st EXCEPT !.ops = new]
    BY DEF Without
  <2> HIDE DEF new, wo
  <2> QED
    BY <1>1, <2>1 DEF Store
<1>3. \A p \in st.ops : p \in Operation /\ p.seq \in Nat /\ p.ups \subseteq Edit
  BY <1>1 DEF Store, Operation
<1>4. \A o \in new : \E p \in st.ops : o = [seq |-> p.seq, ups |-> left(p)]
  OBVIOUS
<1>5. \A p \in st.ops : left(p) # {} => [seq |-> p.seq, ups |-> left(p)] \in new
  OBVIOUS
<1>6. \A p \in st.ops :
        left(p) \subseteq p.ups /\ \A e \in left(p) : <<p.seq, e>> \notin gone
  OBVIOUS
<1>7. \A p \in st.ops : \A e \in p.ups : <<p.seq, e>> \notin gone => e \in left(p)
  OBVIOUS
<1> HIDE DEF new, wo, left, rest
<1>8. new \subseteq Operation
  BY <1>3, <1>4, <1>6 DEF Operation
<1>9. \A o \in new : \E p \in st.ops :
        /\ o.seq = p.seq /\ o.ups \subseteq p.ups
        /\ \A e \in o.ups : <<p.seq, e>> \notin gone
  BY <1>4, <1>6
<1>10. \A p \in st.ops : \A e \in p.ups : <<p.seq, e>> \notin gone =>
         \E o \in new : o.seq = p.seq /\ e \in o.ups
  <2> SUFFICES ASSUME NEW p \in st.ops, NEW e \in p.ups, <<p.seq, e>> \notin gone
               PROVE  \E o \in new : o.seq = p.seq /\ e \in o.ups
    OBVIOUS
  <2> DEFINE o == [seq |-> p.seq, ups |-> left(p)]
  <2>1. o \in new
    BY <1>5, <1>7
  <2>2. o.seq = p.seq /\ e \in o.ups
    BY <1>7
  <2> QED
    BY <2>1, <2>2
<1>11. wo \in Store
  BY <1>1, <1>2, <1>8 DEF Store
<1>12. Unwritten(wo) = Unwritten(st)
  BY <1>2 DEF Unwritten
<1>13. \A o \in wo.ops : o.seq < wo.next
  BY <1>2, <1>9 DEF StoreInv
<1>14. \A o, p \in wo.ops : o.seq = p.seq => o = p
  <2> SUFFICES ASSUME NEW a \in new, NEW b \in new, a.seq = b.seq PROVE a = b
    BY <1>2
  <2>1. PICK p \in st.ops : a = [seq |-> p.seq, ups |-> left(p)]
    BY <1>4
  <2>2. PICK q \in st.ops : b = [seq |-> q.seq, ups |-> left(q)]
    BY <1>4
  <2>3. p = q
    BY <2>1, <2>2 DEF StoreInv
  <2> QED
    BY <2>1, <2>2, <2>3
<1>15. StoreInv(wo)
  BY <1>2, <1>11, <1>12, <1>13, <1>14 DEF StoreInv
<1> QED
  BY <1>2, <1>9, <1>10, <1>12, <1>15 DEF wo

\* What may be taken from the queue: edits of deleted schemes, and edits the
\* server has, from operations the run's snapshot held.
LEMMA WithoutGood ==
  ASSUME TypeOK, NEW st, Good(st), phase # "idle", NEW gone,
         \A o \in st.ops : \A e \in o.ups : <<o.seq, e>> \in gone =>
           \/ DocOf[e] \notin Bound(st.plain)
           \/ e \in server /\ o.seq < watermark
  PROVE  Good(Without(st, gone))
<1> DEFINE wo == Without(st, gone)
<1>1. StoreInv(st) /\ st \in Store
  BY DEF Good, StoreInv
<1>2. /\ StoreInv(wo)
      /\ wo.plain = st.plain
      /\ wo.crdt = st.crdt
      /\ wo.deferred = st.deferred
      /\ wo.since = st.since
      /\ wo.next = st.next
      /\ Unwritten(wo) = Unwritten(st)
      /\ \A o \in wo.ops : \E p \in st.ops : o.seq = p.seq /\ o.ups \subseteq p.ups
      /\ \A p \in st.ops : \A e \in p.ups : <<p.seq, e>> \notin gone =>
           \E o \in wo.ops : o.seq = p.seq /\ e \in o.ups
  BY <1>1, WithoutFacts
<1> HIDE DEF wo
<1>3. \A e \in Carried(st.ops) :
        DocOf[e] \in Bound(st.plain) => e \in server \cup Carried(wo.ops)
  <2> SUFFICES ASSUME NEW p \in st.ops, NEW e \in p.ups, DocOf[e] \in Bound(st.plain)
               PROVE  e \in server \cup Carried(wo.ops)
    BY DEF Carried
  <2>1. CASE <<p.seq, e>> \in gone
    BY <2>1
  <2>2. CASE <<p.seq, e>> \notin gone
    <3>1. PICK o \in wo.ops : o.seq = p.seq /\ e \in o.ups
      BY <1>2, <2>2
    <3> QED
      BY <3>1 DEF Carried
  <2> QED
    BY <2>1, <2>2
<1>4. \A e \in Later(st) : DocOf[e] \in Bound(st.plain) => e \in Later(wo)
  <2> SUFFICES ASSUME NEW p \in st.ops, p.seq >= watermark, NEW e \in p.ups,
                      DocOf[e] \in Bound(st.plain)
               PROVE  e \in Later(wo)
    BY DEF Later
  <2>1. ~(p.seq < watermark)
    <3>1. watermark \in Nat
      BY DEF TypeOK
    <3>2. p.seq \in Nat
      BY <1>1 DEF Store, Operation
    <3> QED
      BY <3>1, <3>2
  <2>2. PICK o \in wo.ops : o.seq = p.seq /\ e \in o.ups
    BY <1>2, <2>1
  <2> QED
    BY <2>2 DEF Later
<1>5. NoLostIn(wo)
  BY <1>2, <1>3 DEF Good, NoLostIn
<1>6. \A n : Frozen(n, wo) <=> Frozen(n, st)
  BY <1>2 DEF Frozen
<1>7. CapturedIn(Queued, wo)
  <2> SUFFICES ASSUME NEW x \in Queued
               PROVE  /\ Frozen(x.op, wo)
                      /\ \A o \in wo.ops : x.op = o.seq => In(o.ups, x.doc) \subseteq x.body
    BY DEF CapturedIn
  <2>1. /\ Frozen(x.op, st)
        /\ \A o \in st.ops : x.op = o.seq => In(o.ups, x.doc) \subseteq x.body
    BY DEF Good, CapturedIn
  <2>2. ASSUME NEW o \in wo.ops, x.op = o.seq
        PROVE  In(o.ups, x.doc) \subseteq x.body
    <3>1. PICK p \in st.ops : o.seq = p.seq /\ o.ups \subseteq p.ups
      BY <1>2
    <3> QED
      BY <2>1, <2>2, <3>1 DEF In
  <2> QED
    BY <1>6, <2>1, <2>2
<1>8. AckedIn(wo)
  <2> SUFFICES ASSUME NEW k \in pushed
               PROVE  /\ Frozen(k.op, wo)
                      /\ \A o \in wo.ops : k.op = o.seq => In(o.ups, k.doc) \subseteq server
    BY DEF AckedIn
  <2>1. /\ Frozen(k.op, st)
        /\ \A o \in st.ops : k.op = o.seq => In(o.ups, k.doc) \subseteq server
    BY DEF Good, AckedIn
  <2>2. ASSUME NEW o \in wo.ops, k.op = o.seq
        PROVE  In(o.ups, k.doc) \subseteq server
    <3>1. PICK p \in st.ops : o.seq = p.seq /\ o.ups \subseteq p.ups
      BY <1>2
    <3> QED
      BY <2>1, <2>2, <3>1 DEF In
  <2> QED
    BY <1>6, <2>1, <2>2
<1>9. RunFits(wo)
  BY <1>2, <1>3, <1>4 DEF Good, RunFits
<1> QED
  BY <1>2, <1>5, <1>7, <1>8, <1>9 DEF Good, wo

LEMMA ClearPushedGood ==
  ASSUME TypeOK, NEW st, Good(st), phase # "idle"
  PROVE  Good(ClearPushed(st))
<1> DEFINE gone == {p \in Stamped(st) :
                      [op |-> p[1], seq |-> p[1], doc |-> DocOf[p[2]]] \in pushed}
<1>1. CASE pushed = {}
  BY <1>1 DEF ClearPushed
<1>2. CASE pushed # {}
  <2>1. ClearPushed(st) = Without(st, gone)
    BY <1>2 DEF ClearPushed
  <2>2. ASSUME NEW o \in st.ops, NEW e \in o.ups, <<o.seq, e>> \in gone
        PROVE  e \in server /\ o.seq < watermark
    <3> DEFINE k == [op |-> o.seq, seq |-> o.seq, doc |-> DocOf[e]]
    <3>1. k \in pushed
      BY <2>2
    <3>2. k.op = o.seq /\ k.doc = DocOf[e]
      OBVIOUS
    <3> HIDE DEF k
    <3>3. In(o.ups, k.doc) \subseteq server
      BY <3>1, <3>2 DEF Good, AckedIn
    <3>4. e \in server
      BY <3>2, <3>3 DEF In
    <3>5. \A x \in pushed : x.op < watermark
      BY DEF Good, RunFits
    <3> QED
      BY <3>1, <3>2, <3>4, <3>5
  <2> HIDE DEF gone
  <2> QED
    BY <2>1, <2>2, WithoutGood
<1> QED
  BY <1>1, <1>2

LEMMA DropUnboundGood ==
  ASSUME TypeOK, NEW st, Good(st), phase # "idle"
  PROVE  Good(DropUnbound(st))
<1> DEFINE gone == {p \in Stamped(st) :
                      /\ DocOf[p[2]] \notin Bound(st.plain)
                      /\ ~(p[1] >= watermark /\ DocOf[p[2]] \in Bound(runDocs))}
<1>1. DropUnbound(st) = st \/ DropUnbound(st) = Without(st, gone)
  BY DEF DropUnbound
<1>2. ASSUME NEW o \in st.ops, NEW e \in o.ups, <<o.seq, e>> \in gone
      PROVE  DocOf[e] \notin Bound(st.plain)
  BY <1>2
<1> HIDE DEF gone
<1> QED
  BY <1>1, <1>2, WithoutGood

\* Neither changes what the user sees, nor leaves anything to flush.
LEMMA ClearedShows ==
  ASSUME NEW st, StoreInv(st)
  PROVE  /\ ClearPushed(st).plain = st.plain
         /\ DropUnbound(st).plain = st.plain
         /\ DropUnbound(st).deferred = st.deferred
BY WithoutFacts DEF ClearPushed, DropUnbound

LEMMA AdoptedIs ==
  ASSUME NEW st \in Store, NEW base,
         NEW docs, docs = base \cup Carried(st.ops)
  PROVE  Adopted(st, base) =
           [plain |-> Shown(st, docs),
            crdt |-> docs, deferred |-> st.deferred, since |-> st.since,
            ops |-> st.ops, next |-> st.next]
<1> DEFINE mid == [st EXCEPT !.crdt = docs]
<1>1. mid = [plain |-> st.plain, crdt |-> docs, deferred |-> st.deferred,
             since |-> st.since, ops |-> st.ops, next |-> st.next]
  BY DEF Store
<1>2. Adopted(st, base) = [mid EXCEPT !.plain = Shown(st, docs)]
  BY DEF Adopted
<1> HIDE DEF mid
<1> QED
  BY <1>1, <1>2

\* Adopting a run's documents loses neither what the user made meanwhile nor
\* what is still to be delivered.
LEMMA AdoptedGood ==
  ASSUME TypeOK, NEW st, Good(st), st.deferred = {}, Working,
         NEW base, base = runDocs \/ base = st.crdt \cup runDocs
  PROVE  /\ StoreInv(Adopted(st, base))
         /\ NoLostIn(Adopted(st, base))
         /\ CapturedIn(Queued, Adopted(st, base))
         /\ \A e \in st.plain \cap Local :
              DocOf[e] \in Bound(Adopted(st, base).plain) => e \in Adopted(st, base).plain
         /\ Bound(Adopted(st, base).plain) \subseteq Bound(st.plain)
<1> DEFINE docs == base \cup Carried(st.ops)
           ad == Adopted(st, base)
<1>1. StoreInv(st) /\ st \in Store
  BY DEF Good, StoreInv
<1> HIDE DEF docs
<1>2. ad = [plain |-> Shown(st, docs),
            crdt |-> docs, deferred |-> st.deferred, since |-> st.since,
            ops |-> st.ops, next |-> st.next]
  <2>1. docs = base \cup Carried(st.ops)
    BY DEF docs
  <2> QED
    BY <1>1, <2>1, AdoptedIs
<1> HIDE DEF ad
<1>3. docs \subseteq Edit
  BY <1>1 DEF docs, TypeOK, Store, Operation, Carried
<1>13. docs \subseteq ad.plain /\ ad.plain \subseteq docs \cup Starter
  BY <1>2 DEF Shown
<1>4. Unwritten(st) = {} /\ Unwritten(ad) = {}
  BY <1>2 DEF Unwritten
<1>5. Later(st) \subseteq docs
  BY DEF Later, docs, Carried
<1>6. \A e \in st.plain :
        DocOf[e] \in Bound(st.plain) => e \in docs \cup Starter
  BY <1>4, <1>5 DEF Good, RunFits, docs
<1>7. Bound(ad.plain) \subseteq Bound(st.plain)
  <2> SUFFICES ASSUME NEW f \in st.plain, NEW d \in Unbinds[f]
               PROVE  d \notin Bound(ad.plain)
    BY DEF Bound
  <2>1. f \in Edit /\ DocOf[f] \in Doc
    BY <1>1, EditAssumption DEF Store
  <2>2. \A g \in st.plain : DocOf[f] \notin Unbinds[g]
    BY <1>1, <2>1, IndexAssumption DEF Store
  <2>3. DocOf[f] \in Bound(st.plain)
    BY <2>1, <2>2 DEF Bound
  <2>4. f \notin Starter
    BY IndexAssumption
  <2>5. f \in ad.plain
    BY <1>13, <1>6, <2>3, <2>4
  <2> QED
    BY <2>5 DEF Bound
<1>8. StoreInv(ad)
  <2>1. ad \in Store
    BY <1>1, <1>2, <1>3, <1>13, EditAssumption DEF Store
  <2> QED
    BY <1>1, <1>2, <1>13, <2>1 DEF StoreInv
<1>9. NoLostIn(ad)
  <2> SUFFICES ASSUME NEW e \in ad.plain \cap Local, DocOf[e] \in Bound(ad.plain)
               PROVE  e \in server \cup Carried(ad.ops)
    BY DEF NoLostIn
  <2>1. DocOf[e] \in Bound(st.plain)
    BY <1>7
  <2>2. e \in docs
    BY <1>13 DEF Local
  <2>3. CASE e \in Carried(st.ops)
    BY <1>2, <2>3
  <2>4. CASE e \in runDocs
    BY <1>2, <2>1, <2>4 DEF Good, RunFits
  <2>5. CASE e \in st.crdt
    <3>1. e \in st.plain
      BY <1>1, <2>5 DEF StoreInv
    <3> QED
      BY <1>2, <1>4, <2>1, <3>1 DEF Good, NoLostIn
  <2> QED
    BY <2>2, <2>3, <2>4, <2>5 DEF docs
<1>10. \A n : Frozen(n, st) => Frozen(n, ad)
  BY <1>2 DEF Frozen
<1>11. CapturedIn(Queued, ad)
  BY <1>2, <1>10 DEF Good, CapturedIn
<1>12. \A e \in st.plain \cap Local : DocOf[e] \in Bound(ad.plain) => e \in ad.plain
  BY <1>13, <1>6, <1>7 DEF Local
<1> QED
  BY <1>7, <1>8, <1>9, <1>11, <1>12 DEF ad

(***************************************************************************)
(* The queue of a run.                                                     *)
(***************************************************************************)
\* What the queue holds of the store is all the store has of it.
LEMMA EntriesCaptured ==
  ASSUME NEW st, StoreInv(st), st.deferred = {}
  PROVE  Entries(st.ops) \subseteq Entry /\ CapturedIn(Entries(st.ops), st)
<1>1. /\ st \in Store
      /\ \A o \in st.ops : o.seq \in Nat /\ o.ups \subseteq Edit /\ o.seq < st.next
      /\ \A o, p \in st.ops : o.seq = p.seq => o = p
  BY DEF StoreInv, Store, Operation
<1>2. SUFFICES ASSUME NEW x \in Entries(st.ops)
               PROVE  /\ x \in Entry
                      /\ Frozen(x.op, st)
                      /\ \A o \in st.ops : x.op = o.seq => In(o.ups, x.doc) \subseteq x.body
  BY DEF CapturedIn
<1>3. PICK p \in st.ops, d \in Doc :
        x = [op |-> p.seq, seq |-> p.seq, doc |-> d, body |-> In(p.ups, d),
             pos |-> p.seq]
  BY DEF Entries
<1>4. In(p.ups, d) \subseteq Edit /\ p.seq \in Int
  BY <1>1 DEF In
<1>5. x \in Entry
  BY <1>1, <1>3, <1>4 DEF Entry
<1>6. Frozen(x.op, st)
  BY <1>1, <1>3 DEF Frozen
<1>7. \A o \in st.ops : x.op = o.seq => o = p
  BY <1>1, <1>3
<1> QED
  BY <1>3, <1>5, <1>6, <1>7

LEMMA LastIsNat ==
  ASSUME NEW q, q \subseteq Entry
  PROVE  LastPos(q) \subseteq Nat /\ LastSeq(q) \subseteq Nat
BY DEF LastPos, LastSeq, Entry

\* Snapshots are entries of their own: no operation of the store is theirs.
LEMMA SnapshotsCaptured ==
  ASSUME TypeOK, NEW st, StoreInv(st), NEW D, D \subseteq Doc,
         NEW docs, docs \subseteq Edit, NEW s \in Nat, NEW n \in Nat,
         NEW r \in Ranks(D)
  PROVE  /\ Snapshots(D, docs, s, n, r) \subseteq Entry
         /\ \A x \in Snapshots(D, docs, s, n, r) : x.op < 0
         /\ CapturedIn(Snapshots(D, docs, s, n, r), st)
<1>1. minted \in Nat
  BY DEF TypeOK
<1>2. IsFiniteSet(D) /\ Cardinality(D) \in Nat
  BY EditAssumption, FS_Subset, FS_CardinalityType
<1>3. /\ st.next \in Nat
      /\ st.since \in Nat
      /\ \A o \in st.ops : o.seq \in Nat
  BY DEF StoreInv, Store, Operation
<1>4. SUFFICES ASSUME NEW x \in Snapshots(D, docs, s, n, r)
               PROVE  /\ x \in Entry
                      /\ x.op < 0
                      /\ Frozen(x.op, st)
                      /\ \A o \in st.ops : x.op # o.seq
  BY DEF CapturedIn
<1>5. PICK d \in D :
        x = [op |-> - (minted + r[d]), seq |-> s + r[d], doc |-> d,
             body |-> In(docs, d), pos |-> n + r[d]]
  BY DEF Snapshots
<1>6. r[d] \in 1 .. Cardinality(D)
  BY DEF Ranks
<1>7. /\ r[d] \in Nat
      /\ - (minted + r[d]) \in Int
      /\ - (minted + r[d]) < 0
      /\ s + r[d] \in Nat
      /\ n + r[d] \in Nat
  BY <1>1, <1>2, <1>6
<1>8. In(docs, d) \subseteq Edit /\ d \in Doc
  BY DEF In
<1>9. x \in Entry /\ x.op = - (minted + r[d]) /\ x.op \in Int /\ x.op < 0
  BY <1>5, <1>7, <1>8 DEF Entry
<1>10. Frozen(x.op, st)
  BY <1>3, <1>9 DEF Frozen
<1>11. \A o \in st.ops : x.op # o.seq
  BY <1>3, <1>9
<1> QED
  BY <1>9, <1>10, <1>11

LEMMA CapturedJoin ==
  ASSUME NEW P, NEW Q, NEW st, CapturedIn(P, st), CapturedIn(Q, st),
         NEW R, R \subseteq P \cup Q
  PROVE  CapturedIn(R, st)
BY DEF CapturedIn

LEMMA HealedIs ==
  ASSUME NEW D, NEW docs, docs \subseteq Edit
  PROVE  /\ docs \subseteq Healed(D, docs)
         /\ Healed(D, docs) \subseteq docs \cup Starter
         /\ Healed(D, docs) \subseteq Edit
BY EditAssumption DEF Healed, In

(***************************************************************************)
(* The steps.                                                              *)
(***************************************************************************)
LEMMA InitIInv ==
  ASSUME Init
  PROVE  IInv
<1>1. /\ store.plain = Starter /\ store.crdt = {} /\ store.deferred = {}
      /\ store.since = 0 /\ store.ops = {} /\ store.next = 1
  BY DEF Init
<1>2. store \in Store
  BY EditAssumption DEF Init, Store
<1>3. TypeOK
  <2>1. saving \in BOOLEAN /\ faults \in 0 .. MaxFaults
    <3>1. saving \in BOOLEAN
      BY DEF Init
    <3>2. 0 \in 0 .. MaxFaults
      BY BoundAssumption
    <3> QED
      BY <3>1, <3>2 DEF Init
  <2> QED
    BY <1>2, <2>1 DEF Init, TypeOK
<1>4. StoreInv(store)
  BY <1>1, <1>2 DEF StoreInv
<1>5. NoLostIn(store)
  BY <1>1 DEF NoLostIn, Local
<1>6. CapturedIn(Queued, store) /\ AckedIn(store)
  BY DEF Init, CapturedIn, AckedIn, Queued
<1>7. RunFits(store) /\ RequestFits
  BY DEF Init, RunFits, RequestFits, Working
<1> QED
  BY <1>3, <1>4, <1>5, <1>6, <1>7 DEF IInv, Good

\* A step of the user's changes the store alone.
LEMMA StoreStep ==
  ASSUME IInv, Good(store'),
         UNCHANGED <<diskVars, phase, copyVars, request, minted, server, faults>>
  PROVE  IInv'
<1> USE DEF diskVars, copyVars
<1>1. StoreInv(store)'
  BY DEF Good, StoreInv
<1>2. store' \in Store
  BY DEF Good, StoreInv
<1>3. TypeOK'
  BY <1>2 DEF IInv, TypeOK
<1>4. NoLostIn(store)'
  BY DEF Good, NoLostIn
<1>5. CapturedIn(Queued, store)'
  BY DEF Good, CapturedIn, Queued
<1>6. AckedIn(store)'
  BY DEF Good, AckedIn
<1>7. RunFits(store)'
  BY DEF Good, RunFits, Later, Working, Queued
<1>8. RequestFits'
  BY DEF IInv, RequestFits
<1> QED
  BY <1>1, <1>3, <1>4, <1>5, <1>6, <1>7, <1>8 DEF IInv, Good

\* A run that ends leaves the store sound and entries it had captured.
LEMMA EndStep ==
  ASSUME IInv, EndRun, StoreInv(store'), NoLostIn(store)',
         CapturedIn(diskQueue' \cup savedQueue', store'),
         diskQueue' \subseteq Entry, savedQueue' \subseteq Entry,
         saving' \in BOOLEAN, server' \subseteq Edit, minted' \in Nat,
         faults' \in 0 .. MaxFaults
  PROVE  IInv'
<1>1. /\ phase' = "idle" /\ queue' = {} /\ runDocs' = {} /\ watermark' = 0
      /\ pushed' = {} /\ reseeded' = {} /\ request' = {}
  BY DEF EndRun
<1>2. store' \in Store
  BY DEF StoreInv
<1>3. TypeOK'
  BY <1>1, <1>2 DEF TypeOK
<1>4. StoreInv(store)'
  BY DEF StoreInv
<1>5. CapturedIn(Queued, store)'
  BY <1>1 DEF CapturedIn, Queued
<1>6. AckedIn(store)' /\ RunFits(store)' /\ RequestFits'
  BY <1>1 DEF AckedIn, RunFits, RequestFits, Working
<1> QED
  BY <1>3, <1>4, <1>5, <1>6 DEF IInv, Good

\* What the invariant says, for the steps that leave the store alone.
LEMMA IInvFacts ==
  ASSUME IInv
  PROVE  /\ StoreInv(store) /\ NoLostIn(store)
         /\ CapturedIn(Queued, store) /\ AckedIn(store) /\ RunFits(store)
         /\ diskQueue \subseteq Entry /\ savedQueue \subseteq Entry
         /\ queue \subseteq Entry /\ request \subseteq queue
         /\ saving \in BOOLEAN /\ server \subseteq Edit /\ runDocs \subseteq Edit
         /\ minted \in Nat /\ faults \in 0 .. MaxFaults /\ watermark \in Nat
         /\ pushed \subseteq Key /\ reseeded \subseteq Doc
         /\ store \in Store
BY DEF IInv, Good, TypeOK

\* One more fault is still within the bound.
LEMMA FaultCounted ==
  ASSUME faults \in 0 .. MaxFaults, Fail
  PROVE  faults' \in 0 .. MaxFaults
BY BoundAssumption DEF Fail

LEMMA NoLostGrows ==
  ASSUME NoLostIn(store), store' = store, server \subseteq server'
  PROVE  NoLostIn(store)'
BY DEF NoLostIn

LEMMA BodiesAreEdits ==
  ASSUME NEW q, q \subseteq Entry
  PROVE  Bodies(q) \subseteq Edit
BY DEF Bodies, Entry

LEMMA ApplyLocalStep ==
  ASSUME IInv, NEW e \in Edit, ApplyLocal(e)
  PROVE  IInv'
<1>1. e \in Local /\ e \notin store.plain
  BY DEF ApplyLocal, CanEdit
<1>2. TypeOK /\ Good(store)
  BY DEF IInv
<1>3. Good(Edited(store, e))
  BY <1>1, <1>2, EditedGood
<1>4. Good(Applied(store, e))
  BY <1>2, <1>3, NewOpGood DEF Applied
<1>5. Good(store')
  BY <1>4 DEF ApplyLocal
<1> QED
  BY <1>5, StoreStep DEF ApplyLocal

LEMMA RepairIndexStep ==
  ASSUME IInv, NEW e \in Edit, RepairIndex(e)
  PROVE  IInv'
<1>1. e \in Local /\ e \notin store.plain
  BY DEF RepairIndex, CanEdit
<1>2. TypeOK /\ Good(store)
  BY DEF IInv
<1>3. Good(Flush(store)) /\ Flush(store).plain = store.plain
  BY <1>2, FlushGood, FlushFacts DEF Good
<1>4. Good(Edited(Flush(store), e))
  BY <1>1, <1>2, <1>3, EditedGood
<1>5. Good(Repaired(store, e))
  BY <1>2, <1>4, FlushGood DEF Repaired
<1>6. Good(store')
  BY <1>5 DEF RepairIndex
<1> QED
  BY <1>6, StoreStep DEF RepairIndex

LEMMA RemotePushStep ==
  ASSUME IInv, NEW e \in Edit, RemotePush(e)
  PROVE  IInv'
<1>1. /\ server' = server \cup {e}
      /\ UNCHANGED <<store, diskQueue, saving, savedQueue, phase, queue, runDocs,
                     watermark, pushed, reseeded, request, minted, faults>>
  BY DEF RemotePush, diskVars, copyVars
<1>2. TypeOK'
  BY <1>1, IInvFacts DEF IInv, TypeOK
<1>3. StoreInv(store)' /\ CapturedIn(Queued, store)'
  BY <1>1, IInvFacts DEF StoreInv, CapturedIn, Queued
<1>4. NoLostIn(store)'
  BY <1>1, IInvFacts, NoLostGrows
<1>5. AckedIn(store)'
  BY <1>1, IInvFacts DEF AckedIn
<1>6. RunFits(store)'
  BY <1>1, IInvFacts DEF RunFits, Later, Working, Queued
<1>7. RequestFits'
  BY <1>1 DEF IInv, RequestFits
<1> QED
  BY <1>2, <1>3, <1>4, <1>5, <1>6, <1>7 DEF IInv, Good

LEMMA SaveSnapshotStep ==
  ASSUME IInv, SaveSnapshot
  PROVE  IInv'
<1>1. /\ phase = "idle"
      /\ store' = Flush(store)
      /\ saving' = TRUE
      /\ savedQueue' = Entries(store'.ops)
      /\ UNCHANGED <<diskQueue, phase, queue, runDocs, watermark, pushed, reseeded,
                     request, minted, server, faults>>
  BY DEF SaveSnapshot, copyVars
<1>2. Good(store') /\ store'.deferred = {}
  BY <1>1, FlushGood, FlushFacts DEF IInv, Good
<1>3. StoreInv(store') /\ NoLostIn(store') /\ CapturedIn(Queued, store')
  BY <1>2 DEF Good
<1>4. savedQueue' \subseteq Entry /\ CapturedIn(savedQueue', store')
  BY <1>1, <1>2, <1>3, EntriesCaptured
<1>5. TypeOK'
  <2>1. saving' \in BOOLEAN
    BY <1>1
  <2>2. store' \in Store
    BY <1>3 DEF StoreInv
  <2> QED
    BY <1>1, <1>4, <2>1, <2>2, IInvFacts DEF IInv, TypeOK
<1>6. StoreInv(store)'
  BY <1>3 DEF StoreInv
<1>7. NoLostIn(store)'
  BY <1>1, <1>3 DEF NoLostIn
<1>8. CapturedIn(Queued, store)'
  <2>1. Queued' \subseteq Queued \cup savedQueue'
    BY <1>1 DEF Queued
  <2>2. CapturedIn(Queued', store')
    BY <1>3, <1>4, <2>1, CapturedJoin
  <2> QED
    BY <2>2 DEF CapturedIn
<1>9. AckedIn(store)' /\ RunFits(store)' /\ RequestFits'
  BY <1>1, IInvFacts DEF IInv, AckedIn, RunFits, RequestFits, Working
<1> QED
  BY <1>5, <1>6, <1>7, <1>8, <1>9 DEF IInv, Good

LEMMA SaveWriteStep ==
  ASSUME IInv, SaveWrite
  PROVE  IInv'
<1>1. /\ diskQueue' = savedQueue
      /\ saving' = FALSE
      /\ savedQueue' = {}
      /\ UNCHANGED <<store, phase, queue, runDocs, watermark, pushed, reseeded,
                     request, minted, server, faults>>
  BY DEF SaveWrite, copyVars
<1>2. TypeOK'
  <2>1. saving' \in BOOLEAN
    BY <1>1
  <2> QED
    BY <1>1, <2>1, IInvFacts DEF IInv, TypeOK
<1>3. CapturedIn(Queued, store)'
  BY <1>1, IInvFacts DEF CapturedIn, Queued
<1>4. /\ StoreInv(store)' /\ NoLostIn(store)' /\ AckedIn(store)'
      /\ RunFits(store)' /\ RequestFits'
  BY <1>1, IInvFacts DEF IInv, StoreInv, NoLostIn, AckedIn, RunFits, Later,
                         RequestFits, Working, Queued
<1> QED
  BY <1>2, <1>3, <1>4 DEF IInv, Good

LEMMA StartRunStep ==
  ASSUME IInv, StartRun
  PROVE  IInv'
<1> DEFINE fl == Flush(store)
<1>1. /\ phase = "idle"
      /\ phase' = "starting"
      /\ store' = fl
      /\ queue' = Entries(fl.ops)
      /\ watermark' = fl.next
      /\ UNCHANGED <<diskQueue, saving, savedQueue, runDocs, pushed, reseeded,
                     request, minted, server, faults>>
  BY DEF StartRun, diskVars
<1>2. Good(fl) /\ fl.deferred = {}
  BY FlushGood, FlushFacts DEF IInv, Good
<1>3. StoreInv(fl) /\ NoLostIn(fl) /\ CapturedIn(Queued, fl)
  BY <1>2 DEF Good
<1> HIDE DEF fl
<1>4. pushed = {} /\ queue = {} /\ request = {}
  BY <1>1, IInvFacts DEF RunFits
<1>5. queue' \subseteq Entry /\ CapturedIn(queue', fl)
  BY <1>1, <1>2, <1>3, EntriesCaptured
<1>6. TypeOK'
  <2>1. fl \in Store /\ fl.next \in Nat
    BY <1>3 DEF StoreInv, Store
  <2> QED
    BY <1>1, <1>4, <1>5, <2>1, IInvFacts DEF TypeOK
<1>7. StoreInv(store)' /\ NoLostIn(store)'
  BY <1>1, <1>3 DEF StoreInv, NoLostIn
<1>8. CapturedIn(Queued', fl)
  <2>1. Queued' \subseteq Queued \cup queue'
    BY <1>1 DEF Queued
  <2> QED
    BY <1>3, <1>5, <2>1, CapturedJoin
<1>9. CapturedIn(Queued, store)'
  BY <1>1, <1>8 DEF CapturedIn
<1>10. AckedIn(store)' /\ RequestFits'
  BY <1>1, <1>4 DEF AckedIn, RequestFits
<1>11. RunFits(store)'
  <2>1. fl.next \in Nat
    BY <1>3 DEF StoreInv, Store
  <2>2. \A x \in Queued' : x.op < fl.next
    BY <1>8 DEF CapturedIn, Frozen
  <2> QED
    BY <1>1, <1>2, <1>4, <2>1, <2>2 DEF RunFits, Working
<1> QED
  BY <1>6, <1>7, <1>9, <1>10, <1>11 DEF IInv, Good

\* What a run reads later of the disk was saved before it started, and what it
\* reads of the documents is delivered or queued by then.
LEMMA LoadRunStep ==
  ASSUME IInv, LoadRun
  PROVE  IInv'
<1>1. /\ phase = "starting"
      /\ phase' = "pulling"
      /\ \E n \in LastPos(diskQueue) : queue' = Merged(diskQueue, queue, n)
      /\ runDocs' = store.crdt
      /\ UNCHANGED <<store, diskQueue, saving, savedQueue, watermark, pushed,
                     reseeded, request, minted, server, faults>>
  BY DEF LoadRun, diskVars
<1>2. PICK n \in LastPos(diskQueue) : queue' = Merged(diskQueue, queue, n)
  BY <1>1
<1>3. n \in Nat
  BY IInvFacts, LastIsNat
<1>4. \A x \in queue' : x \in Entry /\ \E y \in Queued :
        y.op = x.op /\ y.doc = x.doc /\ y.body = x.body
  <2> SUFFICES ASSUME NEW x \in queue'
               PROVE  x \in Entry /\ \E y \in Queued :
                        y.op = x.op /\ y.doc = x.doc /\ y.body = x.body
    OBVIOUS
  <2>1. CASE x \in diskQueue
    BY <2>1, IInvFacts DEF Queued
  <2>2. CASE x \notin diskQueue
    <3>1. PICK y \in queue : x = [y EXCEPT !.pos = n + @]
      BY <1>2, <2>2 DEF Merged
    <3>2. y \in Entry /\ y \in Queued
      BY IInvFacts DEF Queued
    <3> QED
      BY <1>3, <3>1, <3>2 DEF Entry
  <2> QED
    BY <2>1, <2>2
<1>5. /\ queue' \subseteq Entry
      /\ CapturedIn(queue', store)
      /\ \A x \in queue' : x.op < watermark
  <2>1. \A y \in Queued : y.op < watermark
    BY <1>1, IInvFacts DEF RunFits
  <2>2. CapturedIn(queue', store)
    BY <1>4, IInvFacts DEF CapturedIn
  <2> QED
    BY <1>4, <2>1, <2>2
<1>6. request = {}
  BY <1>1 DEF IInv, RequestFits
<1>7. TypeOK'
  <2>1. store.crdt \subseteq Edit
    BY IInvFacts DEF Store
  <2> QED
    BY <1>1, <1>5, <1>6, <2>1, IInvFacts DEF TypeOK
<1>8. StoreInv(store)' /\ NoLostIn(store)' /\ AckedIn(store)' /\ RequestFits'
  BY <1>1, <1>6, IInvFacts DEF StoreInv, NoLostIn, AckedIn, RequestFits
<1>9. CapturedIn(Queued, store)'
  <2>1. Queued' \subseteq Queued \cup queue'
    BY <1>1 DEF Queued
  <2>2. CapturedIn(Queued', store)
    BY <1>5, <2>1, IInvFacts, CapturedJoin
  <2> QED
    BY <1>1, <2>2 DEF CapturedIn
<1>10. RunFits(store)'
  <2>1. \A e \in store.crdt \cap Local :
          DocOf[e] \in Bound(store.plain) => e \in server \cup Carried(store.ops)
    BY IInvFacts DEF StoreInv, NoLostIn, Unwritten
  <2>2. \A e \in store.plain :
          DocOf[e] \in Bound(store.plain) =>
            e \in store.crdt \cup Starter \cup Unwritten(store)
    BY IInvFacts DEF StoreInv
  <2>3. /\ watermark <= store.next
        /\ store.deferred # {} => watermark <= store.since
        /\ \A x \in Queued \cup pushed : x.op < watermark
    BY <1>1, IInvFacts DEF RunFits
  <2>4. \A x \in (Queued \cup pushed)' : x.op < watermark
    BY <1>1, <1>5, <2>3 DEF Queued
  <2> QED
    BY <1>1, <2>1, <2>2, <2>3, <2>4 DEF RunFits, Working
<1> QED
  BY <1>7, <1>8, <1>9, <1>10 DEF IInv, Good

\* A step inside a run: the store and what is on disk stay, the run's queue has
\* only captured entries, and its documents grow by what is not this device's.
LEMMA RunGoesOn ==
  ASSUME IInv, Working, phase' \in {"pushing", "pushed"},
         UNCHANGED <<store, diskQueue, saving, savedQueue, watermark>>,
         queue' \subseteq Entry, CapturedIn(queue', store),
         \A x \in queue' : x.op < watermark,
         pushed' \subseteq Key, AckedIn(store)', \A k \in pushed' : k.op < watermark,
         runDocs' \subseteq Edit, runDocs \subseteq runDocs',
         runDocs' \subseteq runDocs \cup server' \cup Starter,
         server \subseteq server', server' \subseteq Edit,
         request' \subseteq queue', RequestFits', reseeded' \subseteq Doc,
         minted' \in Nat, faults' \in 0 .. MaxFaults
  PROVE  IInv'
<1>1. TypeOK'
  BY IInvFacts DEF TypeOK
<1>2. StoreInv(store)'
  BY IInvFacts DEF StoreInv
<1>3. NoLostIn(store)'
  BY IInvFacts, NoLostGrows
<1>4. CapturedIn(Queued, store)'
  <2>1. Queued' \subseteq Queued \cup queue'
    BY DEF Queued
  <2>2. CapturedIn(Queued', store)
    BY <2>1, IInvFacts, CapturedJoin
  <2> QED
    BY <2>2 DEF CapturedIn
<1>5. RunFits(store)'
  <2>1. /\ watermark <= store.next
        /\ store.deferred # {} => watermark <= store.since
        /\ \A e \in runDocs \cap Local :
             DocOf[e] \in Bound(store.plain) => e \in server \cup Carried(store.ops)
        /\ \A e \in store.plain :
             DocOf[e] \in Bound(store.plain) =>
               e \in runDocs \cup Starter \cup Unwritten(store) \cup Later(store)
    BY IInvFacts DEF RunFits, Working
  <2>2. \A e \in runDocs' \cap Local :
          DocOf[e] \in Bound(store.plain) => e \in server' \cup Carried(store.ops)
    BY <2>1 DEF Local
  <2>3. phase' # "idle" /\ Later(store)' = Later(store)
    BY DEF Later
  <2>4. \A x \in (Queued \cup pushed)' : x.op < watermark
    <3>1. \A x \in Queued : x.op < watermark
      BY IInvFacts DEF RunFits, Working
    <3> QED
      BY <3>1 DEF Queued
  <2> QED
    BY <2>1, <2>2, <2>3, <2>4 DEF RunFits
<1> QED
  BY <1>1, <1>2, <1>3, <1>4, <1>5 DEF IInv, Good

\* Replacing documents of the queue by snapshots of them.
LEMMA SnapshotQueue ==
  ASSUME IInv, NEW Q, Q \subseteq queue, NEW D, D \subseteq Doc,
         NEW docs, docs \subseteq Edit,
         NEW r \in Ranks(D), NEW s \in LastSeq(queue), NEW n \in LastPos(queue)
  PROVE  LET q == Q \cup Snapshots(D, docs, s, n, r)
         IN /\ q \subseteq Entry
            /\ CapturedIn(q, store)
            /\ phase # "idle" => \A x \in q : x.op < watermark
            /\ minted + Cardinality(D) \in Nat
<1> DEFINE snaps == Snapshots(D, docs, s, n, r)
<1>1. s \in Nat /\ n \in Nat
  BY IInvFacts, LastIsNat
<1>2. snaps \subseteq Entry /\ CapturedIn(snaps, store) /\ \A x \in snaps : x.op < 0
  BY <1>1, SnapshotsCaptured, IInvFacts DEF IInv
<1> HIDE DEF snaps
<1>3. Q \cup snaps \subseteq Entry
  BY <1>2, IInvFacts
<1>4. CapturedIn(Q \cup snaps, store)
  <2>1. Q \cup snaps \subseteq Queued \cup snaps
    BY DEF Queued
  <2> QED
    BY <1>2, <2>1, IInvFacts, CapturedJoin
<1>5. ASSUME phase # "idle"
      PROVE  \A x \in Q \cup snaps : x.op < watermark
  <2>1. \A x \in Q : x.op < watermark
    BY <1>5, IInvFacts DEF RunFits, Queued
  <2>2. \A x \in snaps : x.op < watermark
    <3>1. watermark \in Nat
      BY IInvFacts
    <3>2. \A x \in snaps : x.op \in Int
      BY <1>2 DEF Entry
    <3> QED
      BY <1>2, <3>1, <3>2
  <2> QED
    BY <2>1, <2>2
<1>6. minted + Cardinality(D) \in Nat
  BY EditAssumption, FS_Subset, FS_CardinalityType, IInvFacts
<1> QED
  BY <1>3, <1>4, <1>5, <1>6 DEF snaps

LEMMA PullFailsStep ==
  ASSUME IInv, PullFails \/ FailAfterPush
  PROVE  IInv'
<1>1. /\ Fail /\ EndRun
      /\ UNCHANGED <<store, diskQueue, saving, savedQueue, minted, server>>
  BY DEF PullFails, FailAfterPush, diskVars
<1>2. faults' \in 0 .. MaxFaults
  BY <1>1, IInvFacts, FaultCounted
<1>3. StoreInv(store') /\ NoLostIn(store)'
  BY <1>1, IInvFacts DEF StoreInv, NoLostIn
<1>4. CapturedIn(diskQueue' \cup savedQueue', store')
  BY <1>1, IInvFacts DEF CapturedIn, Queued
<1> QED
  BY <1>1, <1>2, <1>3, <1>4, IInvFacts, EndStep

LEMMA PullStep ==
  ASSUME IInv, Pull
  PROVE  IInv'
<1> DEFINE merged == runDocs \cup server
           open == Open(merged)
           docs == Healed(open, merged)
           trusted == {d \in open : /\ Pending(queue, d) # {}
                                    /\ Populated(d, merged)
                                    /\ Populated(d, Bodies(Pending(queue, d)))}
           fresh == {d \in open \ trusted : In(docs, d) # {}}
           kept == {x \in queue : x.doc \in trusted \/ In(server, x.doc) # {}}
<1>1. /\ phase = "pulling"
      /\ phase' = "pushing"
      /\ runDocs' = docs
      /\ \E r \in Ranks(fresh), s \in LastSeq(queue), n \in LastPos(queue) :
           queue' = kept \cup Snapshots(fresh, docs, s, n, r)
      /\ minted' = minted + Cardinality(fresh)
      /\ UNCHANGED <<store, diskQueue, saving, savedQueue, watermark, pushed,
                     reseeded, request, server, faults>>
  BY DEF Pull, diskVars
<1>2. fresh \subseteq Doc /\ kept \subseteq queue
  BY DEF Open, Bound
<1>3. merged \subseteq docs /\ docs \subseteq merged \cup Starter /\ docs \subseteq Edit
  BY HealedIs, IInvFacts
<1> HIDE DEF docs, fresh, kept
<1>4. PICK r \in Ranks(fresh), s \in LastSeq(queue), n \in LastPos(queue) :
        queue' = kept \cup Snapshots(fresh, docs, s, n, r)
  BY <1>1
<1>5. /\ queue' \subseteq Entry
      /\ CapturedIn(queue', store)
      /\ \A x \in queue' : x.op < watermark
      /\ minted' \in Nat
  <2> DEFINE q == kept \cup Snapshots(fresh, docs, s, n, r)
  <2>1. /\ q \subseteq Entry
        /\ CapturedIn(q, store)
        /\ phase # "idle" => \A x \in q : x.op < watermark
        /\ minted + Cardinality(fresh) \in Nat
    BY <1>2, <1>3, SnapshotQueue, ZenonT(60)
  <2>2. queue' = q
    BY <1>4
  <2> HIDE DEF q
  <2> QED
    BY <1>1, <2>1, <2>2
<1>6. request = {}
  BY <1>1 DEF IInv, RequestFits
<1>7. AckedIn(store)' /\ RequestFits'
  BY <1>1, IInvFacts DEF AckedIn, RequestFits
<1>8. \A k \in pushed : k.op < watermark
  BY <1>1, IInvFacts DEF RunFits, Queued
<1> QED
  BY <1>1, <1>3, <1>5, <1>6, <1>7, <1>8, IInvFacts, RunGoesOn DEF Working

LEMMA BuildRequestStep ==
  ASSUME IInv, BuildRequest
  PROVE  IInv'
<1>1. /\ phase = "pushing"
      /\ request' \subseteq queue
      /\ UNCHANGED <<store, diskQueue, saving, savedQueue, phase, queue, runDocs,
                     watermark, pushed, reseeded, minted, server, faults>>
  BY DEF BuildRequest, diskVars, copyVars
<1>2. CapturedIn(queue', store) /\ AckedIn(store)' /\ RequestFits'
  BY <1>1, IInvFacts DEF CapturedIn, AckedIn, RequestFits, Queued
<1>3. \A x \in queue \cup pushed : x.op < watermark
  BY <1>1, IInvFacts DEF RunFits, Queued
<1> QED
  BY <1>1, <1>2, <1>3, IInvFacts, RunGoesOn DEF Working

\* What the server acknowledges, it has.
LEMMA AcceptStep ==
  ASSUME IInv, Accept
  PROVE  IInv'
<1>1. /\ request # {}
      /\ server' = server \cup Bodies(request)
      /\ queue' = queue \ request
      /\ pushed' = pushed \cup {KeyOf(x) : x \in request}
      /\ request' = {}
      /\ UNCHANGED <<store, diskQueue, saving, savedQueue, phase, runDocs,
                     watermark, reseeded, minted, faults>>
  BY DEF Accept, diskVars
<1>2. phase = "pushing"
  BY <1>1 DEF IInv, RequestFits
<1>3. server' \subseteq Edit
  BY <1>1, BodiesAreEdits, IInvFacts
<1>4. \A x \in queue \cup pushed : x.op < watermark
  BY <1>2, IInvFacts DEF RunFits, Queued
<1>5. \A x \in request : x \in Entry /\ x \in queue /\ x.body \subseteq server'
  BY <1>1, IInvFacts DEF Bodies
<1>6. pushed' \subseteq Key
  <2>1. \A x \in request : KeyOf(x) \in Key
    BY <1>5 DEF Entry, Key, KeyOf
  <2> QED
    BY <1>1, <2>1, IInvFacts
<1>7. \A k \in pushed' : k.op < watermark
  BY <1>1, <1>4, <1>5 DEF KeyOf
<1>8. AckedIn(store)'
  <2> SUFFICES ASSUME NEW k \in pushed'
               PROVE  /\ Frozen(k.op, store)
                      /\ \A o \in store.ops :
                           k.op = o.seq => In(o.ups, k.doc) \subseteq server'
    BY <1>1 DEF AckedIn
  <2>1. CASE k \in pushed
    BY <1>1, <2>1, IInvFacts DEF AckedIn
  <2>2. CASE k \notin pushed
    <3>1. PICK x \in request : k = KeyOf(x)
      BY <1>1, <2>2
    <3>2. k.op = x.op /\ k.doc = x.doc
      BY <3>1 DEF KeyOf
    <3>3. /\ Frozen(x.op, store)
          /\ \A o \in store.ops : x.op = o.seq => In(o.ups, x.doc) \subseteq x.body
      BY <1>5, IInvFacts DEF CapturedIn, Queued
    <3> QED
      BY <1>5, <3>2, <3>3
  <2> QED
    BY <2>1, <2>2
<1>9. CapturedIn(queue', store)
  BY <1>1, IInvFacts DEF CapturedIn, Queued
<1>10. /\ queue' \subseteq Entry
       /\ \A x \in queue' : x.op < watermark
       /\ runDocs' = runDocs
       /\ RequestFits'
  BY <1>1, <1>4, IInvFacts DEF RequestFits
<1> QED
  BY <1>1, <1>2, <1>3, <1>6, <1>7, <1>8, <1>9, <1>10, IInvFacts, RunGoesOn DEF Working

\* A push that fails saves a part of its queue and leaves the store alone.
LEMMA PushFails ==
  ASSUME IInv, NEW q, PushFailsWith(q), q \subseteq Entry, CapturedIn(q, store),
         server \subseteq server', server' \subseteq Edit, minted' \in Nat,
         faults' \in 0 .. MaxFaults
  PROVE  IInv'
<1>1. diskQueue' = q /\ EndRun /\ UNCHANGED <<store, saving, savedQueue>>
  BY DEF PushFailsWith
<1>2. StoreInv(store') /\ NoLostIn(store)'
  BY <1>1, IInvFacts, NoLostGrows DEF StoreInv
<1>3. CapturedIn(diskQueue' \cup savedQueue', store')
  BY <1>1, IInvFacts DEF CapturedIn, Queued
<1> QED
  BY <1>1, <1>2, <1>3, IInvFacts, EndStep

LEMMA LoseRequestStep ==
  ASSUME IInv, LoseRequest
  PROVE  IInv'
<1>1. /\ Fail /\ PushFailsWith(queue) /\ minted' = minted /\ server' = server
  BY DEF LoseRequest
<1>2. faults' \in 0 .. MaxFaults
  BY <1>1, IInvFacts, FaultCounted
<1>3. CapturedIn(queue, store)
  BY IInvFacts DEF CapturedIn, Queued
<1> QED
  BY <1>1, <1>2, <1>3, IInvFacts, PushFails

LEMMA LoseResponseStep ==
  ASSUME IInv, LoseResponse
  PROVE  IInv'
<1>1. /\ Fail
      /\ \E q \in SUBSET queue : PushFailsWith(q)
      /\ server' = server \cup Bodies(request)
      /\ minted' = minted
  BY DEF LoseResponse
<1>2. PICK q \in SUBSET queue : PushFailsWith(q)
  BY <1>1
<1>3. faults' \in 0 .. MaxFaults
  BY <1>1, IInvFacts, FaultCounted
<1>4. q \subseteq Entry /\ CapturedIn(q, store)
  BY IInvFacts DEF CapturedIn, Queued
<1>5. server \subseteq server' /\ server' \subseteq Edit
  BY <1>1, BodiesAreEdits, IInvFacts
<1> QED
  BY <1>1, <1>2, <1>3, <1>4, <1>5, IInvFacts, PushFails

\* A refusal counts as a fault only when the request was valid.
LEMMA RefusalCounted ==
  ASSUME IInv, Valid(request) => faults < MaxFaults,
         faults' = IF Valid(request) THEN faults + 1 ELSE faults
  PROVE  faults' \in 0 .. MaxFaults
<1>1. CASE Valid(request)
  BY <1>1, BoundAssumption, IInvFacts
<1>2. CASE ~Valid(request)
  BY <1>2, IInvFacts
<1> QED
  BY <1>1, <1>2

LEMMA RejectStep ==
  ASSUME IInv, Reject
  PROVE  IInv'
<1> DEFINE D == {x.doc : x \in request}
           docs == Healed(D, runDocs)
           snapped == {d \in D \cap Bound(docs) : In(docs, d) # {}}
           Q == {x \in queue : x.doc \notin D}
<1>1. /\ request # {}
      /\ Valid(request) => faults < MaxFaults
      /\ faults' = IF Valid(request) THEN faults + 1 ELSE faults
      /\ minted' = minted + Cardinality(snapped)
      /\ runDocs' = docs
      /\ \E r \in Ranks(snapped), s \in LastSeq(queue), n \in LastPos(queue) :
           queue' = Q \cup Snapshots(snapped, docs, s, n, r)
      /\ reseeded' = reseeded \cup D
      /\ request' = {}
      /\ UNCHANGED <<store, diskQueue, saving, savedQueue, phase, watermark, pushed,
                     server>>
  BY DEF Reject, Refused, diskVars
<1>2. phase = "pushing"
  BY <1>1 DEF IInv, RequestFits
<1>3. faults' \in 0 .. MaxFaults
  BY <1>1, RefusalCounted
<1>4. D \subseteq Doc
  BY IInvFacts DEF Entry
<1>5. runDocs \subseteq docs /\ docs \subseteq runDocs \cup Starter /\ docs \subseteq Edit
  BY HealedIs, IInvFacts
<1>6. snapped \subseteq Doc /\ Q \subseteq queue
  BY <1>4
<1> HIDE DEF docs, snapped, Q, D
<1>7. PICK r \in Ranks(snapped), s \in LastSeq(queue), n \in LastPos(queue) :
        queue' = Q \cup Snapshots(snapped, docs, s, n, r)
  BY <1>1
<1>8. /\ queue' \subseteq Entry
      /\ CapturedIn(queue', store)
      /\ \A x \in queue' : x.op < watermark
      /\ minted' \in Nat
  <2> DEFINE q == Q \cup Snapshots(snapped, docs, s, n, r)
  <2>1. /\ q \subseteq Entry
        /\ CapturedIn(q, store)
        /\ phase # "idle" => \A x \in q : x.op < watermark
        /\ minted + Cardinality(snapped) \in Nat
    BY <1>5, <1>6, SnapshotQueue, ZenonT(60)
  <2>2. queue' = q
    BY <1>7
  <2> HIDE DEF q
  <2> QED
    BY <1>1, <1>2, <2>1, <2>2
<1>9. AckedIn(store)' /\ RequestFits' /\ reseeded' \subseteq Doc
  BY <1>1, <1>4, IInvFacts DEF AckedIn, RequestFits
<1>10. \A k \in pushed : k.op < watermark
  BY <1>2, IInvFacts DEF RunFits, Queued
<1> QED
  BY <1>1, <1>2, <1>3, <1>5, <1>8, <1>9, <1>10, IInvFacts, RunGoesOn DEF Working

LEMMA RejectAgainStep ==
  ASSUME IInv, RejectAgain
  PROVE  IInv'
<1> DEFINE D(d) == {x.doc : x \in {y \in request : Before(queue, y.doc, d)}}
           docs == Healed({x.doc : x \in request}, runDocs)
           snapped(d) == {c \in D(d) \cap Bound(docs) : In(docs, c) # {}}
<1>1. /\ Valid(request) => faults < MaxFaults
      /\ faults' = IF Valid(request) THEN faults + 1 ELSE faults
      /\ server' = server
  BY DEF RejectAgain
<1>2. PICK d \in {x.doc : x \in request} :
        /\ minted' = minted + Cardinality(snapped(d))
        /\ \E r \in Ranks(snapped(d)), s \in LastSeq(queue), n \in LastPos(queue) :
             PushFailsWith({x \in queue : x.doc \notin D(d)}
                             \cup Snapshots(snapped(d), docs, s, n, r))
  BY DEF RejectAgain
<1>3. faults' \in 0 .. MaxFaults
  BY <1>1, RefusalCounted
<1>4. docs \subseteq Edit
  BY HealedIs, IInvFacts
<1> DEFINE Q == {x \in queue : x.doc \notin D(d)}
           S == snapped(d)
<1>5. S \subseteq Doc /\ Q \subseteq queue
  <2>1. \A x \in request : x.doc \in Doc
    BY IInvFacts DEF Entry
  <2> QED
    BY <2>1
<1>6. /\ minted' = minted + Cardinality(S)
      /\ \E r \in Ranks(S), s \in LastSeq(queue), n \in LastPos(queue) :
           PushFailsWith(Q \cup Snapshots(S, docs, s, n, r))
  BY <1>2
<1> HIDE DEF S, Q, docs
<1>7. PICK r \in Ranks(S), s \in LastSeq(queue), n \in LastPos(queue) :
        PushFailsWith(Q \cup Snapshots(S, docs, s, n, r))
  BY <1>6
<1> DEFINE q == Q \cup Snapshots(S, docs, s, n, r)
<1>8. q \subseteq Entry /\ CapturedIn(q, store) /\ minted' \in Nat
  <2>1. /\ q \subseteq Entry
        /\ CapturedIn(q, store)
        /\ minted + Cardinality(S) \in Nat
    BY <1>4, <1>5, SnapshotQueue, ZenonT(60)
  <2> QED
    BY <1>6, <2>1
<1>9. PushFailsWith(q)
  BY <1>7
<1> HIDE DEF q
<1> QED
  BY <1>1, <1>3, <1>8, <1>9, IInvFacts, PushFails

LEMMA PushDoneStep ==
  ASSUME IInv, PushDone
  PROVE  IInv'
<1>1. /\ phase = "pushing"
      /\ request = {}
      /\ queue = {}
      /\ phase' = "pushed"
      /\ diskQueue' = queue
      /\ UNCHANGED <<store, saving, savedQueue, queue, runDocs, watermark, pushed,
                     reseeded, request, minted, server, faults>>
  BY DEF PushDone, copyVars
<1>2. TypeOK'
  BY <1>1, IInvFacts DEF IInv, TypeOK
<1>3. CapturedIn(Queued, store)'
  BY <1>1, IInvFacts DEF CapturedIn, Queued
<1>4. StoreInv(store)' /\ NoLostIn(store)' /\ AckedIn(store)' /\ RequestFits'
  BY <1>1, IInvFacts DEF StoreInv, NoLostIn, AckedIn, RequestFits
<1>5. RunFits(store)'
  BY <1>1, IInvFacts DEF RunFits, Later, Working, Queued
<1> QED
  BY <1>2, <1>3, <1>4, <1>5 DEF IInv, Good

\* What the landing is left with once the run's part of the queue is gone.
LEMMA KeptGood ==
  ASSUME TypeOK, Good(store), phase # "idle", NEW kept,
         kept = DropUnbound(Flush(ClearPushed(store)))
  PROVE  Good(kept) /\ kept.deferred = {} /\ kept.plain = store.plain
<1> DEFINE cl == ClearPushed(store)
           fl == Flush(cl)
<1>1. Good(cl) /\ cl.plain = store.plain
  BY ClearPushedGood, ClearedShows DEF Good
<1> HIDE DEF cl
<1>2. Good(fl) /\ fl.plain = store.plain /\ fl.deferred = {}
  BY <1>1, FlushGood, FlushFacts DEF Good
<1>3. kept = DropUnbound(fl)
  BY DEF cl
<1> HIDE DEF fl
<1> QED
  BY <1>2, <1>3, DropUnboundGood, ClearedShows DEF Good

LEMMA LandStep ==
  ASSUME IInv, Land
  PROVE  /\ IInv'
         /\ \A e \in store.plain \cap Local :
              e \in store'.plain \/ DocOf[e] \notin Bound(store'.plain)
         /\ Bound(store'.plain) \subseteq Bound(store.plain)
<1> DEFINE kept == DropUnbound(Flush(ClearPushed(store)))
<1>1. /\ phase = "pushed"
      /\ \/ store' = kept
         \/ store' = Adopted(kept, kept.crdt \cup runDocs)
         \/ store' = Adopted(kept, runDocs)
      /\ EndRun
      /\ UNCHANGED <<diskQueue, saving, savedQueue, minted, server, faults>>
  BY DEF Land, diskVars
<1>2. TypeOK /\ Good(store) /\ phase # "idle" /\ Working
  BY <1>1 DEF IInv, Working
<1>3. Good(kept) /\ kept.deferred = {} /\ kept.plain = store.plain
  BY <1>2, KeptGood
<1> HIDE DEF kept
<1>4. /\ StoreInv(store')
      /\ NoLostIn(store')
      /\ CapturedIn(Queued, store')
      /\ \A e \in store.plain \cap Local :
           DocOf[e] \in Bound(store'.plain) => e \in store'.plain
      /\ Bound(store'.plain) \subseteq Bound(store.plain)
  <2>1. CASE store' = kept
    BY <1>3, <2>1 DEF Good
  <2>2. ASSUME NEW base, base = runDocs \/ base = kept.crdt \cup runDocs,
               store' = Adopted(kept, base)
        PROVE  /\ StoreInv(store')
               /\ NoLostIn(store')
               /\ CapturedIn(Queued, store')
               /\ \A e \in store.plain \cap Local :
                    DocOf[e] \in Bound(store'.plain) => e \in store'.plain
               /\ Bound(store'.plain) \subseteq Bound(store.plain)
    BY <1>2, <1>3, <2>2, AdoptedGood
  <2> QED
    BY <1>1, <2>1, <2>2
<1>5. NoLostIn(store)'
  BY <1>1, <1>4 DEF NoLostIn
<1>6. CapturedIn(diskQueue' \cup savedQueue', store')
  BY <1>1, <1>4 DEF CapturedIn, Queued
<1>7. IInv'
  BY <1>1, <1>4, <1>5, <1>6, IInvFacts, EndStep
<1> QED
  BY <1>4, <1>7

LEMMA Stutter ==
  ASSUME IInv, UNCHANGED vars
  PROVE  IInv'
<1>1. UNCHANGED <<store, diskQueue, saving, savedQueue, phase, queue, runDocs,
                  watermark, pushed, reseeded, request, minted, server, faults>>
  BY DEF vars, diskVars, copyVars
<1>2. TypeOK'
  BY <1>1 DEF IInv, TypeOK
<1>3. StoreInv(store)' /\ NoLostIn(store)' /\ CapturedIn(Queued, store)'
  BY <1>1, IInvFacts DEF StoreInv, NoLostIn, CapturedIn, Queued
<1>4. AckedIn(store)' /\ RunFits(store)' /\ RequestFits'
  BY <1>1, IInvFacts DEF IInv, AckedIn, RunFits, Later, RequestFits, Working, Queued
<1> QED
  BY <1>2, <1>3, <1>4 DEF IInv, Good

\* Every step keeps the invariant.
LEMMA Inductive ==
  ASSUME IInv, [Next]_vars
  PROVE  IInv'
<1>1. ASSUME NEW e \in Edit, ApplyLocal(e) \/ RepairIndex(e) \/ RemotePush(e)
      PROVE  IInv'
  BY <1>1, ApplyLocalStep, RepairIndexStep, RemotePushStep
<1>2. CASE SaveSnapshot \/ SaveWrite
  BY <1>2, SaveSnapshotStep, SaveWriteStep
<1>3. CASE StartRun \/ LoadRun
  BY <1>3, StartRunStep, LoadRunStep
<1>4. CASE PullFails \/ FailAfterPush
  BY <1>4, PullFailsStep
<1>5. CASE Pull
  BY <1>5, PullStep
<1>6. CASE BuildRequest
  BY <1>6, BuildRequestStep
<1>7. CASE Accept
  BY <1>7, AcceptStep
<1>8. CASE LoseRequest \/ LoseResponse
  BY <1>8, LoseRequestStep, LoseResponseStep
<1>9. CASE Reject \/ RejectAgain
  BY <1>9, RejectStep, RejectAgainStep
<1>10. CASE PushDone
  BY <1>10, PushDoneStep
<1>11. CASE Land
  BY <1>11, LandStep
<1>12. CASE UNCHANGED vars
  BY <1>12, Stutter
<1> QED
  BY <1>1, <1>2, <1>3, <1>4, <1>5, <1>6, <1>7, <1>8, <1>9, <1>10, <1>11, <1>12
  DEF Next

(***************************************************************************)
(* The theorems.                                                           *)
(***************************************************************************)
\* The invariant holds at every moment of every behaviour.
THEOREM Invariance == Spec => []IInv
<1>1. Init => IInv
  BY InitIInv
<1>2. IInv /\ [Next]_vars => IInv'
  BY Inductive
<1> QED
  BY <1>1, <1>2, PTL DEF Spec

\* The store, the queues and the run's copies keep their types, the request in
\* flight is always a part of the run's queue, and failures stay counted.
THEOREM TypeCorrect == Spec => []TypeOK
<1>1. IInv => TypeOK
  BY DEF IInv
<1> QED
  BY <1>1, Invariance, PTL

\* Whatever is saved, retried, refused, lost or landed in whatever order, an edit
\* the user still sees is on the server, in an operation of the queue, or about
\* to be flushed into one (flush_crdt, clear_pushed_crdt_edits_exact,
\* drop_unbound_pending_crdt_edits, replace_from_sync, merge_sync_crdt_states).
THEOREM NoEditLost == Spec => []NoLostEdit
<1>1. IInv => NoLostEdit
  BY DEF IInv, Good, NoLostIn, NoLostEdit
<1> QED
  BY <1>1, Invariance, PTL

\* The workspace the user sees is the projection of the documents after every
\* landing, but for what the next flush writes.
THEOREM ProjectionHolds == Spec => []ProjectionLaw
<1>1. IInv => ProjectionLaw
  BY DEF IInv, Good, StoreInv, ProjectionLaw
<1> QED
  BY <1>1, Invariance, PTL

\* What a run read of an operation is all the operation will ever carry, so
\* clearing it by its identity never clears an update that was not pushed.
THEOREM CapturedComplete == Spec => []CapturedIsComplete
<1>1. IInv => CapturedIsComplete
  BY DEF IInv, Good, CapturedIn, Queued, CapturedIsComplete
<1> QED
  BY <1>1, Invariance, PTL

\* What becomes of the store in a step.
LEMMA StoreMoves ==
  ASSUME [Next]_vars
  PROVE  store' = store \/ store' = Flush(store) \/ (\E e \in Edit : ApplyLocal(e))
           \/ (\E e \in Edit : RepairIndex(e)) \/ Land
BY DEF Next, vars, SaveSnapshot, SaveWrite, StartRun, LoadRun, PullFails, Pull,
       BuildRequest, Accept, LoseRequest, LoseResponse, PushFailsWith, Reject,
       RejectAgain, PushDone, FailAfterPush, RemotePush

\* A command adds its edit to what is shown and to what is deferred.
LEMMA AppliedShows ==
  ASSUME IInv, NEW e \in Edit, ApplyLocal(e)
  PROVE  /\ e \in Local \ store.plain
         /\ DocOf[e] \in Bound(store.plain)
         /\ store'.plain = store.plain \cup {e}
         /\ store'.crdt = store.crdt
         /\ store'.deferred = store.deferred \cup {DocOf[e]}
         /\ store'.ops = store.ops \cup {[seq |-> store.next, ups |-> {}]}
         /\ store'.next = store.next + 1
<1> DEFINE ed == Edited(store, e)
<1>1. store' = NewOp(ed, {}) /\ e \in Local \ store.plain /\ DocOf[e] \in Bound(store.plain)
  BY DEF ApplyLocal, Applied, CanEdit
<1>2. ed \in Store
  BY <1>1, EditedGood DEF IInv, Good, StoreInv
<1>3. /\ ed.plain = store.plain \cup {e} /\ ed.crdt = store.crdt
      /\ ed.deferred = store.deferred \cup {DocOf[e]}
      /\ ed.ops = store.ops /\ ed.next = store.next
  BY EditedIs, IInvFacts
<1> HIDE DEF ed
<1>4. NewOp(ed, {}) =
        [plain |-> ed.plain, crdt |-> ed.crdt, deferred |-> ed.deferred,
         since |-> ed.since, ops |-> ed.ops \cup {[seq |-> ed.next, ups |-> {}]},
         next |-> ed.next + 1]
  BY <1>2, NewOpIs
<1> QED
  BY <1>1, <1>3, <1>4

\* A repair of the index writes its edit at once, after what was deferred.
LEMMA RepairedShows ==
  ASSUME IInv, NEW e \in Edit, RepairIndex(e)
  PROVE  /\ e \in Local \ store.plain
         /\ DocOf[e] \in Bound(store.plain)
         /\ LET fl == Flush(store) IN
            /\ Good(Edited(fl, e))
            /\ Edited(fl, e) =
                 [plain |-> store.plain \cup {e}, crdt |-> store.crdt \cup Unwritten(store),
                  deferred |-> {DocOf[e]}, since |-> fl.next,
                  ops |-> fl.ops, next |-> fl.next]
            /\ store' = Flush(Edited(fl, e))
            /\ store'.plain = store.plain \cup {e}
            /\ store'.deferred = {}
<1> DEFINE fl == Flush(store)
<1>1. /\ store' = Flush(Edited(fl, e))
      /\ e \in Local \ store.plain /\ DocOf[e] \in Bound(store.plain)
  BY DEF RepairIndex, Repaired, CanEdit
<1>2. TypeOK /\ StoreInv(store) /\ Good(store)
  BY DEF IInv, Good
<1>3. /\ Good(fl) /\ fl \in Store /\ fl.plain = store.plain /\ fl.deferred = {}
      /\ fl.crdt = store.crdt \cup Unwritten(store)
  BY <1>2, FlushGood, FlushFacts
<1> HIDE DEF fl
<1>4. Good(Edited(fl, e))
  BY <1>1, <1>2, <1>3, EditedGood
<1>5. Edited(fl, e) =
        [plain |-> store.plain \cup {e}, crdt |-> store.crdt \cup Unwritten(store),
         deferred |-> {DocOf[e]}, since |-> fl.next, ops |-> fl.ops, next |-> fl.next]
  BY <1>3, EditedIs
<1>6. store'.plain = store.plain \cup {e} /\ store'.deferred = {}
  <2> DEFINE ed == Edited(fl, e)
  <2>1. StoreInv(ed) /\ ed.plain = store.plain \cup {e} /\ store' = Flush(ed)
    BY <1>1, <1>4, <1>5 DEF Good
  <2> HIDE DEF ed
  <2> QED
    BY <2>1, FlushFacts
<1> QED
  BY <1>1, <1>4, <1>5, <1>6 DEF fl

\* An edit stays shown while its scheme is bound, and a scheme deleted for good
\* is never bound again.
LEMMA StepKeepsVisible ==
  ASSUME IInv, [Next]_vars
  PROVE  /\ \A e \in store.plain \cap Local :
              e \in store'.plain \/ DocOf[e] \notin Bound(store'.plain)
         /\ Bound(store'.plain) \subseteq Bound(store.plain)
<1>1. CASE store' = store
  BY <1>1
<1>2. CASE store' = Flush(store)
  BY <1>2, IInvFacts, FlushFacts
<1>3. CASE \E e \in Edit : ApplyLocal(e) \/ RepairIndex(e)
  <2>1. store.plain \subseteq store'.plain
    BY <1>3, AppliedShows, RepairedShows
  <2> QED
    BY <2>1, BoundAnti
<1>4. CASE Land
  BY <1>4, LandStep
<1> QED
  BY <1>1, <1>2, <1>3, <1>4, StoreMoves

\* No step hides an edit of the user's whose scheme still exists: the landing of
\* a run replays or merges what was made while the run was on.
THEOREM VisibleKept == Spec => KeepsVisible
<1>1. IInv /\ [Next]_vars =>
        [\A e \in store.plain \cap Local :
           e \in store'.plain \/ DocOf[e] \notin Bound(store'.plain)]_vars
  BY StepKeepsVisible
<1> QED
  BY <1>1, Invariance, PTL DEF Spec, KeepsVisible
=============================================================================
