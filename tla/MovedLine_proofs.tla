---------------------------- MODULE MovedLine_proofs ----------------------------
EXTENDS MovedLine, FiniteSetTheorems, SequenceTheorems, TLAPS

(***************************************************************************)
(* The documents.                                                          *)
(***************************************************************************)
\* The tags that brought a removed line back.
Later(A) == {t \in A : t # Seed}

\* A tag of a device's own is numbered below what it is one of, so the next is new.
Sound(e) ==
  /\ e \in Entry
  /\ WellFormed(e)
  /\ IsFiniteSet(e.add)
  /\ \A t \in Later(e.add) : t[2] < Cardinality(Later(e.add))

Documents == [Schemes -> Entry]
SoundDocs(D) == D \in Documents /\ \A s \in Schemes : Sound(D[s])

\* E holds all that D does.
Within(e, f) ==
  /\ e.add \subseteq f.add /\ e.rem \subseteq f.rem
  /\ e.mov \subseteq f.mov /\ e.del \subseteq f.del
Contains(E, D) == \A s \in Schemes : Within(D[s], E[s])

Added(D) == \E s \in Schemes : D[s].add # {}
Doomed(D) == \E s \in Schemes : D[s].del # {}

(***************************************************************************)
(* What a replica with documents D that has heard of the wishes K holds.   *)
(***************************************************************************)
\* The line was created, and is deleted only by a deletion heard of.
Holds(g, D, K) ==
  /\ SoundDocs(D)
  /\ Added(D)
  /\ Doomed(D) => \E x \in g.gone : x[1] \in K

\* Tags travel with the wishes they were written for, and a deletion with the
\* removal of every tag whose wish it was aware of.
Reflects(g, D, K) ==
  /\ \A s \in Schemes : \A t \in D[s].add : \E w \in K : <<w, s, t>> \in g.wrote
  /\ \A w \in K, s \in Schemes, t \in Tag :
       <<w, s, t>> \in g.wrote => t \in D[s].add
  /\ \A x \in g.gone, w \in Nat, s \in Schemes, t \in Tag :
       x[1] \in K /\ w \in x[2] /\ <<w, s, t>> \in g.wrote
         => t \in D[s].rem /\ D[s].del # {}

Below(K, n) == \A w \in K : w < n

\* The ghost: numbers are given out in order.
Numbered(g) ==
  /\ Below(g.kept, g.next) /\ Below(g.server, g.next)
  /\ \A d \in Devices : Below(g.knows[d], g.next)
  /\ \A x \in g.gone : x[1] < g.next /\ Below(x[2], g.next)
  /\ \A w \in Nat, s \in Schemes, t \in Tag :
       <<w, s, t>> \in g.wrote => w \in g.kept

(***************************************************************************)
(* The inductive invariant.                                                *)
(***************************************************************************)
Types ==
  /\ server \in Documents
  /\ docs \in [Devices -> Documents]
  /\ view \in [Devices -> SUBSET Schemes]
  /\ ops \in [Devices -> Seq(Command)]
  /\ undo \in [Devices -> SUBSET Schemes]
  /\ run \in [Devices -> Run]
  /\ told \in Told
  /\ acts \in Nat /\ lost \in Nat /\ acts + lost <= MaxActs

RunFits(d) ==
  /\ Below(run[d].knows, told.next)
  /\ IF run[d].on
     THEN /\ run[d].sent <= Len(ops[d])
          /\ run[d].sent = Len(ops[d]) => Contains(run[d].docs, docs[d])
          /\ ~run[d].news => Contains(docs[d], run[d].docs)
     ELSE run[d] = NoRun

Replicas ==
  /\ Holds(told, server, told.server)
  /\ \A d \in Devices : Holds(told, docs[d], told.knows[d])
  /\ \A d \in Devices : run[d].on => Holds(told, run[d].docs, run[d].knows)

Views == \A d \in Devices : view[d] \subseteq AnyCopy(docs[d])

\* The wish of a move whose command is queued is nobody else's knowledge.
Private(d, w) ==
  /\ w \in told.kept /\ w \in told.knows[d] /\ w \notin told.server
  /\ \A e \in Devices : e # d => w \notin told.knows[e] /\ w \notin run[e].knows
  /\ \A x \in told.gone : w \notin x[2]
Pending(d) ==
  \A i \in Standing(ops[d], {"move", "delete"}) :
    \E w \in Nat : Private(d, w) /\ (i > run[d].sent => w \notin run[d].knows)

Faithful ==
  /\ Reflects(told, server, told.server)
  /\ \A d \in Devices : Reflects(told, docs[d], told.knows[d])
  /\ \A d \in Devices : run[d].on => Reflects(told, run[d].docs, run[d].knows)
  /\ \A d \in Devices : Pending(d)

MInv ==
  /\ Types /\ Numbered(told)
  /\ \A d \in Devices : RunFits(d)
  /\ Replicas /\ Views /\ NeverLost
  /\ lost = 0 => Faithful

(***************************************************************************)
(* One entry.                                                              *)
(***************************************************************************)
LEMMA TagFacts ==
  /\ Seed \in Tag
  /\ \A A \in SUBSET Tag : Later(A) \subseteq Devices \X Nat
BY DEF Seed, Tag, Later

LEMMA LaterGrows ==
  ASSUME NEW A, NEW B, IsFiniteSet(B), A \subseteq B
  PROVE  /\ IsFiniteSet(A) /\ IsFiniteSet(Later(A)) /\ IsFiniteSet(Later(B))
         /\ Cardinality(Later(A)) \in Nat /\ Cardinality(Later(B)) \in Nat
         /\ Cardinality(Later(A)) <= Cardinality(Later(B))
<1>1. IsFiniteSet(A)
  BY FS_Subset
<1>2. Later(A) \subseteq Later(B) /\ Later(B) \subseteq B
  BY DEF Later
<1>3. IsFiniteSet(Later(B))
  BY <1>2, FS_Subset
<1>4. IsFiniteSet(Later(A)) /\ Cardinality(Later(A)) <= Cardinality(Later(B))
  BY <1>2, <1>3, FS_Subset
<1>5. QED
  BY <1>1, <1>3, <1>4, FS_CardinalityType

LEMMA UnionFields ==
  ASSUME NEW e, NEW f
  PROVE  /\ Union(e, f).add = e.add \cup f.add
         /\ Union(e, f).rem = e.rem \cup f.rem
         /\ Union(e, f).del = e.del \cup f.del
BY DEF Union

\* Two documents of a scheme merge into one that holds both.
LEMMA UnionSound ==
  ASSUME NEW e, NEW f, Sound(e), Sound(f)
  PROVE  /\ Sound(Union(e, f))
         /\ Within(e, Union(e, f)) /\ Within(f, Union(e, f))
<1> DEFINE u == Union(e, f)
<1>1. u \in Entry /\ WellFormed(u) /\ Within(e, u) /\ Within(f, u)
  BY DEF Sound, Entry, WellFormed, Union, Within
<1>2. u.add = e.add \cup f.add
  BY DEF Union
<1>3. IsFiniteSet(u.add)
  BY <1>2, FS_Union DEF Sound
<1>4. \A t \in Later(u.add) : t[2] < Cardinality(Later(u.add))
  <2> SUFFICES ASSUME NEW t \in Later(u.add)
               PROVE  t[2] < Cardinality(Later(u.add))
    OBVIOUS
  <2>0. t[2] \in Nat
    BY <1>1, TagFacts DEF Entry
  <2>1. CASE t \in e.add
    <3>1. t \in Later(e.add) /\ e.add \subseteq u.add
      BY <1>2, <2>1 DEF Later
    <3>2. t[2] < Cardinality(Later(e.add))
      BY <3>1 DEF Sound
    <3>3. QED
      BY <1>3, <2>0, <3>1, <3>2, LaterGrows
  <2>2. CASE t \in f.add
    <3>1. t \in Later(f.add) /\ f.add \subseteq u.add
      BY <1>2, <2>2 DEF Later
    <3>2. t[2] < Cardinality(Later(f.add))
      BY <3>1 DEF Sound
    <3>3. QED
      BY <1>3, <2>0, <3>1, <3>2, LaterGrows
  <2>3. QED
    BY <1>2, <2>1, <2>2 DEF Later
<1>5. QED
  BY <1>1, <1>3, <1>4 DEF Sound

LEMMA UnionAbsorbs ==
  ASSUME NEW e \in Entry, NEW f \in Entry, Within(f, e)
  PROVE  Union(e, f) = e
<1>1. e = [add |-> e.add, rem |-> e.rem, mov |-> e.mov, del |-> e.del]
  BY DEF Entry
<1>2. /\ e.add \cup f.add = e.add /\ e.rem \cup f.rem = e.rem
      /\ e.mov \cup f.mov = e.mov /\ e.del \cup f.del = e.del
  BY DEF Within
<1>3. QED
  BY <1>1, <1>2 DEF Union

LEMMA UnionAbsorbed ==
  ASSUME NEW e \in Entry, NEW f \in Entry, Within(e, f)
  PROVE  Union(e, f) = f
<1>1. f = [add |-> f.add, rem |-> f.rem, mov |-> f.mov, del |-> f.del]
  BY DEF Entry
<1>2. /\ e.add \cup f.add = f.add /\ e.rem \cup f.rem = f.rem
      /\ e.mov \cup f.mov = f.mov /\ e.del \cup f.del = f.del
  BY DEF Within
<1>3. QED
  BY <1>1, <1>2 DEF Union

\* A line a document shows is live in it, with all that was there before.
LEMMA PresentSound ==
  ASSUME NEW e, NEW d \in Devices, Sound(e)
  PROVE  /\ Sound(Present(e, d)) /\ Within(e, Present(e, d))
         /\ Live(Present(e, d))
         /\ Present(e, d).rem = e.rem /\ Present(e, d).del = e.del
         /\ Live(e) => Present(e, d) = e
<1> USE DEF Sound, Entry, WellFormed
<1>1. CASE e = Absent
  <2>1. Present(e, d) = [add |-> {Seed}, rem |-> {}, mov |-> {}, del |-> {}]
    BY <1>1 DEF Present, Absent
  <2>2. Later({Seed}) = {} /\ IsFiniteSet({Seed})
    BY FS_Singleton DEF Later
  <2>3. ~Live(e) /\ e.rem = {} /\ e.del = {} /\ e.add = {} /\ e.mov = {}
    BY <1>1 DEF Live, Active, Absent
  <2>4. QED
    BY <2>1, <2>2, <2>3, TagFacts DEF Within, Live, Active
<1>2. CASE e # Absent /\ Live(e)
  BY <1>2 DEF Present, Within
<1>3. CASE e # Absent /\ ~Live(e)
  <2> DEFINE n == Cardinality(Later(e.add))
             x == <<d, n>>
             p == Present(e, d)
  <2>1. p = [e EXCEPT !.add = @ \cup {x}]
    BY <1>3 DEF Present, Later
  <2>2. p = [add |-> e.add \cup {x}, rem |-> e.rem, mov |-> e.mov, del |-> e.del]
    BY <2>1
  <2>3. IsFiniteSet(Later(e.add)) /\ n \in Nat
    BY LaterGrows
  <2>4. x \in Tag /\ x # Seed
    BY <2>3, DevicesAssumption DEF Tag, Seed
  <2>5. x \notin e.add
    <3>1. SUFFICES ASSUME x \in e.add PROVE FALSE
      OBVIOUS
    <3>2. x \in Later(e.add)
      BY <2>4, <3>1 DEF Later
    <3>3. x[2] < n
      BY <3>2
    <3>4. QED
      BY <2>3, <3>3
  <2>6. Later(p.add) = Later(e.add) \cup {x}
    BY <2>2, <2>4 DEF Later
  <2>7. x \notin Later(e.add)
    BY <2>5 DEF Later
  <2>8. Cardinality(Later(p.add)) = n + 1
    BY <2>3, <2>6, <2>7, FS_AddElement
  <2>9. IsFiniteSet(p.add)
    <3>1. p.add = e.add \cup {x}
      BY <2>2
    <3>2. IsFiniteSet(e.add)
      OBVIOUS
    <3>3. IsFiniteSet(e.add \cup {x})
      BY <3>2, FS_Singleton, FS_Union
    <3>4. QED
      BY <3>1, <3>3
  <2>10. \A t \in Later(p.add) : t[2] < Cardinality(Later(p.add))
    <3> SUFFICES ASSUME NEW t \in Later(p.add) PROVE t[2] < n + 1
      BY <2>8
    <3>1. CASE t = x
      BY <2>3, <3>1
    <3>2. CASE t \in Later(e.add)
      <4>1. t[2] < n /\ t[2] \in Nat
        BY <3>2, TagFacts
      <4>2. QED
        BY <2>3, <4>1
    <3>3. QED
      BY <2>6, <3>1, <3>2
  <2>11. p \in Entry /\ WellFormed(p) /\ Within(e, p)
    BY <2>2, <2>4 DEF Within
  <2>12. x \in Active(p)
    BY <2>2, <2>5 DEF Active
  <2>13. p.rem = e.rem /\ p.del = e.del
    BY <2>2
  <2>14. Sound(p)
    <3> HIDE DEF p
    <3>1. QED
      BY <2>9, <2>10, <2>11
  <2>15. Live(p)
    BY <2>12 DEF Live
  <2>16. QED
    BY <1>3, <2>11, <2>13, <2>14, <2>15
<1>4. QED
  BY <1>1, <1>2, <1>3

\* Taking the line out of a document: what is removed, and why.
LEMMA SweptSound ==
  ASSUME NEW e, NEW s, NEW deleted, NEW moved, Sound(e)
  PROVE  LET r == Swept(e, s, deleted, moved) IN
         /\ Sound(r) /\ Within(e, r) /\ r.add = e.add
         /\ s \in moved \/ s \notin deleted => r.del = e.del
         /\ s \in deleted /\ s \notin moved /\ (Live(e) \/ e.rem # {})
              => r.add \subseteq r.rem /\ r.del # {}
<1> DEFINE r == Swept(e, s, deleted, moved)
<1> USE DEF Sound, Entry, WellFormed
<1>1. CASE s \notin deleted
  BY <1>1 DEF Swept, Within
<1>2. CASE s \in deleted /\ Live(e) /\ s \in moved
  <2>1. r = [e EXCEPT !.rem = @ \cup Active(e), !.mov = @ \cup Active(e),
                      !.del = @]
    BY <1>2 DEF Swept, TakeOut
  <2>2. r = [add |-> e.add, rem |-> e.rem \cup Active(e),
             mov |-> e.mov \cup Active(e), del |-> e.del]
    BY <2>1
  <2>3. Active(e) \subseteq e.add
    BY DEF Active
  <2>4. QED
    BY <1>2, <2>2, <2>3 DEF Within
<1>3. CASE s \in deleted /\ Live(e) /\ s \notin moved
  <2>1. r = [e EXCEPT !.rem = @ \cup Active(e), !.mov = @,
                      !.del = @ \cup Active(e)]
    BY <1>3 DEF Swept, TakeOut
  <2>2. r = [add |-> e.add, rem |-> e.rem \cup Active(e),
             mov |-> e.mov, del |-> e.del \cup Active(e)]
    BY <2>1
  <2>3. Active(e) \subseteq e.add /\ e.add \subseteq e.rem \cup Active(e)
    BY DEF Active
  <2>4. Active(e) # {}
    BY <1>3 DEF Live
  <2>5. QED
    BY <1>3, <2>2, <2>3, <2>4 DEF Within
<1>4. CASE s \in deleted /\ ~Live(e) /\ s \notin moved
  <2>1. r = [e EXCEPT !.del = @ \cup e.rem]
    BY <1>4 DEF Swept, Harden
  <2>2. r = [add |-> e.add, rem |-> e.rem, mov |-> e.mov, del |-> e.del \cup e.rem]
    BY <2>1
  <2>3. e.add \subseteq e.rem
    BY <1>4 DEF Live, Active
  <2>4. QED
    BY <1>4, <2>2, <2>3 DEF Within
<1>5. CASE s \in deleted /\ ~Live(e) /\ s \in moved
  BY <1>5 DEF Swept, Within
<1>6. QED
  BY <1>1, <1>2, <1>3, <1>4, <1>5

(***************************************************************************)
(* A replica's documents.                                                  *)
(***************************************************************************)
LEMMA WithinTransitive ==
  ASSUME NEW D, NEW E, NEW F, Contains(E, D), Contains(F, E)
  PROVE  Contains(F, D)
BY DEF Contains, Within

LEMMA JoinSound ==
  ASSUME NEW D, NEW E, SoundDocs(D), SoundDocs(E)
  PROVE  /\ SoundDocs(Join(D, E))
         /\ Contains(Join(D, E), D) /\ Contains(Join(D, E), E)
         /\ \A s \in Schemes : Join(D, E)[s] = Union(D[s], E[s])
<1>1. \A s \in Schemes : Join(D, E)[s] = Union(D[s], E[s])
  BY DEF Join
<1>2. \A s \in Schemes : /\ Sound(Union(D[s], E[s]))
                        /\ Within(D[s], Union(D[s], E[s]))
                        /\ Within(E[s], Union(D[s], E[s]))
  BY UnionSound DEF SoundDocs
<1>3. \A s \in Schemes : Union(D[s], E[s]) \in Entry
  BY <1>2 DEF Sound
<1>4. Join(D, E) \in Documents
  BY <1>3 DEF Join, Documents
<1>5. QED
  BY <1>1, <1>2, <1>4 DEF SoundDocs, Contains

LEMMA JoinAbsorbs ==
  ASSUME NEW D \in Documents, NEW E \in Documents
  PROVE  /\ Contains(D, E) => Join(D, E) = D
         /\ Contains(E, D) => Join(D, E) = E
<1>1. ASSUME Contains(D, E) PROVE Join(D, E) = D
  <2>1. \A s \in Schemes : Union(D[s], E[s]) = D[s]
    BY <1>1, UnionAbsorbs DEF Contains, Documents
  <2>2. QED
    BY <2>1 DEF Join, Documents
<1>2. ASSUME Contains(E, D) PROVE Join(D, E) = E
  <2>1. \A s \in Schemes : Union(D[s], E[s]) = E[s]
    BY <1>2, UnionAbsorbed DEF Contains, Documents
  <2>2. QED
    BY <2>1 DEF Join, Documents
<1>3. QED
  BY <1>1, <1>2

\* What a write leaves in each document: one shown is live; one that is not keeps
\* its tags and, unless it is deleted outright, why they were removed.
LEMMA WriteSound ==
  ASSUME NEW D, NEW d \in Devices, NEW shown, NEW touched, NEW deleted, NEW moved,
         SoundDocs(D)
  PROVE  LET W == Write(D, d, shown, touched, deleted, moved) IN
         /\ SoundDocs(W) /\ Contains(W, D)
         /\ \A s \in Schemes : s \notin touched => W[s] = D[s]
         /\ \A s \in Schemes : s \in touched /\ s \in shown
              => Live(W[s]) /\ W[s].rem = D[s].rem /\ (Live(D[s]) => W[s] = D[s])
         /\ \A s \in Schemes : s \notin touched \/ s \notin shown \/ Live(D[s])
              => W[s].add = D[s].add
         /\ \A s \in Schemes : s \in moved \/ s \notin deleted \/ s \in shown
              => W[s].del = D[s].del
         /\ \A s \in Schemes :
              s \in touched /\ s \notin shown /\ s \in deleted /\ s \notin moved
                /\ (Live(D[s]) \/ D[s].rem # {})
              => W[s].add \subseteq W[s].rem /\ W[s].del # {}
<1> DEFINE W == Write(D, d, shown, touched, deleted, moved)
<1>1. \A s \in Schemes :
        W[s] = IF s \notin touched THEN D[s]
               ELSE IF s \in shown THEN Present(D[s], d)
               ELSE Swept(D[s], s, deleted, moved)
  BY DEF Write
<1>2. W = [s \in Schemes |-> W[s]]
  BY DEF Write
<1>3. \A s \in Schemes : Sound(D[s])
  BY DEF SoundDocs
<1>4. \A s \in Schemes : s \notin touched => W[s] = D[s]
  BY <1>1
<1>5. \A s \in Schemes : s \in touched /\ s \in shown =>
        /\ Sound(W[s]) /\ Within(D[s], W[s]) /\ Live(W[s])
        /\ W[s].rem = D[s].rem /\ W[s].del = D[s].del
        /\ Live(D[s]) => W[s] = D[s]
  BY <1>1, <1>3, PresentSound
<1>6. \A s \in Schemes : s \in touched /\ s \notin shown =>
        /\ Sound(W[s]) /\ Within(D[s], W[s]) /\ W[s].add = D[s].add
        /\ s \in moved \/ s \notin deleted => W[s].del = D[s].del
        /\ s \in deleted /\ s \notin moved /\ (Live(D[s]) \/ D[s].rem # {})
             => W[s].add \subseteq W[s].rem /\ W[s].del # {}
  BY <1>1, <1>3, SweptSound
<1>7. \A s \in Schemes : Sound(W[s]) /\ Within(D[s], W[s])
  BY <1>3, <1>4, <1>5, <1>6 DEF Within
<1>8. W \in Documents
  BY <1>2, <1>7 DEF Documents, Sound
<1>9. SoundDocs(W) /\ Contains(W, D)
  BY <1>7, <1>8 DEF SoundDocs, Contains
<1>10. QED
  BY <1>4, <1>5, <1>6, <1>9

(***************************************************************************)
(* What is shown.                                                          *)
(***************************************************************************)
LEMMA MinIsLeast ==
  ASSUME NEW S \in SUBSET Schemes, S # {}
  PROVE  Min(S) \in S
<1>1. PICK x \in S : \A y \in S : ~(<<y, x>> \in OpToRel(<, Nat))
  BY SchemesAssumption, NatLessThanWellFounded, WFMin
<1>2. OpToRel(<, Nat) = {p \in Nat \X Nat : p[1] < p[2]}
  BY Zenon DEF OpToRel
<1>3. \A y \in S : <<y, x>> \notin {p \in Nat \X Nat : p[1] < p[2]}
  BY <1>1, <1>2, Zenon
<1>4. ASSUME NEW y \in S PROVE x <= y
  <2>1. x \in Nat /\ y \in Nat
    BY SchemesAssumption
  <2>2. <<y, x>> \in Nat \X Nat
    BY <2>1
  <2>3. ~(<<y, x>>[1] < <<y, x>>[2])
    BY <1>3, <2>2
  <2>4. QED
    BY <2>1, <2>3
<1>5. QED
  BY <1>1, <1>4 DEF Min

LEMMA ShownFacts ==
  ASSUME NEW D
  PROVE  /\ Shown(D) \subseteq AnyCopy(D) /\ AnyCopy(D) \subseteq Schemes
         /\ Hidden(D) \subseteq Schemes
         /\ AnyCopy(D) # {} => Shown(D) # {}
         /\ \A s \in Shown(D) : s \notin Hidden(D)
<1>1. Copies(D) \subseteq AnyCopy(D) /\ AnyCopy(D) \subseteq Schemes
  BY DEF Copies, AnyCopy
<1>2. Restored(D) \subseteq AnyCopy(D) /\ (AnyCopy(D) # {} => Restored(D) # {})
  BY <1>1, MinIsLeast DEF Restored
<1>3. Shown(D) \subseteq Restored(D) /\ (Restored(D) # {} => Shown(D) # {})
  BY <1>1, <1>2, MinIsLeast DEF Shown
<1>4. QED
  BY <1>1, <1>2, <1>3 DEF Hidden

LEMMA SameCopy ==
  ASSUME NEW D, NEW E, NEW s \in Schemes, E[s] = D[s], s \in AnyCopy(D)
  PROVE  s \in AnyCopy(E)
BY DEF AnyCopy, Copies

LEMMA LiveCopy ==
  ASSUME NEW D, NEW s \in Schemes, Live(D[s])
  PROVE  s \in AnyCopy(D)
BY DEF AnyCopy, Copies

\* A line no document says was deleted is in one of them, or was only moved away.
LEMMA SomeCopy ==
  ASSUME NEW D, SoundDocs(D), Added(D), ~Doomed(D)
  PROVE  AnyCopy(D) # {}
<1>1. PICK s \in Schemes : D[s].add # {}
  BY DEF Added
<1>2. Sound(D[s]) /\ D[s].del = {}
  BY DEF SoundDocs, Doomed
<1>3. CASE Live(D[s])
  BY <1>3, LiveCopy
<1>4. CASE ~Live(D[s])
  <2>1. D[s].add \subseteq D[s].rem
    BY <1>4 DEF Live, Active
  <2>2. Placement(D[s])
    BY <1>1, <1>2, <1>4, <2>1 DEF Placement, Sound, WellFormed
  <2>3. QED
    BY <2>2 DEF AnyCopy
<1>5. QED
  BY <1>3, <1>4

\* What removing the copies a device does not show leaves alone.
LEMMA TidySound ==
  ASSUME NEW D, NEW d \in Devices, SoundDocs(D)
  PROVE  /\ SoundDocs(Tidy(D, d)) /\ Contains(Tidy(D, d), D)
         /\ \A s \in Schemes : Tidy(D, d)[s].add = D[s].add
         /\ \A s \in Schemes : Tidy(D, d)[s].del = D[s].del
         /\ Shown(D) \subseteq AnyCopy(Tidy(D, d))
<1> DEFINE W == Tidy(D, d)
<1>1. W = Write(D, d, Shown(D), Hidden(D), Hidden(D), Hidden(D))
  BY DEF Tidy
<1>2. \A s \in Schemes : s \notin Hidden(D) \/ s \notin Shown(D)
  BY ShownFacts
<1>3. /\ SoundDocs(W) /\ Contains(W, D)
      /\ \A s \in Schemes : s \notin Hidden(D) => W[s] = D[s]
      /\ \A s \in Schemes : s \notin Hidden(D) \/ s \notin Shown(D) => W[s].add = D[s].add
      /\ \A s \in Schemes : s \in Hidden(D) \/ s \notin Hidden(D) => W[s].del = D[s].del
  BY <1>1, WriteSound
<1>4. \A s \in Shown(D) : s \in Schemes /\ s \in AnyCopy(D) /\ W[s] = D[s]
  BY <1>3, ShownFacts
<1>5. Shown(D) \subseteq AnyCopy(W)
  BY <1>4, SameCopy
<1>6. QED
  BY <1>2, <1>3, <1>5

LEMMA AfterMoveSound ==
  ASSUME NEW D, NEW d \in Devices, NEW shown \in SUBSET Schemes,
         NEW from \in Schemes, NEW to \in Schemes,
         SoundDocs(D), to \in shown, from \notin shown,
         \A s \in shown : s # to => s \in AnyCopy(D)
  PROVE  LET r == AfterMove(D, d, shown, from, to) IN
         /\ SoundDocs(r.docs) /\ Contains(r.docs, D)
         /\ \A s \in Schemes : r.docs[s].del = D[s].del
         /\ r.view \subseteq AnyCopy(r.docs) /\ r.view # {}
         /\ AnyCopy(r.docs) # {}
<1> DEFINE W == Write(D, d, shown, {from, to}, {from}, {from})
           r == AfterMove(D, d, shown, from, to)
<1>1. /\ SoundDocs(W) /\ Contains(W, D)
      /\ \A s \in Schemes : s \notin {from, to} => W[s] = D[s]
      /\ \A s \in Schemes : s \in {from, to} /\ s \in shown => Live(W[s])
      /\ \A s \in Schemes : s \in {from} \/ s \notin {from} \/ s \in shown
           => W[s].del = D[s].del
  BY WriteSound
<1>2. to \in AnyCopy(W)
  BY <1>1, LiveCopy
<1>3. \A s \in shown : s # to => s \in Schemes /\ s \in AnyCopy(D) /\ W[s] = D[s]
  BY <1>1
<1>4. shown \subseteq AnyCopy(W)
  BY <1>2, <1>3, SameCopy
<1>5. Shown(W) # {}
  BY <1>2, ShownFacts
<1>6. CASE Cardinality(Copies(W)) > 1
  <2>1. r.docs = Tidy(W, d) /\ r.view = Shown(W)
    BY <1>6 DEF AfterMove
  <2>2. /\ SoundDocs(Tidy(W, d)) /\ Contains(Tidy(W, d), W)
        /\ \A s \in Schemes : Tidy(W, d)[s].del = W[s].del
        /\ Shown(W) \subseteq AnyCopy(Tidy(W, d))
    BY <1>1, TidySound
  <2>3. Contains(Tidy(W, d), D)
    BY <1>1, <2>2, WithinTransitive
  <2>4. QED
    BY <1>1, <1>5, <2>1, <2>2, <2>3
<1>7. CASE ~(Cardinality(Copies(W)) > 1)
  <2>1. r.docs = W /\ r.view = shown
    BY <1>7 DEF AfterMove
  <2>2. QED
    BY <1>1, <1>4, <2>1
<1>8. QED
  BY <1>6, <1>7

(***************************************************************************)
(* What a replica holds, under the steps that change it.                   *)
(***************************************************************************)
\* A write that deletes nothing.
LEMMA HoldsMore ==
  ASSUME NEW g, NEW h, NEW D, NEW E, NEW K, NEW L,
         Holds(g, D, K), SoundDocs(E), Contains(E, D),
         \A s \in Schemes : E[s].del = D[s].del,
         K \subseteq L, g.gone \subseteq h.gone
  PROVE  Holds(h, E, L)
<1>1. Added(E)
  BY DEF Holds, Added, Contains, Within
<1>2. Doomed(E) => Doomed(D)
  BY DEF Doomed
<1>3. QED
  BY <1>1, <1>2 DEF Holds

LEMMA HoldsJoin ==
  ASSUME NEW g, NEW D, NEW E, NEW K, NEW L, Holds(g, D, K), Holds(g, E, L)
  PROVE  Holds(g, Join(D, E), K \cup L)
<1>1. /\ SoundDocs(Join(D, E)) /\ Contains(Join(D, E), D)
      /\ \A s \in Schemes : Join(D, E)[s] = Union(D[s], E[s])
  BY JoinSound DEF Holds
<1>2. Added(Join(D, E))
  BY <1>1 DEF Holds, Added, Contains, Within
<1>3. Doomed(Join(D, E)) => Doomed(D) \/ Doomed(E)
  <2>1. \A s \in Schemes : Join(D, E)[s].del = D[s].del \cup E[s].del
    BY <1>1, UnionFields
  <2>2. QED
    BY <2>1 DEF Doomed
<1>4. QED
  BY <1>1, <1>2, <1>3 DEF Holds

LEMMA ReflectsJoin ==
  ASSUME NEW g, NEW D, NEW E, NEW K, NEW L, SoundDocs(D), SoundDocs(E),
         Reflects(g, D, K), Reflects(g, E, L)
  PROVE  Reflects(g, Join(D, E), K \cup L)
<1> DEFINE J == Join(D, E)
<1>1. /\ \A s \in Schemes : J[s] = Union(D[s], E[s])
      /\ Contains(J, D) /\ Contains(J, E)
  BY JoinSound
<1>2. \A s \in Schemes : J[s].add = D[s].add \cup E[s].add
  BY <1>1, UnionFields
<1>3. \A s \in Schemes : \A t \in J[s].add : \E w \in K \cup L : <<w, s, t>> \in g.wrote
  BY <1>2 DEF Reflects
<1>4. \A w \in K \cup L, s \in Schemes, t \in Tag : <<w, s, t>> \in g.wrote => t \in J[s].add
  BY <1>2 DEF Reflects
<1>5. \A x \in g.gone, w \in Nat, s \in Schemes, t \in Tag :
        x[1] \in K \cup L /\ w \in x[2] /\ <<w, s, t>> \in g.wrote
          => t \in J[s].rem /\ J[s].del # {}
  BY <1>1 DEF Reflects, Contains, Within
<1>6. QED
  BY <1>3, <1>4, <1>5 DEF Reflects

\* A write that adds no tag.
LEMMA ReflectsMore ==
  ASSUME NEW g, NEW D, NEW E, NEW K, Reflects(g, D, K), Contains(E, D),
         \A s \in Schemes : E[s].add = D[s].add
  PROVE  Reflects(g, E, K)
BY DEF Reflects, Contains, Within

LEMMA WroteTags ==
  ASSUME NEW n, NEW D, NEW E
  PROVE  \A w, s, t : <<w, s, t>> \in Wrote(n, D, E)
                        <=> w = n /\ s \in Schemes /\ t \in E[s].add \ D[s].add
<1> SUFFICES ASSUME NEW w, NEW s, NEW t
             PROVE  <<w, s, t>> \in Wrote(n, D, E)
                      <=> w = n /\ s \in Schemes /\ t \in E[s].add \ D[s].add
  OBVIOUS
<1> DEFINE T(c) == {n} \X {c} \X (E[c].add \ D[c].add)
<1>1. \A c : <<w, s, t>> \in T(c) <=> w = n /\ s = c /\ t \in E[c].add \ D[c].add
  OBVIOUS
<1>2. <<w, s, t>> \in UNION {T(c) : c \in Schemes}
        <=> \E c \in Schemes : <<w, s, t>> \in T(c)
  OBVIOUS
<1>3. QED
  BY <1>1, <1>2 DEF Wrote

(***************************************************************************)
(* What a step makes known: the ghost goes from g to h, device d hears of  *)
(* N, which is nothing or a new wish, tags W are written for it, and G are *)
(* the deletions.                                                          *)
(***************************************************************************)
Tells(g, h, d, N, W, G) ==
  /\ h \in Told
  /\ \/ N = {} /\ h.next = g.next
     \/ N = {g.next} /\ h.next = g.next + 1
  /\ g.kept \subseteq h.kept /\ h.kept \subseteq g.kept \cup N
  /\ h.gone = g.gone \cup G
  /\ h.wrote = g.wrote \cup W
  /\ h.knows = [g.knows EXCEPT ![d] = @ \cup N]
  /\ h.server = g.server
  /\ \A w, s, t : <<w, s, t>> \in W => w \in N /\ w \in h.kept
  /\ \A x \in G : x[1] \in N /\ (x[2] = {} \/ x[2] = g.knows[d])

LEMMA TellsNumbered ==
  ASSUME NEW g \in Told, NEW h, NEW d \in Devices, NEW N, NEW W, NEW G,
         Numbered(g), Tells(g, h, d, N, W, G)
  PROVE  /\ Numbered(h)
         /\ h.next \in Nat /\ g.next <= h.next
         /\ \A K \in SUBSET Nat : Below(K, g.next) => Below(K, h.next)
<1>1. g.next \in Nat /\ h.next \in Nat /\ h.next >= g.next
  BY DEF Tells, Told
<1>2. \A w \in N : w = g.next /\ w < h.next
  BY <1>1 DEF Tells
<1>3. \A K \in SUBSET Nat : Below(K, g.next) => Below(K \cup N, h.next)
  BY <1>1, <1>2 DEF Below
<1>4. /\ g.kept \in SUBSET Nat /\ g.server \in SUBSET Nat
      /\ \A e \in Devices : g.knows[e] \in SUBSET Nat
      /\ \A x \in g.gone : x[1] \in Nat /\ x[2] \in SUBSET Nat
  BY DEF Told
<1>5. Below(h.kept, h.next) /\ Below(h.server, h.next)
  BY <1>3, <1>4 DEF Tells, Numbered, Below
<1>6. \A e \in Devices : Below(h.knows[e], h.next)
  <2> SUFFICES ASSUME NEW e \in Devices PROVE Below(h.knows[e], h.next)
    OBVIOUS
  <2>1. Below(g.knows[e], g.next)
    BY DEF Numbered
  <2>2. h.knows[e] \subseteq g.knows[e] \cup N
    BY DEF Tells, Told
  <2>3. QED
    BY <1>3, <1>4, <2>1, <2>2 DEF Below
<1>7. \A x \in h.gone : x[1] < h.next /\ Below(x[2], h.next)
  <2> SUFFICES ASSUME NEW x \in h.gone PROVE x[1] < h.next /\ Below(x[2], h.next)
    OBVIOUS
  <2>1. CASE x \in g.gone
    BY <1>1, <1>3, <1>4, <2>1 DEF Numbered, Below
  <2>2. CASE x \in G
    <3>1. x[1] < h.next /\ (x[2] = {} \/ x[2] = g.knows[d])
      BY <1>2, <2>2 DEF Tells
    <3>2. Below(g.knows[d], h.next)
      BY <1>3, <1>4 DEF Numbered, Below
    <3>3. Below({}, h.next)
      BY DEF Below
    <3>4. QED
      BY <3>1, <3>2, <3>3
  <2>3. QED
    BY <2>1, <2>2 DEF Tells
<1>8. \A w \in Nat, s \in Schemes, t \in Tag : <<w, s, t>> \in h.wrote => w \in h.kept
  BY DEF Tells, Numbered
<1>9. \A K \in SUBSET Nat : Below(K, g.next) => Below(K, h.next)
  BY <1>3 DEF Below
<1>10. QED
  BY <1>1, <1>5, <1>6, <1>7, <1>8, <1>9 DEF Numbered

\* What is new to the ghost is unknown to a replica that did not hear of it.
LEMMA ReflectsOthers ==
  ASSUME NEW g \in Told, NEW h, NEW d \in Devices, NEW N, NEW W, NEW G, NEW D,
         NEW K \in SUBSET Nat, Numbered(g), Tells(g, h, d, N, W, G),
         Reflects(g, D, K), Below(K, g.next)
  PROVE  Reflects(h, D, K)
<1>1. \A w \in N : w \notin K /\ \A x \in g.gone : w \notin x[2]
  BY DEF Below, Numbered, Told, Tells
<1>2. \A s \in Schemes : \A t \in D[s].add : \E w \in K : <<w, s, t>> \in h.wrote
  BY DEF Reflects, Tells
<1>3. \A w \in K, s \in Schemes, t \in Tag : <<w, s, t>> \in h.wrote => t \in D[s].add
  BY <1>1 DEF Reflects, Tells
<1>4. ASSUME NEW x \in h.gone, NEW w \in Nat, NEW s \in Schemes, NEW t \in Tag,
             x[1] \in K, w \in x[2], <<w, s, t>> \in h.wrote
      PROVE  t \in D[s].rem /\ D[s].del # {}
  <2>1. x \in g.gone
    BY <1>1, <1>4 DEF Tells
  <2>2. <<w, s, t>> \in g.wrote
    BY <1>1, <1>4, <2>1 DEF Tells
  <2>3. QED
    BY <1>4, <2>1, <2>2 DEF Reflects
<1>5. QED
  BY <1>2, <1>3, <1>4 DEF Reflects

\* A wish made by a device reaches its own documents with the tags it wrote.
LEMMA ReflectsOwn ==
  ASSUME NEW g \in Told, NEW h, NEW d \in Devices, NEW N, NEW W, NEW G, NEW D, NEW E,
         NEW K \in SUBSET Nat, Numbered(g), Tells(g, h, d, N, W, G),
         Reflects(g, D, K), Below(K, g.next), Contains(E, D),
         \A s \in Schemes : E[s].add # D[s].add => N # {} /\ W = Wrote(g.next, D, E),
         W = {} \/ W = Wrote(g.next, D, E),
         \A x \in G : \A w \in Nat, s \in Schemes, t \in Tag :
           w \in x[2] /\ <<w, s, t>> \in g.wrote => t \in E[s].rem /\ E[s].del # {}
  PROVE  Reflects(h, E, K \cup N)
<1> DEFINE n == g.next
<1>1. \A w, s, t : <<w, s, t>> \in Wrote(n, D, E)
                     <=> w = n /\ s \in Schemes /\ t \in E[s].add \ D[s].add
  <2> HIDE DEF n
  <2>1. QED
    BY WroteTags, ZenonT(30)
<1>2. /\ n \notin K /\ \A x \in g.gone : n \notin x[2] /\ x[1] # n
      /\ n \notin g.knows[d] /\ \A w \in N : w = n
      /\ \A w \in Nat, s \in Schemes, t \in Tag : <<w, s, t>> \in g.wrote => w # n
  BY DEF Below, Numbered, Told, Tells
<1>3. ASSUME NEW s \in Schemes, NEW t \in E[s].add
      PROVE  \E w \in K \cup N : <<w, s, t>> \in h.wrote
  <2>1. CASE t \in D[s].add
    BY <2>1 DEF Reflects, Tells
  <2>2. CASE t \notin D[s].add
    <3>1. N = {n} /\ W = Wrote(n, D, E)
      BY <2>2 DEF Tells
    <3>2. <<n, s, t>> \in W
      BY <1>1, <2>2, <3>1
    <3>3. QED
      BY <3>1, <3>2 DEF Tells
  <2>3. QED
    BY <2>1, <2>2
<1>4. ASSUME NEW w \in K \cup N, NEW s \in Schemes, NEW t \in Tag,
             <<w, s, t>> \in h.wrote
      PROVE  t \in E[s].add
  <2>1. CASE <<w, s, t>> \in W
    BY <1>1, <2>1
  <2>2. CASE <<w, s, t>> \in g.wrote
    <3>1. w \in K
      BY <1>2, <1>4, <2>2 DEF Told
    <3>2. t \in D[s].add
      BY <2>2, <3>1 DEF Reflects
    <3>3. QED
      BY <3>2 DEF Contains, Within
  <2>3. QED
    BY <1>4, <2>1, <2>2 DEF Tells
<1>5. ASSUME NEW x \in h.gone, NEW w \in Nat, NEW s \in Schemes, NEW t \in Tag,
             x[1] \in K \cup N, w \in x[2], <<w, s, t>> \in h.wrote
      PROVE  t \in E[s].rem /\ E[s].del # {}
  <2>1. w # n
    BY <1>2, <1>5 DEF Tells
  <2>2. <<w, s, t>> \in g.wrote
    BY <1>1, <1>5, <2>1 DEF Tells
  <2>3. CASE x \in G
    BY <1>5, <2>2, <2>3
  <2>4. CASE x \in g.gone
    <3>1. x[1] \in K
      BY <1>2, <1>5, <2>4
    <3>2. t \in D[s].rem /\ D[s].del # {}
      BY <1>5, <2>2, <2>4, <3>1 DEF Reflects
    <3>3. QED
      BY <3>2 DEF Contains, Within
  <2>5. QED
    BY <1>5, <2>3, <2>4 DEF Tells
<1>6. QED
  BY <1>3, <1>4, <1>5 DEF Reflects

(***************************************************************************)
(* The queued moves.                                                       *)
(***************************************************************************)
LEMMA StandingAppend ==
  ASSUME NEW q \in Seq(Command), NEW op \in Command, NEW after,
         NEW i \in Standing(Append(q, op), after)
  PROVE  \/ i = Len(q) + 1 /\ op.kind = "move"
         \/ i \in Standing(q, after) /\ op.kind \notin after
<1> DEFINE r == Append(q, op)
<1>1. /\ DOMAIN r = 1..(Len(q) + 1) /\ DOMAIN q = 1..Len(q) /\ Len(q) \in Nat
      /\ \A j \in DOMAIN q : r[j] = q[j]
      /\ r[Len(q) + 1] = op
  OBVIOUS
<1>2. /\ i \in DOMAIN r /\ r[i].kind = "move"
      /\ \A j \in DOMAIN r : j > i => r[j].kind \notin after
  BY DEF Standing
<1>3. CASE i = Len(q) + 1
  BY <1>1, <1>2, <1>3
<1>4. CASE i \in DOMAIN q
  <2>1. op.kind \notin after
    BY <1>1, <1>2, <1>4
  <2>2. \A j \in DOMAIN q : j > i => q[j].kind \notin after
    BY <1>1, <1>2
  <2>3. QED
    BY <1>1, <1>2, <1>4, <2>1, <2>2 DEF Standing
<1>5. QED
  BY <1>1, <1>2, <1>3, <1>4

LEMMA StandingLanded ==
  ASSUME NEW q \in Seq(Command), NEW r \in Seq(Command), NEW n \in 0..Len(q), NEW after,
         NEW i \in Standing(Unsent(q, n) \o r, after)
  PROVE  \/ i + n \in Standing(q, after) /\ i \in Nat \ {0}
         \/ \E j \in DOMAIN r : r[j].kind = "move"
<1> DEFINE u == Unsent(q, n)
           k == Len(q) - n
<1>1. /\ u \in Seq(Command) /\ Len(u) = k /\ k \in Nat
      /\ \A j \in 1..k : u[j] = q[j + n]
  BY DEF Unsent
<1>2. /\ DOMAIN (u \o r) = 1..(k + Len(r))
      /\ \A j \in 1..k : (u \o r)[j] = u[j]
      /\ \A j \in (k + 1)..(k + Len(r)) : (u \o r)[j] = r[j - k]
  <2> HIDE DEF u
  <2> HIDE DEF k
  <2>1. u \in Seq(Command) /\ r \in Seq(Command) /\ Len(u) = k
    BY <1>1
  <2>2. /\ Len(u \o r) = Len(u) + Len(r) /\ u \o r \in Seq(Command)
        /\ \A j \in 1..(Len(u) + Len(r)) :
             (u \o r)[j] = IF j <= Len(u) THEN u[j] ELSE r[j - Len(u)]
    BY <2>1, ConcatProperties, ZenonT(30)
  <2>3. Len(r) \in Nat /\ Len(u) \in Nat /\ DOMAIN (u \o r) = 1..Len(u \o r)
    BY <2>1, <2>2
  <2>4. QED
    BY <2>1, <2>2, <2>3
<1>3. /\ i \in 1..(k + Len(r)) /\ (u \o r)[i].kind = "move"
      /\ \A j \in 1..(k + Len(r)) : j > i => (u \o r)[j].kind \notin after
  BY <1>2 DEF Standing
<1>4. CASE i \in 1..k
  <2>1. i + n \in DOMAIN q /\ q[i + n].kind = "move"
    BY <1>1, <1>2, <1>3, <1>4
  <2>2. ASSUME NEW j \in DOMAIN q, j > i + n PROVE q[j].kind \notin after
    <3>1. j - n \in 1..k /\ j - n > i /\ (j - n) + n = j
      BY <1>4, <2>2
    <3>2. (u \o r)[j - n] = q[j]
      BY <1>1, <1>2, <3>1
    <3>3. j - n \in 1..(k + Len(r))
      BY <1>1, <3>1
    <3>4. QED
      BY <1>3, <3>1, <3>2, <3>3
  <2>3. QED
    BY <1>4, <2>1, <2>2 DEF Standing
<1>5. CASE i \in (k + 1)..(k + Len(r))
  <2>1. i - k \in DOMAIN r /\ (u \o r)[i] = r[i - k]
    BY <1>1, <1>2, <1>5
  <2>2. QED
    BY <1>3, <2>1
<1>6. QED
  BY <1>1, <1>3, <1>4, <1>5

(***************************************************************************)
(* What a user does.                                                       *)
(***************************************************************************)
LEMMA WroteType ==
  ASSUME NEW n \in Nat, NEW D, NEW E \in Documents
  PROVE  Wrote(n, D, E) \in SUBSET (Nat \X Schemes \X Tag)
<1>1. \A s \in Schemes : E[s].add \subseteq Tag
  BY DEF Documents, Entry
<1>2. \A s \in Schemes : {n} \X {s} \X (E[s].add \ D[s].add) \subseteq Nat \X Schemes \X Tag
  BY <1>1
<1>3. QED
  BY <1>2 DEF Wrote

LEMMA KeepTells ==
  ASSUME told \in Told, NEW d \in Devices, docs'[d] \in Documents, Keep(d)
  PROVE  /\ Tells(told, told', d, {told.next}, Wrote(told.next, docs[d], docs'[d]), {})
         /\ told.next \in told'.kept
<1> DEFINE n == told.next
           W == Wrote(n, docs[d], docs'[d])
<1>1. /\ told.next \in Nat /\ told.kept \in SUBSET Nat
      /\ told.gone \in SUBSET (Nat \X SUBSET Nat)
      /\ told.wrote \in SUBSET (Nat \X Schemes \X Tag)
      /\ told.knows \in [Devices -> SUBSET Nat] /\ told.server \in SUBSET Nat
  BY DEF Told
<1>2. told' = [next |-> n + 1, kept |-> told.kept \cup {n}, gone |-> told.gone,
               wrote |-> told.wrote \cup W,
               knows |-> [told.knows EXCEPT ![d] = @ \cup {n}],
               server |-> told.server]
  BY <1>1 DEF Keep, Told
<1>3. W \in SUBSET (Nat \X Schemes \X Tag)
  BY <1>1, WroteType
<1>4. [told.knows EXCEPT ![d] = @ \cup {n}] \in [Devices -> SUBSET Nat]
  BY <1>1
<1>5. told' \in Told
  BY <1>1, <1>2, <1>3, <1>4 DEF Told
<1>6. \A w, s, t : <<w, s, t>> \in W => w = n
  BY WroteTags
<1>7. QED
  BY <1>2, <1>5, <1>6 DEF Tells

LEMMA DeleteTells ==
  ASSUME told \in Told, NEW d \in Devices, NEW left, docs'[d] \in Documents,
         Delete(d, left),
         left = {} => \A s \in Schemes : docs'[d][s].add = docs[d][s].add
  PROVE  Tells(told, told', d, {told.next}, Wrote(told.next, docs[d], docs'[d]),
               {<<told.next, IF left = {} THEN told.knows[d] ELSE {}>>})
<1> DEFINE n == told.next
           W == Wrote(n, docs[d], docs'[d])
           x == <<n, IF left = {} THEN told.knows[d] ELSE {}>>
           kept == IF left = {} THEN told.kept ELSE told.kept \cup {n}
<1>1. /\ told.next \in Nat /\ told.kept \in SUBSET Nat
      /\ told.gone \in SUBSET (Nat \X SUBSET Nat)
      /\ told.wrote \in SUBSET (Nat \X Schemes \X Tag)
      /\ told.knows \in [Devices -> SUBSET Nat] /\ told.server \in SUBSET Nat
  BY DEF Told
<1>2. told' = [next |-> n + 1, kept |-> kept, gone |-> told.gone \cup {x},
               wrote |-> told.wrote \cup W,
               knows |-> [told.knows EXCEPT ![d] = @ \cup {n}],
               server |-> told.server]
  BY <1>1 DEF Delete, Told
<1>3. W \in SUBSET (Nat \X Schemes \X Tag)
  BY <1>1, WroteType
<1>4. /\ [told.knows EXCEPT ![d] = @ \cup {n}] \in [Devices -> SUBSET Nat]
      /\ x \in Nat \X SUBSET Nat /\ kept \in SUBSET Nat
  BY <1>1
<1>5. told' \in Told
  BY <1>1, <1>2, <1>3, <1>4 DEF Told
<1>6. \A w, s, t : <<w, s, t>> \in W => w = n /\ s \in Schemes /\ left # {}
  BY WroteTags
<1>7. QED
  BY <1>2, <1>5, <1>6 DEF Tells

LEMMA ContainsItself == ASSUME NEW D PROVE Contains(D, D)
BY DEF Contains, Within

\* A step of a user at device d, with the command op, that leaves the documents E
\* and the view V.
IsUserStep(d, E, V, op, N, W, G) ==
  /\ SoundDocs(E) /\ Contains(E, docs[d]) /\ V \subseteq AnyCopy(E)
  /\ docs' = [docs EXCEPT ![d] = E]
  /\ view' = [view EXCEPT ![d] = V]
  /\ ops' = [ops EXCEPT ![d] = Append(@, op)]
  /\ undo' \in [Devices -> SUBSET Schemes]
  /\ server' = server /\ run' = run /\ lost' = lost /\ Act
  /\ Tells(told, told', d, N, W, G)
  /\ V = {} => G # {} \/ view[d] = {}
  /\ (\E s \in Schemes : E[s].del # docs[d][s].del) => G # {}
  /\ \A s \in Schemes : E[s].add # docs[d][s].add
        => N # {} /\ W = Wrote(told.next, docs[d], E)
  /\ W = {} \/ W = Wrote(told.next, docs[d], E)
  /\ lost = 0 => \A x \in G : \A w \in Nat, s \in Schemes, t \in Tag :
        w \in x[2] /\ <<w, s, t>> \in told.wrote => t \in E[s].rem /\ E[s].del # {}
  /\ op.kind = "move" => told.next \in told'.kept /\ N # {}
  /\ \A x \in G : x[2] = {} \/ op.kind = "delete"

LEMMA UserStep ==
  ASSUME MInv, NEW d \in Devices, NEW E, NEW V, NEW op \in Command,
         NEW N, NEW W, NEW G, IsUserStep(d, E, V, op, N, W, G)
  PROVE  MInv'
<1> USE DEF IsUserStep
<1>1. told \in Told /\ Numbered(told) /\ Types
  BY DEF MInv, Types
<1>2. /\ Numbered(told') /\ told'.next \in Nat /\ told.next <= told'.next
      /\ \A K \in SUBSET Nat : Below(K, told.next) => Below(K, told'.next)
  BY <1>1, TellsNumbered
<1>3. /\ told' \in Told
      /\ told'.gone = told.gone \cup G /\ told'.server = told.server
      /\ told'.kept \subseteq told.kept \cup N /\ told.kept \subseteq told'.kept
      /\ \A e \in Devices : e # d => told'.knows[e] = told.knows[e]
      /\ told'.knows[d] = told.knows[d] \cup N
      /\ \A w \in N : w = told.next
      /\ \A x \in G : x[1] \in N /\ (x[2] = {} \/ x[2] = told.knows[d])
  BY <1>1 DEF Tells, Told
<1>4. /\ docs'[d] = E /\ view'[d] = V /\ ops'[d] = Append(ops[d], op)
      /\ \A e \in Devices : e # d =>
           docs'[e] = docs[e] /\ view'[e] = view[e] /\ ops'[e] = ops[e]
      /\ \A e \in Devices : ops[e] \in Seq(Command) /\ Len(ops[e]) \in Nat
  BY <1>1 DEF Types
<1>5. /\ told.server \in SUBSET Nat /\ Below(told.server, told.next)
      /\ \A e \in Devices : told.knows[e] \in SUBSET Nat /\ Below(told.knows[e], told.next)
      /\ \A e \in Devices : run[e].knows \in SUBSET Nat /\ Below(run[e].knows, told.next)
      /\ \A e \in Devices : run[e].sent \in Nat
  BY <1>1 DEF MInv, Numbered, RunFits, Told, Types, Run
<1>6. Types'
  <2>1. docs' \in [Devices -> Documents]
    BY <1>1 DEF SoundDocs, Types
  <2>2. V \subseteq Schemes
    BY ShownFacts
  <2>3. view' \in [Devices -> SUBSET Schemes]
    BY <1>1, <2>2 DEF Types
  <2>4. ops' \in [Devices -> Seq(Command)]
    BY <1>1, <1>4 DEF Types
  <2>5. acts' \in Nat /\ acts' + lost' <= MaxActs
    BY <1>1, BoundsAssumption DEF Act, Types
  <2>6. QED
    BY <1>1, <1>3, <2>1, <2>3, <2>4, <2>5 DEF Types
<1>7. ASSUME NEW e \in Devices PROVE RunFits(e)'
  <2>1. RunFits(e) /\ Below(run[e].knows, told'.next)
    BY <1>2, <1>5 DEF MInv
  <2>2. CASE e = d
    <3>1. Len(ops'[d]) = Len(ops[d]) + 1
      BY <1>4
    <3>2. run[d].on => /\ run[d].sent <= Len(ops'[d]) /\ run[d].sent # Len(ops'[d])
                       /\ ~run[d].news => Contains(docs'[d], run[d].docs)
      BY <1>4, <1>5, <2>1, <2>2, <3>1, WithinTransitive DEF RunFits
    <3>3. QED
      BY <2>1, <2>2, <3>2 DEF RunFits
  <2>3. CASE e # d
    BY <1>4, <2>1, <2>3 DEF RunFits
  <2>4. QED
    BY <2>2, <2>3
<1>8. Replicas'
  <2>1. ASSUME NEW D, NEW K, Holds(told, D, K) PROVE Holds(told', D, K)
    BY <1>3, <2>1, HoldsMore, ContainsItself DEF Holds
  <2>2. Holds(told, docs[d], told.knows[d])
    BY DEF MInv, Replicas
  <2>3. Holds(told', E, told'.knows[d])
    <3>1. Added(E)
      BY <2>2 DEF Holds, Added, Contains, Within
    <3>2. CASE G # {}
      BY <1>3, <3>1, <3>2 DEF Holds
    <3>3. CASE G = {}
      BY <1>3, <2>2, <3>3, HoldsMore
    <3>4. QED
      BY <3>2, <3>3
  <2>4. ASSUME NEW e \in Devices PROVE Holds(told', docs'[e], told'.knows[e])
    BY <1>3, <1>4, <2>1, <2>3 DEF MInv, Replicas
  <2>5. QED
    BY <1>3, <2>1, <2>4 DEF MInv, Replicas
<1>9. Views'
  BY <1>4 DEF MInv, Views
<1>10. NeverLost'
  <2> SUFFICES ASSUME NEW e \in Devices, view'[e] = {}
               PROVE  \E x \in told'.gone : x[1] \in told'.knows[e]
    BY DEF NeverLost, Deleted
  <2>1. CASE view[e] = {}
    BY <1>3, <2>1 DEF MInv, NeverLost, Deleted
  <2>2. CASE view[e] # {}
    <3>1. e = d /\ G # {}
      BY <1>4, <2>2
    <3>2. QED
      BY <1>3, <3>1
  <2>3. QED
    BY <2>1, <2>2
<1>11. ASSUME lost = 0 PROVE Faithful'
  <2>1. Faithful
    BY <1>11 DEF MInv
  <2>2. ASSUME NEW D, NEW K \in SUBSET Nat, Below(K, told.next), Reflects(told, D, K)
        PROVE  Reflects(told', D, K)
    BY <1>1, <2>2, ReflectsOthers
  <2>3. Reflects(told', server', told'.server)
    BY <1>3, <1>5, <2>1, <2>2 DEF Faithful
  <2>4. ASSUME NEW e \in Devices PROVE Reflects(told', docs'[e], told'.knows[e])
    <3>1. CASE e # d
      BY <1>3, <1>4, <1>5, <2>1, <2>2, <3>1 DEF Faithful
    <3>2. CASE e = d
      <4>1. Reflects(told, docs[d], told.knows[d])
        BY <2>1 DEF Faithful
      <4>2. Reflects(told', E, told.knows[d] \cup N)
        BY <1>1, <1>5, <1>11, <4>1, ReflectsOwn
      <4>3. QED
        BY <1>3, <1>4, <3>2, <4>2
    <3>3. QED
      BY <3>1, <3>2
  <2>5. ASSUME NEW e \in Devices, run'[e].on PROVE Reflects(told', run'[e].docs, run'[e].knows)
    BY <1>5, <2>1, <2>2, <2>5 DEF Faithful
  <2>6. ASSUME NEW e \in Devices PROVE Pending(e)'
    <3> SUFFICES ASSUME NEW i \in Standing(ops'[e], {"move", "delete"})
                 PROVE  \E w \in Nat : /\ Private(e, w)'
                                       /\ i > run'[e].sent => w \notin run'[e].knows
      BY DEF Pending
    <3>1. ASSUME NEW w \in Nat, Private(e, w), e = d => op.kind # "delete"
          PROVE  Private(e, w)'
      <4>1. w \in told.knows[e] /\ w \notin N
        BY <1>3, <1>5, <3>1 DEF Private, Below
      <4>2. \A x \in G : w \notin x[2]
        BY <1>3, <3>1 DEF Private
      <4>3. QED
        BY <1>3, <3>1, <4>1, <4>2 DEF Private
    <3>2. ASSUME i \in Standing(ops[e], {"move", "delete"}), e = d => op.kind # "delete"
          PROVE  \E w \in Nat : /\ Private(e, w)'
                                /\ i > run'[e].sent => w \notin run'[e].knows
      BY <2>1, <3>1, <3>2 DEF Faithful, Pending
    <3>3. CASE e # d
      BY <1>4, <3>2, <3>3
    <3>4. CASE e = d
      <4>1. CASE i = Len(ops[d]) + 1 /\ op.kind = "move"
        <5>0. PICK n \in Nat : n = told.next
          BY DEF MInv, Types, Told
        <5>1. n \in told'.kept /\ N = {n} /\ n \in Nat
          BY <1>1, <4>1, <5>0 DEF Tells
        <5>2. /\ n \notin told.server
              /\ \A f \in Devices : n \notin told.knows[f] /\ n \notin run[f].knows
          BY <1>5, <5>0, <5>1 DEF Below
        <5>3. \A x \in told.gone : n \notin x[2]
          <6>1. \A x \in told.gone : Below(x[2], told.next)
            BY <1>1 DEF Numbered
          <6>2. ~(n < n)
            BY <5>1
          <6>3. QED
            BY <5>0, <6>1, <6>2 DEF Below
        <5>4. ASSUME NEW x \in G PROVE n \notin x[2]
          <6>1. x[2] = {} \/ x[2] = told.knows[d]
            BY <1>3
          <6>2. n \notin told.knows[d]
            BY <5>2
          <6>3. QED
            BY <6>1, <6>2
        <5>5. Private(d, n)'
          BY <1>3, <5>1, <5>2, <5>3, <5>4 DEF Private
        <5>6. QED
          BY <3>4, <5>2, <5>5
      <4>2. CASE i \in Standing(ops[d], {"move", "delete"})
                 /\ op.kind \notin {"move", "delete"}
        BY <3>2, <3>4, <4>2
      <4>3. QED
        BY <1>4, <3>4, <4>1, <4>2, StandingAppend
    <3>5. QED
      BY <3>3, <3>4
  <2>7. QED
    BY <2>3, <2>4, <2>5, <2>6 DEF Faithful
<1>12. QED
  BY <1>2, <1>6, <1>7, <1>8, <1>9, <1>10, <1>11 DEF MInv

LEMMA TellsNothing ==
  ASSUME told \in Told, NEW d \in Devices
  PROVE  Tells(told, told, d, {}, {}, {})
<1>1. told.knows \in [Devices -> SUBSET Nat]
  BY DEF Told
<1>2. told.knows = [told.knows EXCEPT ![d] = @ \cup {}]
  BY <1>1
<1>3. QED
  BY <1>2 DEF Tells

LEMMA MoveLineStep ==
  ASSUME MInv, NEW d \in Devices, NEW from \in Schemes, NEW to \in Schemes,
         MoveLine(d, from, to)
  PROVE  MInv'
<1> DEFINE shown == (view[d] \ {from}) \cup {to}
           r == AfterMove(docs[d], d, shown, from, to)
<1>1. /\ told \in Told /\ docs \in [Devices -> Documents] /\ undo' \in [Devices -> SUBSET Schemes]
      /\ view[d] \subseteq Schemes /\ SoundDocs(docs[d]) /\ view[d] \subseteq AnyCopy(docs[d])
  BY DEF MInv, Types, Replicas, Holds, Views, MoveLine
<1>2. /\ shown \in SUBSET Schemes /\ to \in shown /\ from \notin shown
      /\ \A s \in shown : s # to => s \in AnyCopy(docs[d])
  BY <1>1 DEF MoveLine
<1>3. /\ SoundDocs(r.docs) /\ Contains(r.docs, docs[d])
      /\ \A s \in Schemes : r.docs[s].del = docs[d][s].del
      /\ r.view \subseteq AnyCopy(r.docs) /\ r.view # {}
  <2> HIDE DEF shown
  <2>1. QED
    BY <1>1, <1>2, AfterMoveSound
<1>4. /\ docs' = [docs EXCEPT ![d] = r.docs] /\ view' = [view EXCEPT ![d] = r.view]
      /\ ops' = [ops EXCEPT ![d] = Append(@, Move(from, to))]
      /\ server' = server /\ run' = run /\ lost' = lost /\ Act /\ Keep(d)
  BY DEF MoveLine, Queue
<1>5. docs'[d] = r.docs
  BY <1>1, <1>4
<1>6. r.docs \in Documents
  BY <1>3 DEF SoundDocs
<1>7. /\ Tells(told, told', d, {told.next}, Wrote(told.next, docs[d], r.docs), {})
      /\ told.next \in told'.kept
  BY <1>1, <1>4, <1>5, <1>6, KeepTells
<1>8. Move(from, to) \in Command
  BY DEF Move, Command
<1> HIDE DEF r
<1>9. QED
  <2>1. IsUserStep(d, r.docs, r.view, Move(from, to), {told.next},
                   Wrote(told.next, docs[d], r.docs), {})
    BY <1>1, <1>3, <1>4, <1>7 DEF IsUserStep
  <2>2. QED
    BY <1>8, <2>1, UserStep

\* What a deletion that leaves no copy on show removes.
LEMMA DeleteReaches ==
  ASSUME NEW D, NEW d \in Devices, NEW all, NEW s \in Schemes, NEW t \in D[s].add,
         SoundDocs(D), AnyCopy(D) \subseteq all
  PROVE  /\ t \in Write(D, d, {}, all, all, {})[s].rem
         /\ Write(D, d, {}, all, all, {})[s].del # {}
<1> DEFINE W == Write(D, d, {}, all, all, {})
<1>1. WellFormed(D[s])
  BY DEF SoundDocs, Sound
<1>2. /\ Contains(W, D)
      /\ s \notin all => W[s] = D[s]
      /\ W[s].add = D[s].add
      /\ s \in all /\ (Live(D[s]) \/ D[s].rem # {}) => W[s].add \subseteq W[s].rem /\ W[s].del # {}
  BY WriteSound
<1>3. ~Live(D[s]) => t \in D[s].rem
  BY DEF Live, Active
<1>4. CASE s \in all
  BY <1>2, <1>3, <1>4
<1>5. CASE s \notin all
  <2>1. ~Live(D[s]) /\ ~Placement(D[s])
    BY <1>5 DEF AnyCopy, Copies
  <2>2. t \in D[s].rem /\ D[s].del # {}
    BY <1>1, <1>3, <2>1 DEF Placement, WellFormed
  <2>3. QED
    BY <1>2, <1>5, <2>2
<1>6. QED
  BY <1>4, <1>5

LEMMA DeleteLineStep ==
  ASSUME MInv, NEW d \in Devices, NEW s \in Schemes, DeleteLine(d, s)
  PROVE  MInv'
<1> DEFINE left == view[d] \ {s}
           all == AnyCopy(docs[d]) \cup {s}
           E == Write(docs[d], d, left, all, all, {})
           seen == IF left = {} THEN told.knows[d] ELSE {}
           G == {<<told.next, seen>>}
<1>1. /\ told \in Told /\ docs \in [Devices -> Documents] /\ view \in [Devices -> SUBSET Schemes]
      /\ undo \in [Devices -> SUBSET Schemes]
      /\ SoundDocs(docs[d]) /\ view[d] \subseteq AnyCopy(docs[d])
  BY DEF MInv, Types, Replicas, Holds, Views
<1>2. /\ docs' = [docs EXCEPT ![d] = E] /\ view' = [view EXCEPT ![d] = left]
      /\ ops' = [ops EXCEPT ![d] = Append(@, Op("delete"))]
      /\ undo' = [undo EXCEPT ![d] = {s}]
      /\ server' = server /\ run' = run /\ lost' = lost /\ Act /\ Delete(d, view'[d])
  BY DEF DeleteLine, Queue
<1>3. /\ SoundDocs(E) /\ Contains(E, docs[d])
      /\ \A c \in Schemes : c \in all /\ c \in left => Live(E[c])
      /\ \A c \in Schemes : c \notin all \/ c \notin left \/ Live(docs[d][c])
           => E[c].add = docs[d][c].add
  BY <1>1, WriteSound
<1>4. left \subseteq AnyCopy(E)
  <2>1. \A c \in left : c \in Schemes /\ Live(E[c])
    BY <1>1, <1>3
  <2>2. QED
    BY <2>1, LiveCopy
<1>5. docs'[d] = E /\ view'[d] = left /\ E \in Documents
  BY <1>1, <1>2, <1>3 DEF SoundDocs
<1>6. left = {} => \A c \in Schemes : docs'[d][c].add = docs[d][c].add
  BY <1>3, <1>5
<1>7. Tells(told, told', d, {told.next}, Wrote(told.next, docs[d], E), G)
  BY <1>1, <1>2, <1>5, <1>6, DeleteTells
<1>8. lost = 0 => \A x \in G : \A w \in Nat, c \in Schemes, t \in Tag :
        w \in x[2] /\ <<w, c, t>> \in told.wrote => t \in E[c].rem /\ E[c].del # {}
  <2> SUFFICES ASSUME lost = 0, NEW x \in G,
                      NEW w \in Nat, NEW c \in Schemes, NEW t \in Tag,
                      w \in x[2], <<w, c, t>> \in told.wrote
               PROVE  t \in E[c].rem /\ E[c].del # {}
    OBVIOUS
  <2>0. w \in seen
    OBVIOUS
  <2>1. left = {} /\ w \in told.knows[d]
    BY <2>0
  <2>2. t \in docs[d][c].add
    BY <2>1 DEF MInv, Faithful, Reflects
  <2>3. E = Write(docs[d], d, {}, all, all, {})
    BY <2>1
  <2>4. QED
    BY <1>1, <2>2, <2>3, DeleteReaches
<1>9. Op("delete") \in Command /\ Op("delete").kind = "delete"
  BY SchemesAssumption DEF Op, Command
<1>10. undo' \in [Devices -> SUBSET Schemes] /\ G # {}
  BY <1>1, <1>2
<1>11. \A x \in G : x[2] = {} \/ Op("delete").kind = "delete"
  BY <1>9
<1>12. QED
  <2> DEFINE W == Wrote(told.next, docs[d], E)
  <2> HIDE DEF E, left, G
  <2>1. IsUserStep(d, E, left, Op("delete"), {told.next}, W, G)
    BY <1>2, <1>3, <1>4, <1>7, <1>8, <1>9, <1>10, <1>11 DEF IsUserStep
  <2> HIDE DEF W
  <2>2. QED
    BY <1>9, <2>1, UserStep

LEMMA UndoDeleteStep ==
  ASSUME MInv, NEW d \in Devices, UndoDelete(d)
  PROVE  MInv'
<1> DEFINE V == view[d] \cup undo[d]
           E == Write(docs[d], d, V, undo[d], {}, {})
<1>1. /\ told \in Told /\ docs \in [Devices -> Documents] /\ view \in [Devices -> SUBSET Schemes]
      /\ undo \in [Devices -> SUBSET Schemes]
      /\ SoundDocs(docs[d]) /\ view[d] \subseteq AnyCopy(docs[d])
  BY DEF MInv, Types, Replicas, Holds, Views
<1>2. /\ view' = [view EXCEPT ![d] = V]
      /\ ops' = [ops EXCEPT ![d] = Append(@, Op("insert"))]
      /\ undo' = [undo EXCEPT ![d] = {}] /\ undo[d] # {}
      /\ server' = server /\ run' = run /\ lost' = lost /\ Act /\ Keep(d)
  BY DEF UndoDelete, Queue
<1>3. docs' = [docs EXCEPT ![d] = E]
  BY <1>1, <1>2 DEF UndoDelete
<1>4. /\ SoundDocs(E) /\ Contains(E, docs[d])
      /\ \A c \in Schemes : c \notin undo[d] => E[c] = docs[d][c]
      /\ \A c \in Schemes : c \in undo[d] /\ c \in V => Live(E[c])
      /\ \A c \in Schemes : E[c].del = docs[d][c].del
  BY <1>1, WriteSound
<1>5. V \subseteq AnyCopy(E)
  <2>1. ASSUME NEW c \in V PROVE c \in AnyCopy(E)
    <3>1. c \in Schemes
      BY <1>1
    <3>2. CASE c \in undo[d]
      BY <1>4, <3>1, <3>2, LiveCopy
    <3>3. CASE c \notin undo[d]
      BY <1>1, <1>4, <3>1, <3>3, SameCopy
    <3>4. QED
      BY <3>2, <3>3
  <2>2. QED
    BY <2>1
<1>6. docs'[d] = E /\ E \in Documents
  BY <1>1, <1>3, <1>4 DEF SoundDocs
<1>7. Tells(told, told', d, {told.next}, Wrote(told.next, docs[d], E), {})
  BY <1>1, <1>2, <1>6, KeepTells
<1>8. Op("insert") \in Command /\ Op("insert").kind = "insert"
  BY SchemesAssumption DEF Op, Command
<1>9. undo' \in [Devices -> SUBSET Schemes] /\ V # {}
  BY <1>1, <1>2
<1>10. QED
  <2> DEFINE W == Wrote(told.next, docs[d], E)
  <2> HIDE DEF E, V
  <2>1. IsUserStep(d, E, V, Op("insert"), {told.next}, W, {})
    BY <1>2, <1>3, <1>4, <1>5, <1>7, <1>8, <1>9 DEF IsUserStep
  <2> HIDE DEF W
  <2>2. QED
    BY <1>8, <2>1, UserStep

LEMMA EditSchemeStep ==
  ASSUME MInv, NEW d \in Devices, NEW s \in Schemes, EditScheme(d, s)
  PROVE  MInv'
<1> DEFINE V == view[d]
           E == Write(docs[d], d, V, {s}, {}, {})
<1>1. /\ told \in Told /\ docs \in [Devices -> Documents] /\ view \in [Devices -> SUBSET Schemes]
      /\ undo \in [Devices -> SUBSET Schemes]
      /\ SoundDocs(docs[d]) /\ view[d] \subseteq AnyCopy(docs[d])
  BY DEF MInv, Types, Replicas, Holds, Views
<1>2. /\ docs' = [docs EXCEPT ![d] = E]
      /\ ops' = [ops EXCEPT ![d] = Append(@, Op("edit"))]
      /\ server' = server /\ view' = view /\ undo' = undo /\ run' = run /\ lost' = lost /\ Act
      /\ IF s \in view[d] /\ ~Live(docs[d][s]) THEN Keep(d) ELSE told' = told
  BY DEF EditScheme, Queue
<1>3. /\ SoundDocs(E) /\ Contains(E, docs[d])
      /\ \A c \in Schemes : c \notin {s} => E[c] = docs[d][c]
      /\ \A c \in Schemes : c \in {s} /\ c \in V => Live(E[c])
      /\ \A c \in Schemes : c \notin {s} \/ c \notin V \/ Live(docs[d][c])
           => E[c].add = docs[d][c].add
      /\ \A c \in Schemes : E[c].del = docs[d][c].del
  BY <1>1, WriteSound
<1>4. V \subseteq AnyCopy(E)
  <2>1. ASSUME NEW c \in V PROVE c \in AnyCopy(E)
    <3>1. c \in Schemes
      BY <1>1
    <3>2. CASE c = s
      BY <1>3, <3>1, <3>2, LiveCopy
    <3>3. CASE c # s
      BY <1>1, <1>3, <3>1, <3>3, SameCopy
    <3>4. QED
      BY <3>2, <3>3
  <2>2. QED
    BY <2>1
<1>5. docs'[d] = E /\ E \in Documents /\ view' = [view EXCEPT ![d] = V]
  BY <1>1, <1>2, <1>3 DEF SoundDocs
<1>6. Op("edit") \in Command /\ Op("edit").kind = "edit"
  BY SchemesAssumption DEF Op, Command
<1>7. undo' \in [Devices -> SUBSET Schemes]
  BY <1>1, <1>2
<1>8. CASE s \in view[d] /\ ~Live(docs[d][s])
  <2>1. Tells(told, told', d, {told.next}, Wrote(told.next, docs[d], E), {})
    BY <1>1, <1>2, <1>5, <1>8, KeepTells
  <2>2. V = {} => view[d] = {}
    OBVIOUS
  <2> DEFINE W == Wrote(told.next, docs[d], E)
  <2> HIDE DEF E, V
  <2>3. IsUserStep(d, E, V, Op("edit"), {told.next}, W, {})
    BY <1>2, <1>3, <1>4, <1>5, <1>6, <1>7, <2>1, <2>2 DEF IsUserStep
  <2> HIDE DEF W
  <2>4. QED
    BY <1>6, <2>3, UserStep
<1>9. CASE ~(s \in view[d] /\ ~Live(docs[d][s]))
  <2>1. Tells(told, told', d, {}, {}, {})
    BY <1>1, <1>2, <1>9, TellsNothing
  <2>2. \A c \in Schemes : E[c].add = docs[d][c].add
    BY <1>3, <1>9
  <2>3. V = {} => view[d] = {}
    OBVIOUS
  <2> HIDE DEF E, V
  <2>4. IsUserStep(d, E, V, Op("edit"), {}, {}, {})
    BY <1>2, <1>3, <1>4, <1>5, <1>6, <1>7, <2>1, <2>2, <2>3 DEF IsUserStep
  <2>5. QED
    BY <1>6, <2>4, UserStep
<1>10. QED
  BY <1>8, <1>9

(***************************************************************************)
(* The sync run.                                                           *)
(***************************************************************************)
LEMMA NoRunType == NoRun \in Run
<1>1. Absent \in Entry
  BY DEF Absent, Entry
<1>2. [s \in Schemes |-> Absent] \in [Schemes -> Entry]
  BY <1>1
<1>3. QED
  BY <1>2 DEF NoRun, Run

LEMMA PullStep ==
  ASSUME MInv, NEW d \in Devices, Pull(d)
  PROVE  MInv'
<1> DEFINE P == Join(server, docs[d])
           K == told.server \cup told.knows[d]
<1>1. /\ server \in Documents /\ docs \in [Devices -> Documents] /\ told \in Told
      /\ run \in [Devices -> Run] /\ Len(ops[d]) \in Nat
      /\ Holds(told, server, told.server) /\ Holds(told, docs[d], told.knows[d])
      /\ ops[d] \in Seq(Command)
  BY DEF MInv, Types, Replicas
<1>2. /\ server' = server /\ docs' = docs /\ view' = view /\ ops' = ops /\ undo' = undo
      /\ told' = told /\ acts' = acts /\ lost' = lost
  BY DEF Pull
<1>3. PICK news \in {TRUE, P # docs[d] \/ Shown(P) # view[d]} :
        run' = [run EXCEPT ![d] = [on |-> TRUE, docs |-> P, news |-> news,
                                   sent |-> Len(ops[d]), knows |-> K]]
  BY DEF Pull
<1>4. SoundDocs(P) /\ Contains(P, docs[d]) /\ P \in Documents
  BY <1>1, JoinSound DEF Holds, SoundDocs
<1>5. K \in SUBSET Nat /\ Below(K, told.next)
  BY <1>1 DEF MInv, Numbered, Told, Below
<1>6. news \in BOOLEAN
  OBVIOUS
<1>7. [on |-> TRUE, docs |-> P, news |-> news, sent |-> Len(ops[d]), knows |-> K] \in Run
  BY <1>1, <1>4, <1>5, <1>6 DEF Run, Documents
<1>8. /\ run'[d] = [on |-> TRUE, docs |-> P, news |-> news, sent |-> Len(ops[d]), knows |-> K]
      /\ \A e \in Devices : e # d => run'[e] = run[e]
  BY <1>1, <1>3
<1>9. /\ run'[d].on /\ run'[d].docs = P /\ run'[d].news = news
      /\ run'[d].sent = Len(ops[d]) /\ run'[d].knows = K
  BY <1>8
<1>10. ~news => P = docs[d]
  OBVIOUS
<1> HIDE DEF P, K
<1>11. Types'
  BY <1>1, <1>2, <1>3, <1>7 DEF MInv, Types
<1>12. ASSUME NEW e \in Devices PROVE RunFits(e)'
  <2>1. CASE e = d
    <3>1. Contains(docs[d], docs[d])
      BY ContainsItself
    <3>2. QED
      BY <1>1, <1>2, <1>4, <1>5, <1>9, <1>10, <2>1, <3>1 DEF RunFits
  <2>2. CASE e # d
    BY <1>2, <1>8, <2>2 DEF MInv, RunFits
  <2>3. QED
    BY <2>1, <2>2
<1>13. Replicas'
  <2>1. Holds(told, P, K)
    BY <1>1, HoldsJoin DEF P, K
  <2>2. QED
    BY <1>2, <1>8, <1>9, <2>1 DEF MInv, Replicas
<1>14. Views' /\ NeverLost' /\ Numbered(told)'
  BY <1>2 DEF MInv, Views, NeverLost, Deleted
<1>15. ASSUME lost = 0 PROVE Faithful'
  <2>1. Faithful
    BY <1>15 DEF MInv
  <2>2. Reflects(told, P, K)
    BY <1>1, <2>1, ReflectsJoin DEF P, K, Faithful, Holds
  <2>3. \A e \in Devices : run'[e].on => Reflects(told, run'[e].docs, run'[e].knows)
    BY <1>8, <1>9, <2>1, <2>2 DEF Faithful
  <2>4. ASSUME NEW e \in Devices PROVE Pending(e)'
    <3> SUFFICES ASSUME NEW i \in Standing(ops[e], {"move", "delete"})
                 PROVE  \E w \in Nat : /\ Private(e, w)'
                                       /\ i > run'[e].sent => w \notin run'[e].knows
      BY <1>2 DEF Pending
    <3>1. PICK w \in Nat : Private(e, w) /\ (i > run[e].sent => w \notin run[e].knows)
      BY <2>1 DEF Faithful, Pending
    <3>2. \A f \in Devices : f # e => w \notin run'[f].knows
      BY <1>8, <1>9, <3>1 DEF Private, K
    <3>3. Private(e, w)'
      BY <1>2, <3>1, <3>2 DEF Private
    <3>4. CASE e = d
      <4>1. i <= Len(ops[d])
        BY <1>1, <3>4 DEF Standing
      <4>2. QED
        BY <1>1, <1>9, <3>3, <3>4, <4>1 DEF Standing
    <3>5. CASE e # d
      BY <1>8, <3>1, <3>3, <3>5
    <3>6. QED
      BY <3>4, <3>5
  <2>5. QED
    BY <1>2, <2>1, <2>3, <2>4 DEF Faithful
<1>16. QED
  BY <1>2, <1>11, <1>12, <1>13, <1>14, <1>15 DEF MInv

\* What the server has after a push.
LEMMA Pushed ==
  ASSUME MInv, NEW d \in Devices, run[d].on
  PROVE  /\ Holds(told, Join(server, run[d].docs), told.server \cup run[d].knows)
         /\ Join(server, run[d].docs) \in Documents
         /\ lost = 0 => Reflects(told, Join(server, run[d].docs),
                                 told.server \cup run[d].knows)
<1>1. Holds(told, server, told.server) /\ Holds(told, run[d].docs, run[d].knows)
  BY DEF MInv, Replicas
<1>2. SoundDocs(server) /\ SoundDocs(run[d].docs)
  BY <1>1 DEF Holds
<1>3. Holds(told, Join(server, run[d].docs), told.server \cup run[d].knows)
  BY <1>1, HoldsJoin
<1>4. lost = 0 => Reflects(told, Join(server, run[d].docs), told.server \cup run[d].knows)
  BY <1>2, ReflectsJoin DEF MInv, Faithful
<1>5. QED
  BY <1>3, <1>4 DEF Holds, SoundDocs

LEMMA LoseAnswerStep ==
  ASSUME MInv, NEW d \in Devices, LoseAnswer(d)
  PROVE  MInv'
<1> DEFINE S == Join(server, run[d].docs)
           K == told.server \cup run[d].knows
<1>1. /\ docs' = docs /\ view' = view /\ ops' = ops /\ undo' = undo /\ acts' = acts
      /\ lost' = lost + 1 /\ server' = S /\ acts + lost < MaxActs /\ run[d].on
      /\ told' = [told EXCEPT !.server = K]
      /\ run' = [run EXCEPT ![d] = NoRun]
  BY DEF LoseAnswer
<1>2. /\ told \in Told /\ run \in [Devices -> Run] /\ Types /\ Numbered(told)
      /\ acts \in Nat /\ lost \in Nat
      /\ run[d].knows \in SUBSET Nat
  BY DEF MInv, Types, Run
<1>3. /\ told'.next = told.next /\ told'.kept = told.kept /\ told'.gone = told.gone
      /\ told'.wrote = told.wrote /\ told'.knows = told.knows /\ told'.server = K
  BY <1>1, <1>2 DEF Told
<1>4. told' = [next |-> told.next, kept |-> told.kept, gone |-> told.gone,
               wrote |-> told.wrote, knows |-> told.knows, server |-> K]
  BY <1>1, <1>2 DEF Told
<1>5. told' \in Told
  BY <1>2, <1>4 DEF Told
<1>6. /\ run'[d] = NoRun /\ run' \in [Devices -> Run]
      /\ \A e \in Devices : e # d => run'[e] = run[e]
  BY <1>1, <1>2, NoRunType
<1>7. Holds(told, S, K) /\ S \in Documents
  BY <1>1, Pushed
<1>8. Numbered(told')
  BY <1>2, <1>3 DEF Numbered, MInv, RunFits, Below
<1> HIDE DEF S, K
<1>9. Types'
  <2>1. acts + (lost + 1) <= MaxActs /\ lost + 1 \in Nat
    BY <1>1, <1>2, BoundsAssumption
  <2>2. QED
    BY <1>1, <1>2, <1>5, <1>6, <1>7, <2>1 DEF Types
<1>10. ASSUME NEW e \in Devices PROVE RunFits(e)'
  <2>1. CASE e = d
    <3>1. NoRun.knows = {} /\ ~NoRun.on
      BY DEF NoRun
    <3>2. QED
      BY <1>6, <2>1, <3>1 DEF RunFits, Below
  <2>2. CASE e # d
    BY <1>1, <1>3, <1>6, <2>2 DEF MInv, RunFits
  <2>3. QED
    BY <2>1, <2>2
<1>11. Replicas'
  <2>1. ASSUME NEW D, NEW L, Holds(told, D, L) PROVE Holds(told', D, L)
    BY <1>3, <2>1 DEF Holds
  <2>2. ~NoRun.on
    BY DEF NoRun
  <2>3. QED
    BY <1>1, <1>3, <1>6, <1>7, <2>1, <2>2 DEF MInv, Replicas
<1>12. Views' /\ NeverLost'
  BY <1>1, <1>3 DEF MInv, Views, NeverLost, Deleted
<1>13. lost' # 0
  BY <1>1, <1>2
<1>14. QED
  BY <1>8, <1>9, <1>10, <1>11, <1>12, <1>13 DEF MInv

(***************************************************************************)
(* What a landing makes of the documents it adopts.                        *)
(***************************************************************************)
LEMMA LandMerges ==
  ASSUME MInv, NEW d \in Devices, run[d].on
  PROVE  /\ Adopted(d) = Join(docs[d], run[d].docs)
         /\ ~run[d].news => Adopted(d) = docs[d]
         /\ Holds(told, Adopted(d), told.knows[d] \cup run[d].knows)
         /\ lost = 0 => Reflects(told, Adopted(d), told.knows[d] \cup run[d].knows)
<1> DEFINE J == Join(docs[d], run[d].docs)
<1>1. /\ Holds(told, docs[d], told.knows[d]) /\ Holds(told, run[d].docs, run[d].knows)
      /\ SoundDocs(docs[d]) /\ SoundDocs(run[d].docs)
      /\ docs[d] \in Documents /\ run[d].docs \in Documents
      /\ run[d].sent \in Nat /\ Len(ops[d]) \in Nat
  BY DEF MInv, Types, Replicas, Holds, SoundDocs, Run
<1>2. /\ run[d].sent <= Len(ops[d])
      /\ run[d].sent = Len(ops[d]) => Contains(run[d].docs, docs[d])
      /\ ~run[d].news => Contains(docs[d], run[d].docs)
  BY DEF MInv, RunFits
<1>3. ~Edited(d) => J = run[d].docs
  BY <1>1, <1>2, JoinAbsorbs DEF Edited
<1>4. Adopted(d) = J
  BY <1>3 DEF Adopted
<1>5. ~run[d].news => J = docs[d]
  BY <1>1, <1>2, JoinAbsorbs
<1>6. Holds(told, J, told.knows[d] \cup run[d].knows)
  BY <1>1, HoldsJoin
<1>7. lost = 0 => Reflects(told, J, told.knows[d] \cup run[d].knows)
  BY <1>1, ReflectsJoin DEF MInv, Faithful
<1>8. QED
  BY <1>4, <1>5, <1>6, <1>7

LEMMA PlacedType ==
  ASSUME NEW q \in Seq(Command)
  PROVE  /\ Placed(q) \in Command
         /\ Placed(q).kind # "none" => Standing(q, {"move", "delete"}) # {}
<1>1. NoPlacement \in Command /\ NoPlacement.kind = "none"
  BY SchemesAssumption DEF NoPlacement, Op, Command
<1>2. CASE Standing(q, {"move", "delete"}) = {}
  BY <1>1, <1>2 DEF Placed, Chosen
<1>3. CASE Standing(q, {"move", "delete"}) # {}
  <2> DEFINE i == CHOOSE i \in Standing(q, {"move", "delete"}) : TRUE
  <2>1. i \in DOMAIN q
    BY <1>3 DEF Standing
  <2>2. q[i] \in Command
    BY <2>1
  <2>3. QED
    BY <1>3, <2>2 DEF Placed, Chosen
<1>4. QED
  BY <1>2, <1>3

Reasserted(D, p, r) ==
  /\ SoundDocs(r.docs) /\ Contains(r.docs, D)
  /\ \A s \in Schemes : r.docs[s].del = D[s].del
  /\ r.view \subseteq AnyCopy(r.docs)
  /\ r.ops \in Seq(Command)
  /\ r.ops = <<>> => r.docs = D /\ r.view = Shown(D)
  /\ r.ops # <<>> => r.view # {} /\ AnyCopy(r.docs) # {} /\ p.kind # "none"

LEMMA ReassertSound ==
  ASSUME NEW D, NEW d \in Devices, NEW p \in Command, SoundDocs(D)
  PROVE  Reasserted(D, p, Reassert(D, Shown(D), d, p))
<1> DEFINE shown == Shown(D)
           r == Reassert(D, shown, d, p)
<1> USE DEF Reasserted
<1>1. shown \subseteq AnyCopy(D) /\ shown \subseteq Schemes
  BY ShownFacts
<1>2. p.from \in Schemes /\ p.to \in Schemes
  BY DEF Command
<1>3. CASE p.kind = "none" \/ p.to \in shown
  <2>1. r = [docs |-> D, view |-> shown, ops |-> <<>>]
    BY <1>3 DEF Reassert
  <2>2. r.docs = D /\ r.view = shown /\ r.ops = <<>>
    BY <2>1
  <2>3. <<>> \in Seq(Command) /\ Contains(D, D)
    BY ContainsItself
  <2> HIDE DEF r, shown
  <2>4. QED
    BY <1>1, <2>2, <2>3 DEF r, shown
<1>4. CASE p.kind # "none" /\ p.to \notin shown /\ p.from \in shown
  <2> DEFINE to == (shown \ {p.from}) \cup {p.to}
             m == AfterMove(D, d, to, p.from, p.to)
  <2>1. r = [docs |-> m.docs, view |-> m.view, ops |-> <<p>>]
    BY <1>4 DEF Reassert
  <2>2. r.docs = m.docs /\ r.view = m.view /\ r.ops = <<p>>
    BY <2>1
  <2>3. /\ to \in SUBSET Schemes /\ p.to \in to /\ p.from \notin to
        /\ \A s \in to : s # p.to => s \in AnyCopy(D)
    BY <1>1, <1>2, <1>4
  <2>4. <<p>> \in Seq(Command) /\ <<p>> # <<>>
    OBVIOUS
  <2> HIDE DEF to, r
  <2>5. /\ SoundDocs(m.docs) /\ Contains(m.docs, D)
        /\ \A s \in Schemes : m.docs[s].del = D[s].del
        /\ m.view \subseteq AnyCopy(m.docs) /\ m.view # {} /\ AnyCopy(m.docs) # {}
    BY <1>2, <2>3, AfterMoveSound
  <2> HIDE DEF m
  <2>6. QED
    BY <1>4, <2>2, <2>4, <2>5 DEF r, shown
<1>5. CASE p.kind # "none" /\ p.to \notin shown /\ p.from \notin shown
  <2> DEFINE V == shown \cup {p.to}
             E == Write(D, d, V, {p.to}, {}, {})
  <2>1. r = [docs |-> E, view |-> V, ops |-> <<Op("insert")>>]
    BY <1>5 DEF Reassert
  <2>2. r.docs = E /\ r.view = V /\ r.ops = <<Op("insert")>>
    BY <2>1
  <2>3. /\ SoundDocs(E) /\ Contains(E, D)
        /\ \A s \in Schemes : s \notin {p.to} => E[s] = D[s]
        /\ \A s \in Schemes : s \in {p.to} /\ s \in V => Live(E[s])
        /\ \A s \in Schemes : E[s].del = D[s].del
    BY WriteSound
  <2>4. Op("insert") \in Command
    BY SchemesAssumption DEF Op, Command
  <2>5. <<Op("insert")>> \in Seq(Command) /\ <<Op("insert")>> # <<>>
    BY <2>4
  <2>6. p.to \in AnyCopy(E)
    BY <1>2, <2>3, LiveCopy
  <2>7. \A s \in V : s # p.to => s \in Schemes /\ s \in AnyCopy(D) /\ E[s] = D[s]
    BY <1>1, <2>3
  <2>8. V \subseteq AnyCopy(E)
    BY <2>6, <2>7, SameCopy
  <2>9. V # {}
    OBVIOUS
  <2> HIDE DEF E, V, r
  <2>10. QED
    BY <1>5, <2>2, <2>3, <2>5, <2>6, <2>8, <2>9 DEF r, shown
<1>6. QED
  BY <1>3, <1>4, <1>5

LEMMA ReconcileSound ==
  ASSUME NEW r, NEW d \in Devices, SoundDocs(r.docs), r.ops \in Seq(Command)
  PROVE  LET q == Reconcile(r, d) IN
         /\ SoundDocs(q.docs) /\ Contains(q.docs, r.docs)
         /\ \A s \in Schemes : q.docs[s].add = r.docs[s].add
         /\ \A s \in Schemes : q.docs[s].del = r.docs[s].del
         /\ q.view = Shown(r.docs) /\ q.view \subseteq AnyCopy(q.docs)
         /\ q.ops \in Seq(Command)
         /\ (\E j \in DOMAIN q.ops : q.ops[j].kind = "move") => r.ops # <<>>
<1> DEFINE more == IF Hidden(r.docs) = {} THEN r.ops ELSE Append(r.ops, Op("tidy"))
           q == Reconcile(r, d)
<1>1. q = [docs |-> Tidy(r.docs, d), view |-> Shown(r.docs), ops |-> more]
  BY DEF Reconcile
<1>2. q.docs = Tidy(r.docs, d) /\ q.view = Shown(r.docs) /\ q.ops = more
  BY <1>1
<1>3. Op("tidy") \in Command /\ Op("tidy").kind = "tidy"
  BY SchemesAssumption DEF Op, Command
<1>4. more \in Seq(Command)
  BY <1>3
<1>5. (\E j \in DOMAIN more : more[j].kind = "move") => r.ops # <<>>
  <2> SUFFICES ASSUME r.ops = <<>> PROVE ~ \E j \in DOMAIN more : more[j].kind = "move"
    OBVIOUS
  <2>1. more = <<>> \/ more = <<Op("tidy")>>
    OBVIOUS
  <2>2. CASE more = <<>>
    BY <2>2
  <2>3. CASE more = <<Op("tidy")>>
    <3>1. \A j \in DOMAIN more : more[j] = Op("tidy")
      BY <2>3
    <3>2. QED
      BY <1>3, <3>1
  <2>4. QED
    BY <2>1, <2>2, <2>3
<1> HIDE DEF more, q
<1>6. QED
  BY <1>2, <1>4, <1>5, TidySound DEF q

Heard(d) == told.knows[d] \cup run[d].knows
Fixed(d) == Reassert(Adopted(d), Shown(Adopted(d)), d, Placed(ops[d]))
Done(d) ==
  IF Edited(d) \/ Shown(Adopted(d)) # view[d] \/ Fixed(d).ops # <<>>
  THEN Reconcile(Fixed(d), d) ELSE Fixed(d)
Renewed(d) ==
  IF run[d].news /\ Fixed(d).ops # <<>> /\ Wanted(Heard(d)) THEN {told.next} ELSE {}

LEMMA LandDone ==
  ASSUME NEW d \in Devices, ops[d] \in Seq(Command), SoundDocs(Adopted(d))
  PROVE  /\ SoundDocs(Done(d).docs) /\ Contains(Done(d).docs, Adopted(d))
         /\ \A s \in Schemes : Done(d).docs[s].del = Adopted(d)[s].del
         /\ Done(d).view \subseteq AnyCopy(Done(d).docs)
         /\ Done(d).ops \in Seq(Command)
         /\ AnyCopy(Adopted(d)) # {} => Done(d).view # {}
         /\ Fixed(d).ops = <<>>
              => \A s \in Schemes : Done(d).docs[s].add = Adopted(d)[s].add
         /\ (\E j \in DOMAIN Done(d).ops : Done(d).ops[j].kind = "move")
              => Fixed(d).ops # <<>>
         /\ Fixed(d).ops # <<>> => Standing(ops[d], {"move", "delete"}) # {}
<1> DEFINE D == Adopted(d)
           f == Fixed(d)
           r == Reconcile(f, d)
<1>1. /\ Placed(ops[d]) \in Command
      /\ Placed(ops[d]).kind # "none" => Standing(ops[d], {"move", "delete"}) # {}
  BY PlacedType
<1>2. /\ SoundDocs(f.docs) /\ Contains(f.docs, D)
      /\ \A s \in Schemes : f.docs[s].del = D[s].del
      /\ f.view \subseteq AnyCopy(f.docs)
      /\ f.ops \in Seq(Command)
      /\ f.ops = <<>> => f.docs = D /\ f.view = Shown(D)
      /\ f.ops # <<>> => f.view # {} /\ AnyCopy(f.docs) # {} /\ Placed(ops[d]).kind # "none"
  <2>1. Reasserted(D, Placed(ops[d]), f)
    BY <1>1, ReassertSound DEF Fixed
  <2> HIDE DEF f, D
  <2>2. QED
    BY <2>1 DEF Reasserted
<1>3. /\ SoundDocs(r.docs) /\ Contains(r.docs, f.docs)
      /\ \A s \in Schemes : r.docs[s].add = f.docs[s].add
      /\ \A s \in Schemes : r.docs[s].del = f.docs[s].del
      /\ r.view = Shown(f.docs) /\ r.view \subseteq AnyCopy(r.docs)
      /\ r.ops \in Seq(Command)
      /\ (\E j \in DOMAIN r.ops : r.ops[j].kind = "move") => f.ops # <<>>
  BY <1>2, ReconcileSound
<1>4. AnyCopy(D) # {} => AnyCopy(f.docs) # {} /\ f.view # {} /\ r.view # {}
  BY <1>2, <1>3, ShownFacts
<1>5. Contains(r.docs, D)
  BY <1>2, <1>3, WithinTransitive
<1>6. Done(d) = r \/ Done(d) = f
  BY DEF Done
<1>7. (\E j \in DOMAIN f.ops : f.ops[j].kind = "move") => f.ops # <<>>
  OBVIOUS
<1> HIDE DEF D, f, r
<1>8. CASE Done(d) = r
  BY <1>1, <1>2, <1>3, <1>4, <1>5, <1>8 DEF D, f
<1>9. CASE Done(d) = f
  BY <1>1, <1>2, <1>4, <1>7, <1>9 DEF D, f
<1>10. QED
  BY <1>6, <1>8, <1>9

\* The move a landing makes again is wanted still.
LEMMA StillWanted ==
  ASSUME MInv, lost = 0, NEW d \in Devices, Standing(ops[d], {"move", "delete"}) # {}
  PROVE  Wanted(Heard(d))
<1>1. PICK i \in Standing(ops[d], {"move", "delete"}) : TRUE
  OBVIOUS
<1>2. Pending(d)
  BY DEF MInv, Faithful
<1>3. PICK w \in Nat : Private(d, w)
  BY <1>1, <1>2 DEF Pending
<1>4. QED
  BY <1>3 DEF Private, Wanted, Heard

\* What the ghost becomes, once the device has heard the server and before it
\* renews its wish.
HeardGhost(d) ==
  [next |-> told.next, kept |-> told.kept, gone |-> told.gone, wrote |-> told.wrote,
   knows |-> [told.knows EXCEPT ![d] = Heard(d)],
   server |-> told.server \cup run[d].knows]
Renewal(d) == IF Renewed(d) = {} THEN {} ELSE Wrote(told.next, Adopted(d), docs'[d])

LEMMA LandTells ==
  ASSUME MInv, NEW d \in Devices, Land(d), docs'[d] \in Documents
  PROVE  /\ HeardGhost(d) \in Told /\ Numbered(HeardGhost(d))
         /\ Tells(HeardGhost(d), told', d, Renewed(d), Renewal(d), {})
         /\ Renewed(d) \subseteq told'.kept
<1> DEFINE g == HeardGhost(d)
           N == Renewed(d)
           W == Renewal(d)
<1>1. /\ told \in Told /\ Numbered(told)
      /\ told.next \in Nat /\ told.kept \in SUBSET Nat
      /\ told.gone \in SUBSET (Nat \X SUBSET Nat)
      /\ told.wrote \in SUBSET (Nat \X Schemes \X Tag)
      /\ told.knows \in [Devices -> SUBSET Nat] /\ told.server \in SUBSET Nat
      /\ run[d].knows \in SUBSET Nat /\ Below(run[d].knows, told.next)
  BY DEF MInv, Types, Told, Run, RunFits
<1>2. Heard(d) \in SUBSET Nat /\ Below(Heard(d), told.next)
  BY <1>1 DEF Heard, Numbered, Below
<1>3. /\ g.next = told.next /\ g.kept = told.kept /\ g.gone = told.gone
      /\ g.wrote = told.wrote /\ g.knows = [told.knows EXCEPT ![d] = Heard(d)]
      /\ g.server = told.server \cup run[d].knows
  BY DEF HeardGhost
<1>4. g \in Told
  <2>1. [told.knows EXCEPT ![d] = Heard(d)] \in [Devices -> SUBSET Nat]
    BY <1>1, <1>2
  <2>2. QED
    BY <1>1, <2>1 DEF HeardGhost, Told
<1>5. Numbered(g)
  <2>1. \A e \in Devices : Below(g.knows[e], told.next)
    BY <1>1, <1>2, <1>3 DEF Numbered
  <2>2. Below(g.server, told.next)
    BY <1>1, <1>3 DEF Numbered, Below
  <2>3. QED
    BY <1>1, <1>3, <2>1, <2>2 DEF Numbered
<1>6. told' = [told EXCEPT !.server = @ \cup run[d].knows,
                           !.knows[d] = Heard(d) \cup N,
                           !.kept = @ \cup N,
                           !.wrote = IF N = {} THEN @
                                     ELSE @ \cup Wrote(told.next, Adopted(d), docs'[d]),
                           !.next = IF N = {} THEN @ ELSE @ + 1]
  BY DEF Land, Heard, Renewed, Fixed
<1>7. told' = [next |-> IF N = {} THEN told.next ELSE told.next + 1,
               kept |-> told.kept \cup N, gone |-> told.gone,
               wrote |-> told.wrote \cup W,
               knows |-> [told.knows EXCEPT ![d] = Heard(d) \cup N],
               server |-> told.server \cup run[d].knows]
  <2>1. (IF N = {} THEN told.wrote
         ELSE told.wrote \cup Wrote(told.next, Adopted(d), docs'[d])) = told.wrote \cup W
    BY DEF Renewal
  <2> HIDE DEF N, W
  <2>2. QED
    BY <1>1, <1>6, <2>1 DEF Told
<1>8. N = {} \/ N = {told.next}
  BY DEF Renewed
<1>9. W \in SUBSET (Nat \X Schemes \X Tag)
  BY <1>1, WroteType DEF Renewal
<1>10. \A w, s, t : <<w, s, t>> \in W => w = told.next /\ N # {}
  BY ONLY WroteTags DEF Renewal
<1> HIDE DEF N, W
<1>11. told' \in Told
  <2>1. [told.knows EXCEPT ![d] = Heard(d) \cup N] \in [Devices -> SUBSET Nat]
    BY <1>1, <1>2, <1>8
  <2>2. (IF N = {} THEN told.next ELSE told.next + 1) \in Nat
    BY <1>1
  <2>3. told.kept \cup N \in SUBSET Nat
    BY <1>1, <1>8
  <2>4. QED
    BY <1>1, <1>7, <1>9, <2>1, <2>2, <2>3 DEF Told
<1>12. told'.knows = [g.knows EXCEPT ![d] = @ \cup N]
  BY <1>1, <1>3, <1>7
<1>13. /\ told'.next = IF N = {} THEN told.next ELSE told.next + 1
       /\ told'.kept = told.kept \cup N /\ told'.gone = told.gone
       /\ told'.wrote = told.wrote \cup W
       /\ told'.server = told.server \cup run[d].knows
  BY <1>7
<1> HIDE DEF g
<1>14. Tells(g, told', d, N, W, {})
  BY <1>3, <1>8, <1>10, <1>11, <1>12, <1>13 DEF Tells
<1>15. QED
  BY <1>4, <1>5, <1>13, <1>14 DEF g, N, W


\* A landing leaves the documents E, the view V and, after the commands that were
\* not sent, the commands q.
IsLanding(d, E, V, q) ==
  /\ run[d].on
  /\ docs' = [docs EXCEPT ![d] = E] /\ view' = [view EXCEPT ![d] = V]
  /\ ops' = [ops EXCEPT ![d] = Unsent(ops[d], run[d].sent) \o q]
  /\ undo' \in [Devices -> SUBSET Schemes]
  /\ server' = Join(server, run[d].docs) /\ run' = [run EXCEPT ![d] = NoRun]
  /\ acts' = acts /\ lost' = lost
  /\ q \in Seq(Command)
  /\ SoundDocs(E) /\ Contains(E, Adopted(d))
  /\ \A s \in Schemes : E[s].del = Adopted(d)[s].del
  /\ V \subseteq AnyCopy(E)
  /\ V = {} => view[d] = {} \/ AnyCopy(Adopted(d)) = {}
  /\ \/ \A s \in Schemes : E[s].add = Adopted(d)[s].add
     \/ run[d].news /\ Fixed(d).ops # <<>>
  /\ (\E j \in DOMAIN q : q[j].kind = "move") => run[d].news /\ Fixed(d).ops # <<>>
  /\ Fixed(d).ops # <<>> => Standing(ops[d], {"move", "delete"}) # {}

LEMMA LandLands ==
  ASSUME MInv, NEW d \in Devices, Land(d)
  PROVE  \E E, V, q : IsLanding(d, E, V, q)
<1>1. /\ Types /\ run[d].on /\ ops[d] \in Seq(Command) /\ run[d].sent \in Nat
      /\ run[d].sent <= Len(ops[d])
      /\ docs \in [Devices -> Documents] /\ view \in [Devices -> SUBSET Schemes]
      /\ undo \in [Devices -> SUBSET Schemes] /\ ops \in [Devices -> Seq(Command)]
  BY DEF MInv, Types, RunFits, Run, Land
<1>2. /\ ~run[d].news => Adopted(d) = docs[d]
      /\ SoundDocs(Adopted(d))
  BY <1>1, LandMerges DEF Holds
<1>3. /\ SoundDocs(Done(d).docs) /\ Contains(Done(d).docs, Adopted(d))
      /\ \A s \in Schemes : Done(d).docs[s].del = Adopted(d)[s].del
      /\ Done(d).view \subseteq AnyCopy(Done(d).docs)
      /\ Done(d).ops \in Seq(Command)
      /\ AnyCopy(Adopted(d)) # {} => Done(d).view # {}
      /\ Fixed(d).ops = <<>>
           => \A s \in Schemes : Done(d).docs[s].add = Adopted(d)[s].add
      /\ (\E j \in DOMAIN Done(d).ops : Done(d).ops[j].kind = "move")
           => Fixed(d).ops # <<>>
      /\ Fixed(d).ops # <<>> => Standing(ops[d], {"move", "delete"}) # {}
  BY <1>1, <1>2, LandDone
<1>4. /\ server' = Join(server, run[d].docs) /\ run' = [run EXCEPT ![d] = NoRun]
      /\ acts' = acts /\ lost' = lost
      /\ \/ /\ run[d].news
            /\ docs' = [docs EXCEPT ![d] = Done(d).docs]
            /\ view' = [view EXCEPT ![d] = Done(d).view]
            /\ ops' = [ops EXCEPT ![d] = Unsent(ops[d], run[d].sent) \o Done(d).ops]
            /\ undo' = [undo EXCEPT ![d] = Invalidated(d, Shown(Adopted(d)))]
         \/ /\ ~run[d].news
            /\ ops' = [ops EXCEPT ![d] = Unsent(ops[d], run[d].sent)]
            /\ docs' = docs /\ view' = view /\ undo' = undo
  BY DEF Land, Done, Fixed
<1>5. CASE run[d].news
  <2>1. undo' \in [Devices -> SUBSET Schemes]
    BY <1>1, <1>4, <1>5 DEF Invalidated
  <2>2. IsLanding(d, Done(d).docs, Done(d).view, Done(d).ops)
    BY <1>1, <1>3, <1>4, <1>5, <2>1 DEF IsLanding
  <2>3. QED
    BY <2>2
<1>6. CASE ~run[d].news
  <2>1. docs' = [docs EXCEPT ![d] = docs[d]] /\ view' = [view EXCEPT ![d] = view[d]]
    BY <1>1, <1>4, <1>6
  <2>2. Unsent(ops[d], run[d].sent) \o <<>> = Unsent(ops[d], run[d].sent)
    <3>1. Unsent(ops[d], run[d].sent) \in Seq(Command)
      BY <1>1 DEF Unsent
    <3>2. QED
      BY <3>1
  <2>3. ops' = [ops EXCEPT ![d] = Unsent(ops[d], run[d].sent) \o <<>>]
    BY <1>4, <1>6, <2>2
  <2>4. view[d] \subseteq AnyCopy(docs[d])
    BY DEF MInv, Views
  <2>5. <<>> \in Seq(Command) /\ DOMAIN <<>> = {}
    OBVIOUS
  <2>6. Contains(docs[d], docs[d])
    BY ContainsItself
  <2>7. IsLanding(d, docs[d], view[d], <<>>)
    BY <1>1, <1>2, <1>3, <1>4, <1>6, <2>1, <2>3, <2>4, <2>5, <2>6 DEF IsLanding
  <2>8. QED
    BY <2>7
<1>7. QED
  BY <1>5, <1>6

LEMMA LandStep ==
  ASSUME MInv, NEW d \in Devices, Land(d)
  PROVE  MInv'
<1> DEFINE S == Join(server, run[d].docs)
           A == Adopted(d)
           g == HeardGhost(d)
           N == Renewed(d)
           n == run[d].sent
<1>1. PICK E, V, q : IsLanding(d, E, V, q)
  BY LandLands
<1>2. /\ told \in Told /\ Numbered(told) /\ Types /\ run[d].on /\ n \in Nat
      /\ run \in [Devices -> Run] /\ n <= Len(ops[d]) /\ told.next \in Nat
      /\ \A e \in Devices : ops[e] \in Seq(Command) /\ Len(ops[e]) \in Nat
  <2>1. Types /\ Numbered(told) /\ RunFits(d) /\ run[d].on
    BY <1>1 DEF MInv, IsLanding
  <2>2. told \in Told /\ told.next \in Nat
    BY <2>1 DEF Types, Told
  <2>3. run \in [Devices -> Run] /\ n \in Nat
    BY <2>1 DEF Types, Run
  <2>4. \A e \in Devices : ops[e] \in Seq(Command) /\ Len(ops[e]) \in Nat
    BY <2>1 DEF Types
  <2>5. QED
    BY <2>1, <2>2, <2>3, <2>4 DEF RunFits
<1>3. /\ docs'[d] = E /\ view'[d] = V /\ ops'[d] = Unsent(ops[d], n) \o q
      /\ \A e \in Devices : e # d =>
           docs'[e] = docs[e] /\ view'[e] = view[e] /\ ops'[e] = ops[e]
      /\ run'[d] = NoRun /\ \A e \in Devices : e # d => run'[e] = run[e]
      /\ server' = S /\ lost' = lost /\ acts' = acts
      /\ E \in Documents
  BY <1>1, <1>2 DEF IsLanding, Types, SoundDocs
<1>4. /\ g \in Told /\ Numbered(g)
      /\ Tells(g, told', d, N, Renewal(d), {})
      /\ N \subseteq told'.kept
  BY <1>3, LandTells
<1>5. /\ g.next = told.next /\ g.kept = told.kept /\ g.gone = told.gone
      /\ g.wrote = told.wrote /\ g.knows = [told.knows EXCEPT ![d] = Heard(d)]
      /\ g.server = told.server \cup run[d].knows
  BY DEF HeardGhost
<1>6. Heard(d) \in SUBSET Nat
  BY <1>2 DEF Heard, Told, Run
<1> HIDE DEF g
<1>7. /\ Numbered(told') /\ told'.next \in Nat
      /\ \A K \in SUBSET Nat : Below(K, told.next) => Below(K, told'.next)
  BY <1>4, <1>5, TellsNumbered
<1>8. /\ told' \in Told
      /\ told'.gone = told.gone /\ told'.server = told.server \cup run[d].knows
      /\ told.kept \subseteq told'.kept
      /\ \A e \in Devices : e # d => told'.knows[e] = told.knows[e]
      /\ told'.knows[d] = Heard(d) \cup N
      /\ N = {} \/ N = {told.next}
  <2>1. told.knows \in [Devices -> SUBSET Nat]
    BY <1>2 DEF Told
  <2>2. told'.knows = [g.knows EXCEPT ![d] = @ \cup N]
    BY <1>4 DEF Tells
  <2>3. /\ \A e \in Devices : e # d => told'.knows[e] = told.knows[e]
        /\ told'.knows[d] = Heard(d) \cup N
    BY <1>5, <1>6, <2>1, <2>2
  <2>4. /\ told' \in Told /\ told'.gone = told.gone /\ told'.server = g.server
        /\ told.kept \subseteq told'.kept /\ (N = {} \/ N = {told.next})
    BY <1>4, <1>5 DEF Tells
  <2>5. QED
    BY <1>5, <2>3, <2>4
<1>9. NoRun.knows = {} /\ ~NoRun.on /\ NoRun \in Run
  BY NoRunType DEF NoRun
<1>10. /\ Holds(told, S, told'.server) /\ S \in Documents
       /\ lost = 0 => Reflects(told, S, told'.server)
  BY <1>2, <1>8, Pushed
<1>11. /\ Holds(told, A, Heard(d))
       /\ lost = 0 => Reflects(told, A, Heard(d))
  BY <1>2, LandMerges DEF Heard
<1>12. /\ told.server \in SUBSET Nat /\ Below(told.server, told.next)
       /\ \A e \in Devices : told.knows[e] \in SUBSET Nat /\ Below(told.knows[e], told.next)
       /\ \A e \in Devices : run[e].knows \in SUBSET Nat /\ Below(run[e].knows, told.next)
  BY <1>2 DEF MInv, Numbered, RunFits, Told, Run
<1>13. told'.server \in SUBSET Nat /\ Below(told'.server, told.next)
  BY <1>2, <1>8, <1>12 DEF Below
<1>14. Below(Heard(d), told.next)
  BY <1>2, <1>12 DEF Heard, Below
<1> HIDE DEF S, A, N, n
<1>15. Types'
  <2>1. docs' \in [Devices -> Documents]
    BY <1>1, <1>2, <1>3 DEF IsLanding, Types
  <2>2. V \subseteq Schemes
    BY <1>1, ShownFacts DEF IsLanding
  <2>3. view' \in [Devices -> SUBSET Schemes]
    BY <1>1, <1>2, <2>2 DEF IsLanding, Types
  <2>4. Unsent(ops[d], n) \o q \in Seq(Command)
    <3>1. Unsent(ops[d], n) \in Seq(Command)
      BY <1>2 DEF Unsent
    <3>2. q \in Seq(Command)
      BY <1>1 DEF IsLanding
    <3>3. QED
      BY <3>1, <3>2
  <2>5. ops' \in [Devices -> Seq(Command)]
    BY <1>1, <1>2, <2>4 DEF IsLanding, Types, n
  <2>6. run' \in [Devices -> Run]
    BY <1>1, <1>2, <1>9 DEF IsLanding
  <2>7. undo' \in [Devices -> SUBSET Schemes]
    BY <1>1 DEF IsLanding
  <2>8. QED
    BY <1>2, <1>3, <1>8, <1>10, <2>1, <2>3, <2>5, <2>6, <2>7 DEF Types
<1>16. ASSUME NEW e \in Devices PROVE RunFits(e)'
  <2>1. CASE e = d
    BY <1>3, <1>9, <2>1 DEF RunFits, Below
  <2>2. CASE e # d
    BY <1>3, <1>7, <1>12, <2>2 DEF MInv, RunFits
  <2>3. QED
    BY <2>1, <2>2
<1>17. Replicas'
  <2>1. ASSUME NEW D, NEW K, Holds(told, D, K) PROVE Holds(told', D, K)
    BY <1>8, <2>1 DEF Holds
  <2>2. Holds(told', E, told'.knows[d])
    <3>1. /\ SoundDocs(E) /\ Contains(E, A)
          /\ \A s \in Schemes : E[s].del = A[s].del
      BY <1>1 DEF IsLanding, A
    <3>2. Heard(d) \subseteq told'.knows[d] /\ told.gone \subseteq told'.gone
      BY <1>8
    <3>3. QED
      BY ONLY <1>11, <3>1, <3>2, HoldsMore
  <2>3. ASSUME NEW e \in Devices PROVE Holds(told', docs'[e], told'.knows[e])
    BY <1>3, <1>8, <2>1, <2>2 DEF MInv, Replicas
  <2>4. ASSUME NEW e \in Devices, run'[e].on
        PROVE  Holds(told', run'[e].docs, run'[e].knows)
    BY <1>3, <1>9, <2>1, <2>4 DEF MInv, Replicas
  <2>5. QED
    BY <1>3, <1>10, <2>1, <2>3, <2>4 DEF Replicas
<1>18. Views'
  BY <1>1, <1>3 DEF MInv, Views, IsLanding
<1>19. NeverLost'
  <2> SUFFICES ASSUME NEW e \in Devices, view'[e] = {}
               PROVE  \E x \in told'.gone : x[1] \in told'.knows[e]
    BY DEF NeverLost, Deleted
  <2>1. CASE view[e] = {}
    <3>1. told.knows[e] \subseteq told'.knows[e]
      BY <1>8 DEF Heard
    <3>2. QED
      BY <1>8, <2>1, <3>1 DEF MInv, NeverLost, Deleted
  <2>2. CASE view[e] # {}
    <3>1. e = d
      BY <1>3, <2>2
    <3>2. AnyCopy(A) = {}
      BY <1>1, <1>3, <2>2, <3>1 DEF IsLanding, A
    <3>3. Doomed(A)
      BY <1>11, <3>2, SomeCopy DEF Holds
    <3>4. QED
      BY <1>8, <1>11, <3>1, <3>3 DEF Holds
  <2>3. QED
    BY <2>1, <2>2
<1>20. ASSUME lost = 0 PROVE Faithful'
  <2>1. Faithful
    BY <1>20 DEF MInv
  <2>2. ASSUME NEW D, NEW K, Reflects(told, D, K) PROVE Reflects(g, D, K)
    BY <1>5, <2>2 DEF Reflects
  <2>3. ASSUME NEW D, NEW K \in SUBSET Nat, Below(K, told.next), Reflects(told, D, K)
        PROVE  Reflects(told', D, K)
    <3>1. Reflects(g, D, K) /\ Below(K, g.next)
      BY <1>5, <2>2, <2>3
    <3>2. QED
      BY <1>4, <3>1, ReflectsOthers
  <2>4. Reflects(told', server', told'.server)
    BY <1>3, <1>10, <1>13, <1>20, <2>3
  <2>5. (\E s \in Schemes : E[s].add # A[s].add) \/ (\E j \in DOMAIN q : q[j].kind = "move")
          => N = {told.next}
    BY <1>1, <1>20, StillWanted DEF IsLanding, N, Renewed, A
  <2>6. Reflects(told', E, told'.knows[d])
    <3> DEFINE W == Renewal(d)
    <3>1. Reflects(g, A, Heard(d)) /\ Below(Heard(d), g.next)
      BY <1>5, <1>11, <1>14, <1>20, <2>2
    <3>2. Contains(E, A)
      BY <1>1 DEF IsLanding, A
    <3>3. W = IF N = {} THEN {} ELSE Wrote(g.next, A, E)
      BY <1>3, <1>5 DEF Renewal, N, A
    <3>4. \A s \in Schemes : E[s].add # A[s].add => N # {} /\ W = Wrote(g.next, A, E)
      BY <2>5, <3>3
    <3>5. W = {} \/ W = Wrote(g.next, A, E)
      BY <3>3
    <3>6. Tells(g, told', d, N, W, {})
      BY <1>4
    <3> HIDE DEF W
    <3>7. Reflects(told', E, Heard(d) \cup N)
      BY ONLY <1>4, <1>6, <3>1, <3>2, <3>4, <3>5, <3>6, ReflectsOwn, d \in Devices
    <3>8. QED
      BY <1>8, <3>7
  <2>7. ASSUME NEW e \in Devices PROVE Reflects(told', docs'[e], told'.knows[e])
    <3>1. CASE e = d
      BY <1>3, <2>6, <3>1
    <3>2. CASE e # d
      BY <1>3, <1>8, <1>12, <2>1, <2>3, <3>2 DEF Faithful
    <3>3. QED
      BY <3>1, <3>2
  <2>8. ASSUME NEW e \in Devices, run'[e].on
        PROVE  Reflects(told', run'[e].docs, run'[e].knows)
    BY <1>3, <1>9, <1>12, <2>1, <2>3, <2>8 DEF Faithful
  <2>9. ASSUME NEW e \in Devices PROVE Pending(e)'
    <3> SUFFICES ASSUME NEW i \in Standing(ops'[e], {"move", "delete"})
                 PROVE  \E w \in Nat : /\ Private(e, w)'
                                       /\ i > run'[e].sent => w \notin run'[e].knows
      BY DEF Pending
    <3>1. ASSUME NEW w \in Nat, Private(e, w), w \notin run[d].knows
          PROVE  Private(e, w)'
      <4>1. w # told.next
        BY <1>2, <3>1 DEF Private, Numbered, Below
      <4>2. w \notin told'.server /\ w \in told'.kept /\ w \in told'.knows[e]
        BY <1>8, <3>1 DEF Private, Heard
      <4>3. \A f \in Devices : f # e => w \notin told'.knows[f] /\ w \notin run'[f].knows
        BY <1>3, <1>8, <1>9, <3>1, <4>1 DEF Private, Heard
      <4>4. QED
        BY <1>8, <3>1, <4>2, <4>3 DEF Private
    <3>2. CASE e # d
      <4>1. PICK w \in Nat : Private(e, w) /\ (i > run[e].sent => w \notin run[e].knows)
        BY <1>3, <2>1, <3>2 DEF Faithful, Pending
      <4>2. w \notin run[d].knows
        BY <3>2, <4>1 DEF Private
      <4>3. QED
        BY <1>3, <3>1, <3>2, <4>1, <4>2
    <3>3. CASE e = d
      <4>1. CASE i + n \in Standing(ops[d], {"move", "delete"}) /\ i \in Nat \ {0}
        <5>1. PICK w \in Nat : Private(d, w) /\ (i + n > n => w \notin run[d].knows)
          BY <2>1, <4>1 DEF Faithful, Pending, n
        <5>2. i + n > n
          BY <1>2, <4>1
        <5>3. QED
          BY <1>3, <1>9, <3>1, <3>3, <5>1, <5>2
      <4>2. CASE \E j \in DOMAIN q : q[j].kind = "move"
        <5>1. PICK w \in Nat : w = told.next
          BY <1>2
        <5>2. N = {w}
          BY <2>5, <4>2, <5>1
        <5>3. w \in told'.kept /\ w \in told'.knows[d]
          BY <1>4, <1>8, <5>2
        <5>4. ASSUME NEW K \in SUBSET Nat, Below(K, told.next) PROVE w \notin K
          BY <5>1, <5>4 DEF Below
        <5>5. w \notin told'.server
          BY <1>13, <5>4
        <5>6. \A f \in Devices : f # d => w \notin told'.knows[f] /\ w \notin run'[f].knows
          BY <1>3, <1>8, <1>12, <5>4
        <5>7. \A x \in told'.gone : w \notin x[2]
          BY <1>2, <1>8, <5>4 DEF Numbered, Told
        <5>8. Private(d, w)'
          BY <5>3, <5>5, <5>6, <5>7 DEF Private
        <5>9. QED
          BY <1>3, <1>9, <3>3, <5>8
      <4>3. QED
        <5>1. q \in Seq(Command) /\ n \in 0..Len(ops[d]) /\ ops[d] \in Seq(Command)
          BY <1>1, <1>2 DEF IsLanding
        <5>2. i \in Standing(Unsent(ops[d], n) \o q, {"move", "delete"})
          BY <1>3, <3>3
        <5>3. \/ i + n \in Standing(ops[d], {"move", "delete"}) /\ i \in Nat \ {0}
              \/ \E j \in DOMAIN q : q[j].kind = "move"
          BY ONLY <5>1, <5>2, StandingLanded
        <5>4. QED
          BY <4>1, <4>2, <5>3
    <3>4. QED
      BY <3>2, <3>3
  <2>10. QED
    BY <2>4, <2>7, <2>8, <2>9 DEF Faithful
<1>21. QED
  BY <1>3, <1>7, <1>15, <1>16, <1>17, <1>18, <1>19, <1>20 DEF MInv

(***************************************************************************)
(* The theorems.                                                           *)
(***************************************************************************)
LEMMA InitSound == Init => MInv
<1> SUFFICES ASSUME Init PROVE MInv
  OBVIOUS
<1> DEFINE e == [add |-> {Seed}, rem |-> {}, mov |-> {}, del |-> {}]
<1>1. Later({Seed}) = {} /\ IsFiniteSet({Seed}) /\ Later({}) = {} /\ IsFiniteSet({})
  BY FS_Singleton, FS_EmptySet DEF Later
<1>2. Sound(e) /\ Live(e)
  BY <1>1, TagFacts DEF Sound, Entry, WellFormed, Live, Active
<1>3. Sound(Absent)
  BY <1>1 DEF Sound, Entry, WellFormed, Absent
<1>4. \A s \in Schemes : server[s] = IF s = Home THEN e ELSE Absent
  <2>1. [Absent EXCEPT !.add = {Seed}] = e
    BY DEF Absent
  <2>2. QED
    BY <2>1 DEF Init
<1>5. server = [s \in Schemes |-> server[s]]
  BY DEF Init
<1>6. \A s \in Schemes : Sound(server[s])
  BY <1>2, <1>3, <1>4
<1>7. SoundDocs(server)
  BY <1>5, <1>6 DEF SoundDocs, Documents, Sound
<1>8. /\ \A d \in Devices : docs[d] = server /\ view[d] = {Home} /\ ops[d] = <<>>
      /\ \A d \in Devices : run[d] = NoRun /\ told.knows[d] = {0}
      /\ told.next = 1 /\ told.kept = {0} /\ told.gone = {} /\ told.server = {0}
      /\ told.wrote = {<<0, Home, Seed>>} /\ acts = 0 /\ lost = 0
  BY DEF Init
<1>9. NoRun.knows = {} /\ ~NoRun.on /\ NoRun \in Run
  BY NoRunType DEF NoRun
<1>10. Home \in Schemes /\ Home \in AnyCopy(server)
  BY <1>2, <1>4, SchemesAssumption, LiveCopy
<1>11. Types
  <2>1. told \in Told
    <3>1. told.wrote \in SUBSET (Nat \X Schemes \X Tag)
      BY <1>8, <1>10, TagFacts
    <3>2. [d \in Devices |-> {0}] \in [Devices -> SUBSET Nat]
      OBVIOUS
    <3>3. told = [next |-> 1, kept |-> {0}, gone |-> {}, wrote |-> {<<0, Home, Seed>>},
                  knows |-> [d \in Devices |-> {0}], server |-> {0}]
      BY DEF Init
    <3>4. QED
      BY ONLY <1>8, <3>1, <3>2, <3>3 DEF Told
  <2>2. /\ docs \in [Devices -> Documents] /\ view \in [Devices -> SUBSET Schemes]
        /\ ops \in [Devices -> Seq(Command)] /\ undo \in [Devices -> SUBSET Schemes]
        /\ run \in [Devices -> Run]
    <3>1. <<>> \in Seq(Command) /\ {Home} \in SUBSET Schemes /\ {} \in SUBSET Schemes
      BY <1>10
    <3>2. server \in Documents
      BY <1>7 DEF SoundDocs
    <3>3. /\ docs = [d \in Devices |-> server] /\ view = [d \in Devices |-> {Home}]
          /\ ops = [d \in Devices |-> <<>>] /\ undo = [d \in Devices |-> {}]
          /\ run = [d \in Devices |-> NoRun]
      BY DEF Init
    <3>4. QED
      BY ONLY <1>9, <3>1, <3>2, <3>3
  <2>3. acts + lost <= MaxActs /\ acts \in Nat /\ lost \in Nat
    BY <1>8, BoundsAssumption
  <2>4. QED
    BY <1>7, <2>1, <2>2, <2>3 DEF Types, SoundDocs
<1>12. Numbered(told)
  <2>1. \A w \in Nat, s \in Schemes, t \in Tag : <<w, s, t>> \in told.wrote => w = 0
    BY <1>8
  <2>2. QED
    BY <1>8, <2>1 DEF Numbered, Below
<1>13. \A d \in Devices : RunFits(d)
  BY <1>8, <1>9 DEF RunFits, Below
<1>14. Holds(told, server, {0})
  <2>1. Added(server)
    BY <1>4, <1>10 DEF Added
  <2>2. ~Doomed(server)
    BY <1>4 DEF Doomed, Absent
  <2>3. QED
    BY <1>7, <2>1, <2>2 DEF Holds
<1>15. Reflects(told, server, {0})
  <2>1. \A s \in Schemes : \A t \in server[s].add : s = Home /\ t = Seed
    BY <1>4 DEF Absent
  <2>2. \A w \in {0}, s \in Schemes, t \in Tag : <<w, s, t>> \in told.wrote => t \in server[s].add
    BY <1>4, <1>8
  <2>3. QED
    BY <1>8, <2>1, <2>2 DEF Reflects
<1>16. Replicas
  BY <1>8, <1>9, <1>14 DEF Replicas
<1>17. Views /\ NeverLost
  BY <1>8, <1>10 DEF Views, NeverLost
<1>18. Faithful
  <2>1. \A d \in Devices : Standing(ops[d], {"move", "delete"}) = {}
    BY <1>8 DEF Standing
  <2>2. QED
    BY <1>8, <1>9, <1>15, <2>1 DEF Faithful, Pending
<1>19. QED
  BY <1>11, <1>12, <1>13, <1>16, <1>17, <1>18 DEF MInv

LEMMA StutterSound == MInv /\ UNCHANGED vars => MInv'
<1> SUFFICES ASSUME MInv, UNCHANGED vars PROVE MInv'
  OBVIOUS
<1> USE DEF vars
<1>1. Types' /\ Numbered(told)' /\ (\A d \in Devices : RunFits(d))'
  BY DEF MInv, Types, RunFits
<1>2. Replicas' /\ Views' /\ NeverLost'
  BY DEF MInv, Replicas, Views, NeverLost, Deleted
<1>3. ASSUME lost = 0 PROVE Faithful'
  <2>1. ASSUME NEW d \in Devices, NEW w PROVE Private(d, w)' = Private(d, w)
    BY DEF Private
  <2>2. \A d \in Devices : Pending(d)'
    BY <1>3, <2>1 DEF MInv, Faithful, Pending
  <2>3. QED
    BY <1>3, <2>2 DEF MInv, Faithful
<1>4. QED
  BY <1>1, <1>2, <1>3 DEF MInv

LEMMA NextSound == MInv /\ Next => MInv'
<1> SUFFICES ASSUME MInv, Next PROVE MInv'
  OBVIOUS
<1>1. PICK d \in Devices : UserActs(d) \/ Sync(d)
  BY DEF Next
<1>2. CASE \E s, t \in Schemes : MoveLine(d, s, t)
  BY <1>2, MoveLineStep
<1>3. CASE \E s \in Schemes : DeleteLine(d, s)
  BY <1>3, DeleteLineStep
<1>4. CASE \E s \in Schemes : EditScheme(d, s)
  BY <1>4, EditSchemeStep
<1>5. CASE UndoDelete(d)
  BY <1>5, UndoDeleteStep
<1>6. CASE Pull(d)
  BY <1>6, PullStep
<1>7. CASE Land(d)
  BY <1>7, LandStep
<1>8. CASE LoseAnswer(d)
  BY <1>8, LoseAnswerStep
<1>9. QED
  BY <1>1, <1>2, <1>3, <1>4, <1>5, <1>6, <1>7, <1>8 DEF UserActs, Sync

\* The inductive invariant: what every replica's documents hold of the wishes and
\* the deletions it has heard of, however the devices act and their runs cross.
THEOREM ReplicasAgree == Spec => []MInv
<1>1. Init => MInv
  BY InitSound
<1>2. MInv /\ [Next]_vars => MInv'
  BY NextSound, StutterSound
<1>3. QED
  BY <1>1, <1>2, PTL DEF Spec

\* Every variable keeps its type, and a document's entry removes only tags it
\* added and says why of each and of no other.
THEOREM LinesTyped == Spec => []TypeOK
<1>1. MInv => TypeOK
  <2> SUFFICES ASSUME MInv PROVE TypeOK
    OBVIOUS
  <2>1. Types
    BY DEF MInv
  <2>2. \A s \in Schemes : WellFormed(server[s]) /\ \A d \in Devices : WellFormed(docs[d][s])
    BY DEF MInv, Replicas, Holds, SoundDocs, Sound
  <2>3. acts \in 0..MaxActs /\ lost \in 0..MaxActs
    BY <2>1, BoundsAssumption DEF Types
  <2>4. QED
    BY <2>1, <2>2, <2>3 DEF Types, Documents, TypeOK
<1>2. QED
  BY <1>1, ReplicasAgree, PTL

\* A device that knows of no deletion shows the line, however many devices move it
\* and whatever answers are lost.
THEOREM LineNeverLost == Spec => []NeverLost
<1>1. MInv => NeverLost
  BY DEF MInv
<1>2. QED
  BY <1>1, ReplicasAgree, PTL

\* While no answer is lost, a device shows a line only if it knows of a wish to have
\* it that no deletion it knows of was aware of: a repair never brings back by
\* itself what a user deleted.
THEOREM DeletedStaysDeleted == Spec => []StaysDeleted
<1>1. MInv => StaysDeleted
  <2> SUFFICES ASSUME MInv, lost = 0, NEW d \in Devices, view[d] # {}
               PROVE  Wanted(told.knows[d])
    BY DEF StaysDeleted
  <2> DEFINE D == docs[d]
             K == told.knows[d]
  <2>1. /\ Reflects(told, D, K) /\ SoundDocs(D) /\ K \in SUBSET Nat /\ Numbered(told)
        /\ view[d] \subseteq AnyCopy(D)
    BY DEF MInv, Faithful, Replicas, Holds, Types, Told, Views
  <2>2. PICK s \in Schemes : s \in AnyCopy(D)
    BY <2>1 DEF AnyCopy, Copies
  <2>3. Sound(D[s]) /\ (Live(D[s]) \/ Placement(D[s]))
    BY <2>1, <2>2 DEF SoundDocs, AnyCopy, Copies
  <2>4. PICK t \in D[s].add : t \in D[s].rem => D[s].del = {}
    <3>1. CASE Live(D[s])
      <4>1. PICK t : t \in D[s].add /\ t \notin D[s].rem
        BY <3>1 DEF Live, Active
      <4>2. QED
        BY <4>1
    <3>2. CASE Placement(D[s])
      <4>1. D[s].rem \subseteq D[s].add /\ D[s].mov \cup D[s].del = D[s].rem
        BY <2>3 DEF Sound, WellFormed
      <4>2. D[s].rem # {} /\ D[s].rem \subseteq D[s].mov \ D[s].del
        BY <3>2 DEF Placement
      <4>3. PICK t : t \in D[s].rem
        BY <4>2
      <4>4. D[s].del = {}
        BY <4>1, <4>2
      <4>5. QED
        BY <4>1, <4>3, <4>4
    <3>3. QED
      BY <2>3, <3>1, <3>2
  <2>5. t \in Tag
    BY <2>3 DEF Sound, Entry
  <2>6. PICK w \in K : <<w, s, t>> \in told.wrote
    BY <2>1 DEF Reflects
  <2>7. w \in Nat /\ w \in told.kept
    BY <2>1, <2>5, <2>6 DEF Numbered
  <2>8. ASSUME NEW x \in told.gone, x[1] \in K PROVE w \notin x[2]
    BY <2>1, <2>4, <2>5, <2>6, <2>7, <2>8 DEF Reflects
  <2>9. QED
    BY <2>6, <2>7, <2>8 DEF Wanted
<1>2. QED
  BY <1>1, ReplicasAgree, PTL
=============================================================================
