-------------------------- MODULE FolderTree_proofs --------------------------
(***************************************************************************)
(* Proofs about the workspace index (FolderTree).                          *)
(***************************************************************************)
EXTENDS FolderTree, FiniteSetTheorems, TLAPS

(***************************************************************************)
(* Numbers. A set of natural numbers has a least member, so what holds of  *)
(* zero and passes from each number to the next holds of all: this is how  *)
(* the two loops of the model are reasoned about, the set being that of    *)
(* the rounds after which something is true.                               *)
(***************************************************************************)
\* Every natural number is in a set that has zero and all successors: those up to n
\* that are not in it would be as many as their predecessors, which n is none of.
LEMMA SetInduction ==
  ASSUME NEW S, 0 \in S, \A n \in Nat : n \in S => n + 1 \in S
  PROVE  Nat \subseteq S
<1> SUFFICES ASSUME NEW n \in Nat, n \notin S PROVE FALSE
  OBVIOUS
<1> DEFINE A == {k \in 0..n : k \notin S}
           f == [k \in A |-> k - 1]
<1>1. \A k \in A : k \in Nat /\ k # 0 /\ k - 1 \in A
  OBVIOUS
<1>2. IsFiniteSet(A)
  <2>1. A \in SUBSET (0..n) /\ IsFiniteSet(0..n)
    BY FS_Interval
  <2> HIDE DEF A
  <2> QED BY <2>1, FS_Subset
<1>3. n \in A
  OBVIOUS
<1>4. f \in [A -> A \ {n}]
  BY <1>1
<1>5. IsFiniteSet(A \ {n}) /\ Cardinality(A \ {n}) = Cardinality(A) - 1 /\ Cardinality(A) \in Nat
  BY <1>2, <1>3, FS_RemoveElement, FS_CardinalityType
<1>6. \A x, y \in A : x # y => f[x] # f[y]
  BY <1>1
<1> HIDE DEF A, f
<1> QED BY <1>2, <1>4, <1>5, <1>6, FS_PigeonHole

\* A nonempty set of natural numbers has a least member.
LEMMA LeastExists ==
  ASSUME NEW S, S \subseteq Nat, S # {}
  PROVE  \E x \in S : \A y \in S : x <= y
<1> SUFFICES ASSUME \A x \in S : \E y \in S : ~(x <= y) PROVE FALSE
  OBVIOUS
<1> DEFINE T == {n \in Nat : \A y \in S : n <= y}
<1>1. 0 \in T
  OBVIOUS
<1>2. \A n \in Nat : n \in T => n + 1 \in T
  <2> SUFFICES ASSUME NEW n \in Nat, n \in T, NEW y \in S PROVE n + 1 <= y
    OBVIOUS
  <2>1. n # y
    OBVIOUS
  <2> QED BY <2>1
<1> HIDE DEF T
<1>3. Nat \subseteq T
  BY <1>1, <1>2, SetInduction
<1>4. PICK x : x \in S
  OBVIOUS
<1>5. x + 1 \in T
  BY <1>3, <1>4
<1> QED BY <1>4, <1>5 DEF T

\* What is assumed of the ids, the starts left out.
LEMMA FolderIds ==
  /\ Folders \subseteq Nat \ {Root} /\ Schemes \subseteq Nat \ {Root}
  /\ Folders \cap Schemes = {} /\ Folders # {} /\ IsFiniteSet(Folders)
BY IdsAssumption

\* The folders have a last one: otherwise each could be sent to the next, and they
\* are as many as those without the first.
LEMMA MaxFolders == Max(Folders) \in Folders /\ \A f \in Folders : f <= Max(Folders)
<1> SUFFICES ASSUME \A x \in Folders : \E y \in Folders : x < y PROVE FALSE
  <2>1. ASSUME NEW x \in Folders, \A y \in Folders : ~(x < y)
        PROVE  \E m \in Folders : \A y \in Folders : m >= y
    BY <2>1, FolderIds
  <2> QED BY <2>1, FolderIds DEF Max
<1> DEFINE after(x) == {y \in Folders : x < y}
           IsNext(x, y) == y \in after(x) /\ \A z \in after(x) : y <= z
           next == [x \in Folders |-> CHOOSE y \in Folders : IsNext(x, y)]
<1>1. \A x \in Folders : \E y \in Folders : IsNext(x, y)
  <2> TAKE x \in Folders
  <2>1. after(x) \subseteq Nat /\ after(x) # {}
    BY FolderIds
  <2> HIDE DEF after
  <2>2. \E y \in after(x) : \A z \in after(x) : y <= z
    BY <2>1, LeastExists
  <2> QED BY <2>2 DEF after
<1>2. \A x \in Folders : next[x] \in Folders /\ IsNext(x, next[x])
  BY <1>1
<1>3. PICK first \in Folders : \A y \in Folders : first <= y
  BY FolderIds, LeastExists
<1> HIDE DEF next
<1>4. \A x \in Folders : next[x] \in Folders \ {first}
  BY <1>2, <1>3, FolderIds
<1>5. \A x, y \in Folders : x < y => next[x] # next[y]
  <2> TAKE x, y \in Folders
  <2> HAVE x < y
  <2>1. next[x] <= y /\ y < next[y] /\ next[x] \in Nat /\ next[y] \in Nat /\ y \in Nat
    BY <1>2, FolderIds
  <2> HIDE DEF IsNext, after
  <2> QED BY <2>1
<1>6. \A x, y \in Folders : x # y => next[x] # next[y]
  BY <1>5, FolderIds
<1>7. /\ IsFiniteSet(Folders \ {first})
      /\ Cardinality(Folders \ {first}) = Cardinality(Folders) - 1
      /\ Cardinality(Folders) \in Nat
  BY <1>3, FolderIds, FS_RemoveElement, FS_CardinalityType
<1>8. next \in [Folders -> Folders \ {first}]
  BY <1>4 DEF next
<1> HIDE DEF IsNext, after
<1>9. Cardinality(Folders \ {first}) < Cardinality(Folders)
  BY <1>7
<1>10. IsFiniteSet(Folders)
  BY FolderIds
<1>11. \E x, y \in Folders : x # y /\ next[x] = next[y]
  BY <1>7, <1>8, <1>9, <1>10, FS_PigeonHole
<1> QED BY <1>6, <1>11

(***************************************************************************)
(* What is below what: the least closed set.                               *)
(***************************************************************************)
\* S has all of `from`, and with a folder of `within` every one that it lists.
Closed(S, kid, from, within) ==
  from \subseteq S /\ \A f \in Folders \cap within : kid[f] \in S => f \in S

\* What Below returns is closed itself, and adds only folders of `within`.
LEMMA BelowClosed ==
  ASSUME NEW kid, NEW from, NEW within
  PROVE  /\ Closed(Below(kid, from, within), kid, from, within)
         /\ Below(kid, from, within) \subseteq from \cup (Folders \cap within)
<1> DEFINE inside == Folders \cap within
           closed == {S \in SUBSET (from \cup inside) :
                        from \subseteq S /\ \A f \in inside : kid[f] \in S => f \in S}
           B == {n \in from \cup inside : \A S \in closed : n \in S}
<1>1. Below(kid, from, within) = B
  BY DEF Below
<1>2. from \subseteq B
  OBVIOUS
<1>3. ASSUME NEW f \in inside, kid[f] \in B PROVE f \in B
  <2> SUFFICES ASSUME NEW S \in closed PROVE f \in S
    OBVIOUS
  <2>1. kid[f] \in S
    BY <1>3
  <2> QED BY <2>1
<1> QED BY <1>1, <1>2, <1>3 DEF Closed

\* Any closed set has it all.
LEMMA BelowLeast ==
  ASSUME NEW kid, NEW from, NEW within, NEW S, Closed(S, kid, from, within)
  PROVE  Below(kid, from, within) \subseteq S
<1> DEFINE inside == Folders \cap within
           T == S \cap (from \cup inside)
<1>1. T \in SUBSET (from \cup inside) /\ from \subseteq T
  BY DEF Closed
<1>2. \A f \in inside : kid[f] \in T => f \in T
  BY DEF Closed
<1>3. Below(kid, from, within) \subseteq T
  BY <1>1, <1>2 DEF Below
<1> QED BY <1>3

\* What is below and was not there to begin with is listed by what is below.
LEMMA BelowListed ==
  ASSUME NEW kid, NEW from, NEW within, NEW f \in Below(kid, from, within), f \notin from
  PROVE  f \in Folders \cap within /\ kid[f] \in Below(kid, from, within)
<1> DEFINE B == Below(kid, from, within)
<1>1. Closed(B, kid, from, within) /\ B \subseteq from \cup (Folders \cap within)
  BY BelowClosed
<1>2. SUFFICES ASSUME kid[f] \notin B PROVE FALSE
  BY <1>1
<1>3. Closed(B \ {f}, kid, from, within)
  BY <1>1, <1>2 DEF Closed
<1>4. B \subseteq B \ {f}
  BY <1>3, BelowLeast
<1> QED BY <1>4

\* It depends on the lists of the folders of `within` alone.
LEMMA BelowSame ==
  ASSUME NEW kid, NEW kid2, NEW from, NEW within,
         \A f \in Folders \cap within : kid2[f] = kid[f]
  PROVE  Below(kid2, from, within) = Below(kid, from, within)
<1>1. Closed(Below(kid, from, within), kid, from, within)
  BY BelowClosed
<1>2. Closed(Below(kid, from, within), kid2, from, within)
  BY <1>1 DEF Closed
<1>3. Closed(Below(kid2, from, within), kid2, from, within)
  BY BelowClosed
<1>4. Closed(Below(kid2, from, within), kid, from, within)
  BY <1>3 DEF Closed
<1>5. Below(kid2, from, within) \subseteq Below(kid, from, within)
  BY <1>2, BelowLeast
<1>6. Below(kid, from, within) \subseteq Below(kid2, from, within)
  BY <1>4, BelowLeast
<1> QED BY <1>5, <1>6

(***************************************************************************)
(* The loops of the model are functions that exist.                        *)
(***************************************************************************)
\* The rounds of Rescue.
LEMMA RescueRounds ==
  ASSUME NEW w
  PROVE  \E step : /\ step = [i \in 0..Cardinality(Folders) |->
                                IF i = 0 THEN w ELSE RescueOne(step[i - 1])]
                   /\ Rescue(w) = step[Cardinality(Folders)]
<1> DEFINE Rounds(n, s) == s = [i \in 0..n |-> IF i = 0 THEN w ELSE RescueOne(s[i - 1])]
           S == {n \in Nat : \E s : Rounds(n, s)}
<1>1. 0 \in S
  <2> DEFINE s == [i \in 0..0 |-> w]
  <2>1. Rounds(0, s)
    OBVIOUS
  <2> QED BY <2>1
<1>2. ASSUME NEW n \in Nat, n \in S PROVE n + 1 \in S
  <2>1. PICK s : Rounds(n, s)
    BY <1>2
  <2> DEFINE t == [i \in 0..(n + 1) |-> IF i = n + 1 THEN RescueOne(s[n]) ELSE s[i]]
  <2>2. Rounds(n + 1, t)
    BY <2>1
  <2> HIDE DEF t, Rounds
  <2>3. \E u : Rounds(n + 1, u)
    BY <2>2
  <2> QED BY <2>3
<1> HIDE DEF S
<1>3. Cardinality(Folders) \in S
  BY <1>1, <1>2, SetInduction, FolderIds, FS_CardinalityType
<1> DEFINE step[i \in 0..Cardinality(Folders)] ==
             IF i = 0 THEN w ELSE RescueOne(step[i - 1])
<1>4. step = [i \in 0..Cardinality(Folders) |-> IF i = 0 THEN w ELSE RescueOne(step[i - 1])]
  BY <1>3 DEF S
<1>5. Rescue(w) = step[Cardinality(Folders)]
  BY DEF Rescue
<1> QED BY <1>4, <1>5

(***************************************************************************)
(* Workspaces that a document can stand for.                               *)
(***************************************************************************)
\* What a folder of w has, and a scheme of it: in the trash a folder hangs from
\* nothing, a scheme from nothing or from a folder that is in the trash; out of
\* it each hangs from a folder there is.
FolderSettled(w, f) ==
  IF f \in w.trash THEN w.kid[f] = Nil ELSE w.kid[f] \in w.folders /\ w.up[f] = w.kid[f]
SchemeSettled(w, s) ==
  IF s \in w.trash THEN w.kid[s] \in Archived(w) \cup {Nil} ELSE w.kid[s] \in w.folders

Canonical(w) ==
  /\ w \in Workspaces /\ Root \in w.folders
  /\ \A n \in Nodes : n \in Has(w) \cup w.trash => w.origin[n] # Gone
  /\ \A n \in Nodes : n \notin Has(w) => w.kid[n] = Nil
  /\ \A f \in Folders : f \notin w.folders => w.up[f] = Nil /\ w.name[f] = 0
  /\ \A f \in Folders \cap w.folders : FolderSettled(w, f)
  /\ \A s \in w.schemes : SchemeSettled(w, s)

\* The constants apart from each other.
LEMMA Constants ==
  /\ Root = 0 /\ Nil = -1 /\ Gone = -2
  /\ Root \notin Nodes /\ Nil \notin Dirs /\ Gone \notin Dirs /\ Nil # Gone
  /\ Folders \cap Schemes = {} /\ Root \in Dirs /\ Folders \subseteq Dirs
  /\ Folders \subseteq Nodes /\ Schemes \subseteq Nodes /\ Dirs \subseteq Int
  /\ Nodes = Folders \cup Schemes /\ Dirs = Folders \cup {Root} /\ Nodes \subseteq Int
  /\ Dirs \cap Schemes = {}
BY FolderIds DEF Root, Nil, Gone, Nodes, Dirs

\* The keys of each kind.
LEMMA KeyKinds ==
  /\ \A n \in Nodes : /\ <<"node", n>> \in Keys /\ <<"kid", n>> \in Keys
                      /\ <<"trash", n>> \in Keys /\ <<"origin", n>> \in Keys
  /\ \A f \in Folders : <<"up", f>> \in Keys /\ <<"name", f>> \in Keys
  /\ \A k \in Keys : /\ k = <<k[1], k[2]>> /\ k[2] \in Nodes
                     /\ k[1] \in {"node", "kid", "trash", "origin", "up", "name"}
                     /\ k[1] \in {"up", "name"} => k[2] \in Folders
BY DEF Keys, Nodes

\* The fields of a workspace.
LEMMA WorkspaceFields ==
  ASSUME NEW w \in Workspaces
  PROVE  /\ w.folders \subseteq Dirs /\ w.schemes \subseteq Schemes /\ w.trash \subseteq Nodes
         /\ w.kid \in [Nodes -> Dirs \cup {Nil}] /\ w.up \in [Folders -> Dirs \cup {Nil}]
         /\ w.name \in [Folders -> Int] /\ w.origin \in [Nodes -> Dirs \cup {Nil, Gone}]
         /\ w = [folders |-> w.folders, schemes |-> w.schemes, kid |-> w.kid, up |-> w.up,
                 name |-> w.name, trash |-> w.trash, origin |-> w.origin]
BY DEF Workspaces

(***************************************************************************)
(* What a written document holds.                                          *)
(***************************************************************************)
\* What the document is made to hold, key by key.
LEMMA DesiredOf ==
  ASSUME NEW w, NEW n \in Nodes
  PROVE  LET want == Desired(w)
             kept == n \in Has(w) /\ w.origin[n] # Gone
         IN /\ want[<<"node", n>>].on <=> kept
            /\ want[<<"node", n>>].val = IF n \in Schemes THEN <<w.kid[n]>>
                                         ELSE <<w.kid[n], w.up[n], w.name[n]>>
            /\ want[<<"kid", n>>].on <=> kept
            /\ want[<<"kid", n>>].val = <<w.kid[n]>>
            /\ want[<<"trash", n>>].on <=> n \in w.trash /\ w.origin[n] # Gone
            /\ want[<<"trash", n>>].val = <<1>>
            /\ want[<<"origin", n>>].on <=> w.origin[n] # Nil
            /\ want[<<"origin", n>>].val = <<w.origin[n]>>
            /\ n \in Folders => /\ want[<<"up", n>>].on <=> kept
                                /\ want[<<"up", n>>].val = <<w.up[n]>>
                                /\ want[<<"name", n>>].on <=> kept
                                /\ want[<<"name", n>>].val = <<w.name[n]>>
BY KeyKinds DEF Desired

\* A key is held exactly when it should be, and then with the value it should have.
LEMMA WriteHolds ==
  ASSUME NEW D, NEW w, NEW c, NEW k \in Keys
  PROVE  LET E == Write(D, w, c)
             want == Desired(w)
         IN /\ E[k] = Put(D[k], want[k], c)
            /\ Held(E, k) <=> want[k].on
            /\ want[k].on => E[k].val = want[k].val
<1> DEFINE E == Write(D, w, c)
           want == Desired(w)
<1>1. E[k] = Put(D[k], want[k], c)
  BY DEF Write
<1> HIDE DEF E, want
<1>2. want[k].on \in BOOLEAN
  <2>1. want[k].on \in BOOLEAN
    BY KeyKinds DEF want, Desired
  <2> QED BY <2>1
<1>3. Held(E, k) <=> want[k].on
  BY <1>1, <1>2 DEF Held, Put
<1>4. want[k].on => E[k].val = want[k].val
  BY <1>1 DEF Put
<1> QED BY <1>1, <1>3, <1>4 DEF E, want

\* The fields of a written workspace, as they are read.
LEMMA WrittenFields ==
  ASSUME NEW D, NEW w \in Workspaces, NEW c, NEW n \in Nodes
  PROVE  LET E == Write(D, w, c)
             kept == n \in Has(w) /\ w.origin[n] # Gone
         IN /\ Held(E, <<"node", n>>) <=> kept
            /\ Held(E, <<"trash", n>>) <=> n \in w.trash /\ w.origin[n] # Gone
            /\ Origin(E, n) = w.origin[n]
            /\ kept => Field(E, "kid", n) = w.kid[n]
            /\ kept /\ n \in Folders => /\ Field(E, "up", n) = w.up[n]
                                        /\ Field(E, "name", n) = w.name[n]
<1> DEFINE E == Write(D, w, c)
           want == Desired(w)
           kept == n \in Has(w) /\ w.origin[n] # Gone
<1>1. \A k \in Keys : (Held(E, k) <=> want[k].on) /\ (want[k].on => E[k].val = want[k].val)
  BY WriteHolds
<1>2. /\ want[<<"node", n>>].on <=> kept
      /\ want[<<"kid", n>>].on <=> kept
      /\ want[<<"kid", n>>].val = <<w.kid[n]>>
      /\ want[<<"trash", n>>].on <=> n \in w.trash /\ w.origin[n] # Gone
      /\ want[<<"origin", n>>].on <=> w.origin[n] # Nil
      /\ want[<<"origin", n>>].val = <<w.origin[n]>>
      /\ n \in Folders => /\ want[<<"up", n>>].on <=> kept
                          /\ want[<<"up", n>>].val = <<w.up[n]>>
                          /\ want[<<"name", n>>].on <=> kept
                          /\ want[<<"name", n>>].val = <<w.name[n]>>
  BY DesiredOf
<1> HIDE DEF E, want, kept
<1>3. (Held(E, <<"node", n>>) <=> kept) /\ (Held(E, <<"kid", n>>) <=> kept)
  BY <1>1, <1>2, KeyKinds
<1>4. Held(E, <<"trash", n>>) <=> n \in w.trash /\ w.origin[n] # Gone
  BY <1>1, <1>2, KeyKinds
<1>5. Origin(E, n) = w.origin[n]
  <2>1. Held(E, <<"origin", n>>) <=> w.origin[n] # Nil
    BY <1>1, <1>2, KeyKinds
  <2>2. w.origin[n] # Nil => E[<<"origin", n>>].val = <<w.origin[n]>>
    BY <1>1, <1>2, KeyKinds
  <2> QED BY <2>1, <2>2 DEF Origin
<1>6. kept => Field(E, "kid", n) = w.kid[n]
  <2>1. kept => E[<<"kid", n>>].val = <<w.kid[n]>>
    BY <1>1, <1>2, KeyKinds
  <2> QED BY <1>3, <2>1 DEF Field
<1>7. ASSUME kept, n \in Folders
      PROVE  Field(E, "up", n) = w.up[n] /\ Field(E, "name", n) = w.name[n]
  <2>1. Held(E, <<"up", n>>) /\ Held(E, <<"name", n>>)
    BY <1>1, <1>2, <1>7, KeyKinds
  <2>2. E[<<"up", n>>].val = <<w.up[n]>> /\ E[<<"name", n>>].val = <<w.name[n]>>
    BY <1>1, <1>2, <1>7, KeyKinds
  <2> QED BY <2>1, <2>2 DEF Field
<1> QED BY <1>3, <1>4, <1>5, <1>6, <1>7 DEF E, kept

(***************************************************************************)
(* What a document stands for, part by part.                               *)
(***************************************************************************)
PresentIn(D) == {n \in Nodes : Held(D, <<"node", n>>) /\ Origin(D, n) # Gone}
DirsIn(D) == (PresentIn(D) \cap Folders) \cup {Root}
BinnedIn(D) == {n \in Nodes : Held(D, <<"trash", n>>)}
ParentIn(D) == [n \in Nodes |-> IF n \in PresentIn(D) THEN Field(D, "kid", n) ELSE Nil]
ArchivedIn(D) == Below(ParentIn(D), BinnedIn(D) \cap DirsIn(D), DirsIn(D))
HomeIn(D, n) == IF ParentIn(D)[n] \in DirsIn(D) THEN ParentIn(D)[n] ELSE Root
LooseIn(D, n) == IF n \in Folders THEN n \in BinnedIn(D)
                 ELSE n \in BinnedIn(D) /\ ParentIn(D)[n] \notin ArchivedIn(D)

LEMMA MaterializeParts ==
  ASSUME NEW D
  PROVE  Materialize(D) =
    [folders |-> DirsIn(D),
     schemes |-> PresentIn(D) \cap Schemes,
     kid |-> [n \in Nodes |-> IF n \notin PresentIn(D) \/ LooseIn(D, n) THEN Nil ELSE HomeIn(D, n)],
     up |-> [f \in Folders |->
              IF f \notin PresentIn(D) THEN Nil
              ELSE IF f \in BinnedIn(D) THEN Field(D, "up", f) ELSE HomeIn(D, f)],
     name |-> [f \in Folders |-> IF f \in PresentIn(D) THEN Field(D, "name", f) ELSE 0],
     trash |-> {n \in BinnedIn(D) : Origin(D, n) # Gone},
     origin |-> [n \in Nodes |-> Origin(D, n)]]
<1> DEFINE dead == {n \in Nodes : Origin(D, n) = Gone}
           present == {n \in Nodes : Held(D, <<"node", n>>)} \ dead
           dirs == (present \cap Folders) \cup {Root}
           binned == {n \in Nodes : Held(D, <<"trash", n>>)}
           parent == [n \in Nodes |-> IF n \in present THEN Field(D, "kid", n) ELSE Nil]
           archived == Below(parent, binned \cap dirs, dirs)
           home(n) == IF parent[n] \in dirs THEN parent[n] ELSE Root
           loose(n) == IF n \in Folders THEN n \in binned
                       ELSE n \in binned /\ parent[n] \notin archived
<1>1. present = PresentIn(D)
  BY DEF PresentIn
<1>2. dirs = DirsIn(D) /\ binned = BinnedIn(D) /\ parent = ParentIn(D)
  BY <1>1 DEF DirsIn, BinnedIn, ParentIn
<1>3. archived = ArchivedIn(D)
  BY <1>2 DEF ArchivedIn
<1>4. binned \ dead = {n \in BinnedIn(D) : Origin(D, n) # Gone}
  BY <1>2 DEF BinnedIn
<1>5. Materialize(D) =
        [folders |-> dirs,
         schemes |-> present \cap Schemes,
         kid |-> [n \in Nodes |-> IF n \notin present \/ loose(n) THEN Nil ELSE home(n)],
         up |-> [f \in Folders |->
                  IF f \notin present THEN Nil
                  ELSE IF f \in binned THEN Field(D, "up", f) ELSE home(f)],
         name |-> [f \in Folders |-> IF f \in present THEN Field(D, "name", f) ELSE 0],
         trash |-> binned \ dead,
         origin |-> [n \in Nodes |-> Origin(D, n)]]
  BY DEF Materialize
<1> HIDE DEF present, dirs, binned, parent, archived, dead
<1>6. \A n : home(n) = HomeIn(D, n)
  BY <1>2 DEF HomeIn
<1>7. \A n : loose(n) <=> LooseIn(D, n)
  BY <1>2, <1>3 DEF LooseIn
<1> HIDE DEF home, loose
<1>8. [n \in Nodes |-> IF n \notin present \/ loose(n) THEN Nil ELSE home(n)] =
        [n \in Nodes |-> IF n \notin PresentIn(D) \/ LooseIn(D, n) THEN Nil ELSE HomeIn(D, n)]
  BY <1>1, <1>6, <1>7
<1>9. [f \in Folders |-> IF f \notin present THEN Nil
                         ELSE IF f \in binned THEN Field(D, "up", f) ELSE home(f)] =
        [f \in Folders |-> IF f \notin PresentIn(D) THEN Nil
                           ELSE IF f \in BinnedIn(D) THEN Field(D, "up", f) ELSE HomeIn(D, f)]
  BY <1>1, <1>2, <1>6
<1> QED BY <1>1, <1>2, <1>4, <1>5, <1>8, <1>9

(***************************************************************************)
(* Documents whose values are what their keys are for.                     *)
(***************************************************************************)
Parents == Dirs \cup {Nil}
ValueOf(k, v) ==
  /\ v \in Seq(Int)
  /\ k[1] \in {"node", "kid", "up"} => v[1] \in Parents
  /\ k[1] = "node" /\ k[2] \in Folders => v[2] \in Parents /\ v[3] \in Int
  /\ k[1] = "name" => v[1] \in Int
  /\ k[1] = "origin" => v[1] \in Dirs \cup {Gone} /\ v = <<v[1]>>

\* A register that was never written holds nothing; one that was holds a value of
\* its key's.
RegisterOf(k, r) ==
  /\ r \in [at : Seq(Seq(Int)), val : Seq(Int), gone : BOOLEAN]
  /\ r.at = <<>> => r.gone
  /\ r.at # <<>> => ValueOf(k, r.val)
Typed(D) == D \in Registers /\ \A k \in Keys : RegisterOf(k, D[k])

\* What is read of a node that is there.
LEMMA FieldTypes ==
  ASSUME NEW D, Typed(D), NEW n \in Nodes
  PROVE  /\ Origin(D, n) \in Dirs \cup {Nil, Gone}
         /\ Held(D, <<"node", n>>) => Field(D, "kid", n) \in Parents
         /\ Held(D, <<"node", n>>) /\ n \in Folders =>
              Field(D, "up", n) \in Parents /\ Field(D, "name", n) \in Int
<1>1. \A k \in Keys : Held(D, k) => ValueOf(k, D[k].val)
  BY DEF Typed, RegisterOf, Held
<1>2. Origin(D, n) \in Dirs \cup {Nil, Gone}
  <2>1. Held(D, <<"origin", n>>) => D[<<"origin", n>>].val[1] \in Dirs \cup {Gone}
    BY <1>1, KeyKinds DEF ValueOf
  <2> QED BY <2>1 DEF Origin
<1>3. ASSUME Held(D, <<"node", n>>)
      PROVE  /\ D[<<"node", n>>].val[1] \in Parents
             /\ n \in Folders => /\ D[<<"node", n>>].val[2] \in Parents
                                 /\ D[<<"node", n>>].val[3] \in Int
  BY <1>1, <1>3, KeyKinds DEF ValueOf
<1>4. Held(D, <<"kid", n>>) => D[<<"kid", n>>].val[1] \in Parents
  BY <1>1, KeyKinds DEF ValueOf
<1>5. n \in Folders /\ Held(D, <<"up", n>>) => D[<<"up", n>>].val[1] \in Parents
  BY <1>1, KeyKinds DEF ValueOf
<1>6. n \in Folders /\ Held(D, <<"name", n>>) => D[<<"name", n>>].val[1] \in Int
  BY <1>1, KeyKinds DEF ValueOf
<1>7. Held(D, <<"node", n>>) => Field(D, "kid", n) \in Parents
  BY <1>3, <1>4 DEF Field
<1>8. ASSUME Held(D, <<"node", n>>), n \in Folders
      PROVE  Field(D, "up", n) \in Parents /\ Field(D, "name", n) \in Int
  BY <1>3, <1>5, <1>6, <1>8 DEF Field
<1> QED BY <1>2, <1>7, <1>8

\* The folders in the trash and those below them are the same of the document and
\* of the workspace it stands for, which moves some folders to the root and takes
\* those in the trash from where they were.
LEMMA MaterializeArchived ==
  ASSUME NEW D, Typed(D)
  PROVE  Archived(Materialize(D)) = ArchivedIn(D)
<1> DEFINE w == Materialize(D)
           parent == ParentIn(D)
           dirs == DirsIn(D)
           from == BinnedIn(D) \cap dirs
           kid == w.kid
<1>1. w.folders = dirs /\ w.trash \cap dirs = from
  <2>1. w.folders = dirs /\ w.trash = {n \in BinnedIn(D) : Origin(D, n) # Gone}
    BY MaterializeParts
  <2>2. \A n \in BinnedIn(D) \cap dirs : Origin(D, n) # Gone
    BY Constants DEF DirsIn, PresentIn, BinnedIn
  <2> QED BY <2>1, <2>2
<1>2. \A f \in Folders \cap dirs :
        kid[f] = IF f \in BinnedIn(D) THEN Nil ELSE IF parent[f] \in dirs THEN parent[f] ELSE Root
  <2> TAKE f \in Folders \cap dirs
  <2>1. f \in PresentIn(D) /\ f \in Nodes
    BY Constants DEF DirsIn
  <2>2. w.kid = [n \in Nodes |-> IF n \notin PresentIn(D) \/ LooseIn(D, n) THEN Nil ELSE HomeIn(D, n)]
    BY MaterializeParts
  <2> QED BY <2>1, <2>2 DEF LooseIn, HomeIn
<1>3. Root \notin from /\ from \subseteq dirs /\ dirs \subseteq Dirs
  BY Constants DEF BinnedIn, DirsIn, PresentIn
<1> HIDE DEF w, parent, dirs, from, kid
<1>4. Below(parent, from, dirs) \subseteq Below(kid, from, dirs)
  <2> DEFINE B == Below(kid, from, dirs)
  <2>1. Closed(B, kid, from, dirs) /\ B \subseteq from \cup (Folders \cap dirs)
    BY BelowClosed
  <2>2. Closed(B, parent, from, dirs)
    <3> SUFFICES ASSUME NEW f \in Folders \cap dirs, parent[f] \in B, f \notin from PROVE f \in B
      BY <2>1 DEF Closed
    <3>1. f \notin BinnedIn(D)
      BY DEF from
    <3>2. parent[f] \in dirs
      BY <2>1, <1>3
    <3>3. kid[f] = parent[f]
      BY <1>2, <3>1, <3>2
    <3> QED BY <2>1, <3>3 DEF Closed
  <2> QED BY <2>2, BelowLeast
<1>5. Below(kid, from, dirs) \subseteq Below(parent, from, dirs)
  <2> DEFINE B == Below(parent, from, dirs)
  <2>1. Closed(B, parent, from, dirs) /\ B \subseteq from \cup (Folders \cap dirs)
    BY BelowClosed
  <2>2. Closed(B, kid, from, dirs)
    <3> SUFFICES ASSUME NEW f \in Folders \cap dirs, kid[f] \in B, f \notin from PROVE f \in B
      BY <2>1 DEF Closed
    <3>1. f \notin BinnedIn(D)
      BY DEF from
    <3>2. Root \notin B
      BY <2>1, <1>3, Constants
    <3>3. kid[f] = parent[f]
      BY <1>2, <3>1, <3>2
    <3> QED BY <2>1, <3>3 DEF Closed
  <2> QED BY <2>2, BelowLeast
<1>6. Archived(w) = Below(kid, from, dirs)
  BY <1>1 DEF Archived, kid
<1> QED BY <1>4, <1>5, <1>6 DEF w, parent, from, dirs, ArchivedIn

\* A folder below another is one of the folders there are; so is one in the trash
\* or below it.
LEMMA ArchivedFolders ==
  ASSUME NEW w, w.folders \subseteq Dirs
  PROVE  /\ Archived(w) \subseteq w.folders
         /\ Closed(Archived(w), w.kid, w.trash \cap w.folders, w.folders)
         /\ Nil \notin Archived(w)
BY BelowClosed, Constants DEF Archived

\* Whatever the document holds, it stands for a canonical workspace.
LEMMA MaterializeCanonical ==
  ASSUME NEW D, Typed(D)
  PROVE  Canonical(Materialize(D))
<1> DEFINE w == Materialize(D)
<1>1. /\ w.folders = DirsIn(D)
      /\ w.schemes = PresentIn(D) \cap Schemes
      /\ w.kid = [n \in Nodes |-> IF n \notin PresentIn(D) \/ LooseIn(D, n) THEN Nil ELSE HomeIn(D, n)]
      /\ w.up = [f \in Folders |->
                  IF f \notin PresentIn(D) THEN Nil
                  ELSE IF f \in BinnedIn(D) THEN Field(D, "up", f) ELSE HomeIn(D, f)]
      /\ w.name = [f \in Folders |-> IF f \in PresentIn(D) THEN Field(D, "name", f) ELSE 0]
      /\ w.trash = {n \in BinnedIn(D) : Origin(D, n) # Gone}
      /\ w.origin = [n \in Nodes |-> Origin(D, n)]
      /\ w = [folders |-> w.folders, schemes |-> w.schemes, kid |-> w.kid, up |-> w.up,
              name |-> w.name, trash |-> w.trash, origin |-> w.origin]
  BY MaterializeParts
<1>2. Archived(w) = ArchivedIn(D)
  BY MaterializeArchived
<1>3. \A n \in PresentIn(D) : n \in Nodes /\ Held(D, <<"node", n>>) /\ Origin(D, n) # Gone
  BY DEF PresentIn
<1>4. \A n \in Nodes : HomeIn(D, n) \in DirsIn(D) /\ HomeIn(D, n) \in Dirs
  BY <1>3, Constants DEF HomeIn, DirsIn
<1>5. \A n \in Nodes : Origin(D, n) \in Dirs \cup {Nil, Gone}
  BY FieldTypes
<1>6. \A f \in Folders \cap PresentIn(D) : Field(D, "up", f) \in Parents /\ Field(D, "name", f) \in Int
  BY <1>3, FieldTypes
<1>7. \A n \in Nodes : n \in Has(w) <=> n \in PresentIn(D)
  BY <1>1, <1>3, Constants DEF Has, DirsIn
<1> HIDE DEF w
<1>8. w \in Workspaces
  <2>1. w.folders \in SUBSET Dirs /\ w.schemes \in SUBSET Schemes /\ w.trash \in SUBSET Nodes
    BY <1>1, Constants DEF DirsIn, BinnedIn
  <2>2. w.kid \in [Nodes -> Dirs \cup {Nil}]
    BY <1>1, <1>4
  <2>3. w.up \in [Folders -> Dirs \cup {Nil}]
    <3>1. \A f \in Folders : w.up[f] \in Parents
      BY <1>1, <1>4, <1>6, Constants DEF Parents
    <3> QED BY <1>1, <3>1 DEF Parents
  <2>4. w.name \in [Folders -> Int]
    BY <1>1, <1>6
  <2>5. w.origin \in [Nodes -> Dirs \cup {Nil, Gone}]
    BY <1>1, <1>5
  <2> QED BY <1>1, <2>1, <2>2, <2>3, <2>4, <2>5 DEF Workspaces
<1>9. Root \in w.folders
  BY <1>1 DEF DirsIn
<1>10. \A n \in Nodes : n \in Has(w) \cup w.trash => w.origin[n] # Gone
  BY <1>1, <1>3, <1>7
<1>11. \A n \in Nodes : n \notin Has(w) => w.kid[n] = Nil
  BY <1>1, <1>7
<1>12. \A f \in Folders : f \notin w.folders => w.up[f] = Nil /\ w.name[f] = 0
  BY <1>1 DEF DirsIn
<1>13. ASSUME NEW f \in Folders \cap w.folders PROVE FolderSettled(w, f)
  <2>1. f \in PresentIn(D) /\ f \in Nodes
    BY <1>1, Constants DEF DirsIn
  <2>2. f \in w.trash <=> f \in BinnedIn(D)
    BY <1>1, <1>3, <2>1
  <2>3. LooseIn(D, f) <=> f \in BinnedIn(D)
    BY DEF LooseIn
  <2> QED BY <1>1, <1>4, <2>1, <2>2, <2>3 DEF FolderSettled
<1>14. ASSUME NEW s \in w.schemes PROVE SchemeSettled(w, s)
  <2>1. s \in PresentIn(D) /\ s \in Nodes /\ s \notin Folders
    BY <1>1, Constants
  <2>2. s \in w.trash <=> s \in BinnedIn(D)
    BY <1>1, <1>3, <2>1
  <2>3. LooseIn(D, s) <=> s \in BinnedIn(D) /\ ParentIn(D)[s] \notin ArchivedIn(D)
    BY <2>1 DEF LooseIn
  <2>4. ArchivedIn(D) \subseteq DirsIn(D)
    <3>1. w.folders \subseteq Dirs
      BY <1>8, WorkspaceFields
    <3>2. Archived(w) \subseteq w.folders
      BY <3>1, ArchivedFolders
    <3> QED BY <1>1, <1>2, <3>2
  <2>5. ParentIn(D)[s] \in ArchivedIn(D) => HomeIn(D, s) \in ArchivedIn(D)
    BY <2>4 DEF HomeIn
  <2> QED BY <1>1, <1>2, <1>4, <2>1, <2>2, <2>3, <2>5 DEF SchemeSettled
<1> QED BY <1>8, <1>9, <1>10, <1>11, <1>12, <1>13, <1>14 DEF Canonical, w

\* replace_snapshot and snapshot are inverse of each other: a workspace that a device
\* can show is read from the document it is written to as it was, whatever the
\* document held before.
THEOREM ReadBack ==
  ASSUME NEW D, NEW w, Canonical(w), NEW c
  PROVE  Materialize(Write(D, w, c)) = w
<1> DEFINE E == Write(D, w, c)
<1>1. /\ w \in Workspaces /\ Root \in w.folders
      /\ \A n \in Nodes : n \in Has(w) \cup w.trash => w.origin[n] # Gone
      /\ \A n \in Nodes : n \notin Has(w) => w.kid[n] = Nil
      /\ \A f \in Folders : f \notin w.folders => w.up[f] = Nil /\ w.name[f] = 0
  BY DEF Canonical
<1>2. \A n \in Nodes :
        /\ Held(E, <<"node", n>>) <=> n \in Has(w)
        /\ Held(E, <<"trash", n>>) <=> n \in w.trash
        /\ Origin(E, n) = w.origin[n]
        /\ n \in Has(w) => Field(E, "kid", n) = w.kid[n]
        /\ n \in Has(w) /\ n \in Folders => /\ Field(E, "up", n) = w.up[n]
                                            /\ Field(E, "name", n) = w.name[n]
  <2> TAKE n \in Nodes
  <2> DEFINE kept == n \in Has(w) /\ w.origin[n] # Gone
  <2>1. /\ Held(E, <<"node", n>>) <=> kept
        /\ Held(E, <<"trash", n>>) <=> n \in w.trash /\ w.origin[n] # Gone
        /\ Origin(E, n) = w.origin[n]
        /\ kept => Field(E, "kid", n) = w.kid[n]
        /\ kept /\ n \in Folders => /\ Field(E, "up", n) = w.up[n]
                                    /\ Field(E, "name", n) = w.name[n]
    BY <1>1, WrittenFields
  <2> HIDE DEF E
  <2>2. (kept <=> n \in Has(w)) /\ (n \in w.trash => w.origin[n] # Gone)
    BY <1>1
  <2> QED BY <2>1, <2>2
<1>3. /\ w.folders \subseteq Dirs /\ w.schemes \subseteq Schemes /\ w.trash \subseteq Nodes
      /\ w.kid \in [Nodes -> Dirs \cup {Nil}] /\ w.up \in [Folders -> Dirs \cup {Nil}]
      /\ w.name \in [Folders -> Int] /\ w.origin \in [Nodes -> Dirs \cup {Nil, Gone}]
      /\ w = [folders |-> w.folders, schemes |-> w.schemes, kid |-> w.kid, up |-> w.up,
              name |-> w.name, trash |-> w.trash, origin |-> w.origin]
  BY <1>1, WorkspaceFields
<1> HIDE DEF E
<1>4. PresentIn(E) = Has(w) \cap Nodes
  BY <1>1, <1>2 DEF PresentIn
<1>5. DirsIn(E) = w.folders /\ PresentIn(E) \cap Schemes = w.schemes
  BY <1>1, <1>3, <1>4, Constants DEF DirsIn, Has
<1>6. BinnedIn(E) = w.trash
  BY <1>2, <1>3 DEF BinnedIn
<1>7. ParentIn(E) = w.kid
  <2>1. \A n \in Nodes : ParentIn(E)[n] = w.kid[n]
    BY <1>1, <1>2, <1>4 DEF ParentIn
  <2>2. ParentIn(E) = [n \in Nodes |-> ParentIn(E)[n]] /\ w.kid = [n \in Nodes |-> w.kid[n]]
    BY <1>3 DEF ParentIn
  <2> QED BY <2>1, <2>2
<1>8. ArchivedIn(E) = Archived(w)
  BY <1>5, <1>6, <1>7 DEF ArchivedIn, Archived
<1>9. \A f \in Folders \cap w.folders : FolderSettled(w, f)
  BY DEF Canonical
<1>10. \A s \in w.schemes : SchemeSettled(w, s)
  BY DEF Canonical
<1>11. Archived(w) \subseteq w.folders /\ Nil \notin Archived(w)
  BY <1>3, ArchivedFolders
<1>12. ASSUME NEW n \in Nodes
       PROVE  w.kid[n] = IF n \notin PresentIn(E) \/ LooseIn(E, n) THEN Nil ELSE HomeIn(E, n)
  <2>1. CASE n \notin Has(w)
    BY <1>1, <1>4, <2>1
  <2>2. CASE n \in Has(w) /\ n \in Folders
    <3>1. n \in w.folders /\ FolderSettled(w, n)
      BY <1>3, <1>9, <2>2, Constants DEF Has
    <3> QED BY <1>4, <1>5, <1>6, <1>7, <2>2, <3>1 DEF LooseIn, HomeIn, FolderSettled
  <2>3. CASE n \in Has(w) /\ n \notin Folders
    <3>1. n \in w.schemes /\ SchemeSettled(w, n)
      BY <1>3, <1>10, <2>3, Constants DEF Has
    <3> QED BY <1>4, <1>5, <1>6, <1>7, <1>8, <1>11, <2>3, <3>1 DEF LooseIn, HomeIn, SchemeSettled
  <2> QED BY <2>1, <2>2, <2>3
<1>13. ASSUME NEW f \in Folders
       PROVE  w.up[f] = IF f \notin PresentIn(E) THEN Nil
                        ELSE IF f \in BinnedIn(E) THEN Field(E, "up", f) ELSE HomeIn(E, f)
  <2>1. CASE f \notin w.folders
    BY <1>1, <1>3, <1>4, <2>1, Constants DEF Has
  <2>2. CASE f \in w.folders
    <3>1. f \in Nodes /\ f \in Has(w) /\ FolderSettled(w, f)
      BY <1>9, <2>2, Constants DEF Has
    <3> QED BY <1>2, <1>4, <1>5, <1>6, <1>7, <3>1 DEF HomeIn, FolderSettled
  <2> QED BY <2>1, <2>2
<1>14. ASSUME NEW f \in Folders
       PROVE  w.name[f] = IF f \in PresentIn(E) THEN Field(E, "name", f) ELSE 0
  BY <1>1, <1>2, <1>3, <1>4, Constants DEF Has
<1>15. w.trash = {n \in BinnedIn(E) : Origin(E, n) # Gone}
  <2>1. \A n \in w.trash : Origin(E, n) # Gone
    BY <1>1, <1>2, <1>3
  <2> QED BY <1>6, <2>1
<1>16. w.kid = [n \in Nodes |-> IF n \notin PresentIn(E) \/ LooseIn(E, n) THEN Nil ELSE HomeIn(E, n)]
  BY <1>3, <1>12
<1>17. w.up = [f \in Folders |->
                IF f \notin PresentIn(E) THEN Nil
                ELSE IF f \in BinnedIn(E) THEN Field(E, "up", f) ELSE HomeIn(E, f)]
  BY <1>3, <1>13
<1>18. w.name = [f \in Folders |-> IF f \in PresentIn(E) THEN Field(E, "name", f) ELSE 0]
  BY <1>3, <1>14
<1>19. w.origin = [n \in Nodes |-> Origin(E, n)]
  BY <1>2, <1>3
<1> QED BY <1>3, <1>5, <1>15, <1>16, <1>17, <1>18, <1>19, MaterializeParts DEF E

(***************************************************************************)
(* The life of a register: what its node must have gone through.           *)
(***************************************************************************)
\* Only of a node that some user made is anything written; its entry is removed,
\* and its origin a tombstone, only if some user destroyed it.
Lived(k, r, makes, wrecks) ==
  r.at # <<>> =>
    /\ k[2] \in makes
    /\ k[1] = "node" /\ r.gone => k[2] \in wrecks
    /\ k[1] = "origin" /\ r.val[1] = Gone => k[2] \in wrecks

\* A register's value is that of the last write, and a tombstone is the last.
Marked(k, r) ==
  k[1] = "origin" =>
    /\ r.at # <<>> => r.at[Len(r.at)][2] = r.val[1]
    /\ \A i \in 1..Len(r.at) : r.at[i][2] = Gone => i = Len(r.at) /\ ~r.gone

SoundRegister(k, r, makes, wrecks) ==
  RegisterOf(k, r) /\ Lived(k, r, makes, wrecks) /\ Marked(k, r)
SoundDoc(D, makes, wrecks) ==
  D \in Registers /\ \A k \in Keys : SoundRegister(k, D[k], makes, wrecks)

LEMMA SoundDocTyped ==
  ASSUME NEW D, NEW makes, NEW wrecks, SoundDoc(D, makes, wrecks)
  PROVE  Typed(D)
BY DEF SoundDoc, SoundRegister, Typed

\* The more is made and destroyed, the more is sound.
LEMMA SoundDocGrows ==
  ASSUME NEW D, NEW makes, NEW wrecks, NEW makes2, NEW wrecks2,
         SoundDoc(D, makes, wrecks), makes \subseteq makes2, wrecks \subseteq wrecks2
  PROVE  SoundDoc(D, makes2, wrecks2)
BY DEF SoundDoc, SoundRegister, Lived

\* The document nobody wrote is sound.
LEMMA UnwrittenSound ==
  ASSUME NEW makes, NEW wrecks
  PROVE  SoundDoc([k \in Keys |-> Unwritten], makes, wrecks)
<1>1. Unwritten \in [at : Seq(Seq(Int)), val : Seq(Int), gone : BOOLEAN]
  BY DEF Unwritten
<1>2. \A k \in Keys : SoundRegister(k, Unwritten, makes, wrecks)
  BY <1>1 DEF SoundRegister, RegisterOf, Lived, Marked, Unwritten
<1> QED BY <1>1, <1>2 DEF SoundDoc, Registers

\* Of two registers one wins, one that was written over one that was not; a removal
\* counts of the same write.
LEMMA WinnerIs ==
  ASSUME NEW r \in [at : Seq(Seq(Int)), val : Seq(Int), gone : BOOLEAN],
         NEW s \in [at : Seq(Seq(Int)), val : Seq(Int), gone : BOOLEAN]
  PROVE  LET q == Winner(r, s) IN
         /\ q \in [at : Seq(Seq(Int)), val : Seq(Int), gone : BOOLEAN]
         /\ \/ r.at = s.at /\ q = [r EXCEPT !.gone = r.gone \/ s.gone]
            \/ q = r
            \/ q = s
         /\ r.at # <<>> \/ s.at # <<>> => q.at # <<>>
<1>1. CASE r.at = s.at
  BY <1>1 DEF Winner
<1>2. CASE r.at # s.at
  <2>1. Winner(r, s) = IF After(r.at, s.at) THEN r ELSE s
    BY <1>2 DEF Winner
  <2>2. ASSUME s.at = <<>> PROVE After(r.at, s.at)
    <3>1. 1 \in 1..Len(r.at) /\ 1 > Len(s.at) /\ 1 <= Len(s.at) + 1
      BY <1>2, <2>2
    <3>2. SubSeq(r.at, 1, 1 - 1) = <<>> /\ SubSeq(s.at, 1, 1 - 1) = <<>>
      BY <2>2
    <3> QED BY <3>1, <3>2 DEF After
  <2>3. ASSUME r.at = <<>> PROVE ~After(r.at, s.at)
    BY <2>3 DEF After
  <2> QED BY <1>2, <2>1, <2>2, <2>3
<1> QED BY <1>1, <1>2

\* What two sound documents hold together is sound.
LEMMA JoinSound ==
  ASSUME NEW D, NEW E, NEW makes, NEW wrecks,
         SoundDoc(D, makes, wrecks), SoundDoc(E, makes, wrecks)
  PROVE  /\ SoundDoc(Join(D, E), makes, wrecks)
         /\ \A k \in Keys : D[k].at # <<>> \/ E[k].at # <<>> => Join(D, E)[k].at # <<>>
<1>1. ASSUME NEW k \in Keys
      PROVE  /\ Join(D, E)[k] \in [at : Seq(Seq(Int)), val : Seq(Int), gone : BOOLEAN]
             /\ SoundRegister(k, Join(D, E)[k], makes, wrecks)
             /\ D[k].at # <<>> \/ E[k].at # <<>> => Join(D, E)[k].at # <<>>
  <2> DEFINE r == D[k]
             s == E[k]
             q == Winner(r, s)
  <2>1. Join(D, E)[k] = q
    BY DEF Join
  <2>2. SoundRegister(k, r, makes, wrecks) /\ SoundRegister(k, s, makes, wrecks)
    BY DEF SoundDoc
  <2>3. /\ r \in [at : Seq(Seq(Int)), val : Seq(Int), gone : BOOLEAN]
        /\ s \in [at : Seq(Seq(Int)), val : Seq(Int), gone : BOOLEAN]
    BY <2>2 DEF SoundRegister, RegisterOf
  <2>4. /\ q \in [at : Seq(Seq(Int)), val : Seq(Int), gone : BOOLEAN]
        /\ \/ r.at = s.at /\ q = [r EXCEPT !.gone = r.gone \/ s.gone]
           \/ q = r
           \/ q = s
        /\ r.at # <<>> \/ s.at # <<>> => q.at # <<>>
    BY <2>3, WinnerIs
  <2> HIDE DEF r, s, q
  <2>5. ASSUME r.at = s.at, q = [r EXCEPT !.gone = r.gone \/ s.gone]
        PROVE  SoundRegister(k, q, makes, wrecks)
    <3>1. q.at = r.at /\ q.val = r.val /\ (q.gone <=> r.gone \/ s.gone)
      BY <2>3, <2>5
    <3>2. RegisterOf(k, q)
      BY <2>2, <2>4, <3>1 DEF SoundRegister, RegisterOf
    <3>3. Lived(k, q, makes, wrecks)
      BY <2>2, <2>5, <3>1 DEF SoundRegister, Lived
    <3>4. Marked(k, q)
      BY <2>2, <2>5, <3>1 DEF SoundRegister, Marked
    <3> QED BY <3>2, <3>3, <3>4 DEF SoundRegister
  <2> QED BY <2>1, <2>2, <2>4, <2>5 DEF r, s
<1> QED BY <1>1 DEF SoundDoc, Registers, Join

(***************************************************************************)
(* What a document's workspace has.                                        *)
(***************************************************************************)
\* A workspace speaks only of what some user made, and calls gone only what some
\* user destroyed.
Known(w, makes, wrecks) ==
  \A n \in Nodes : /\ n \in Has(w) \cup w.trash \/ w.origin[n] # Nil => n \in makes
                   /\ w.origin[n] = Gone => n \in wrecks

\* The parts of what a document stands for that most proofs need.
LEMMA MaterializeHas ==
  ASSUME NEW D
  PROVE  LET w == Materialize(D) IN
         \A n \in Nodes : /\ n \in Has(w) <=> n \in PresentIn(D)
                          /\ n \in w.trash => Held(D, <<"trash", n>>)
                          /\ w.origin[n] = Origin(D, n)
<1> DEFINE w == Materialize(D)
<1>1. /\ w.folders = DirsIn(D) /\ w.schemes = PresentIn(D) \cap Schemes
      /\ w.trash = {n \in BinnedIn(D) : Origin(D, n) # Gone}
      /\ w.origin = [n \in Nodes |-> Origin(D, n)]
  BY MaterializeParts
<1> HIDE DEF w
<1>2. \A n \in Nodes : n \in Has(w) <=> n \in PresentIn(D)
  BY <1>1, Constants DEF Has, DirsIn, PresentIn
<1> QED BY <1>1, <1>2 DEF BinnedIn, w

\* What the origin's key tells.
LEMMA OriginIs ==
  ASSUME NEW D, NEW makes, NEW wrecks, SoundDoc(D, makes, wrecks), NEW n \in Nodes
  PROVE  /\ Origin(D, n) # Nil => n \in makes
         /\ Origin(D, n) = Gone => n \in wrecks
<1> DEFINE r == D[<<"origin", n>>]
           k == <<"origin", n>>
<1>1. SoundRegister(k, r, makes, wrecks)
  BY KeyKinds DEF SoundDoc
<1>2. Origin(D, n) # Nil => ~r.gone /\ Origin(D, n) = r.val[1]
  BY DEF Origin, Held
<1> QED BY <1>1, <1>2, Constants DEF SoundRegister, RegisterOf, Lived

\* What a sound document stands for is known.
LEMMA MaterializeKnown ==
  ASSUME NEW D, NEW makes, NEW wrecks, SoundDoc(D, makes, wrecks)
  PROVE  Known(Materialize(D), makes, wrecks)
<1> DEFINE w == Materialize(D)
<1> SUFFICES ASSUME NEW n \in Nodes
             PROVE  /\ n \in Has(w) \cup w.trash \/ w.origin[n] # Nil => n \in makes
                    /\ w.origin[n] = Gone => n \in wrecks
  BY DEF Known
<1>1. /\ n \in Has(w) <=> n \in PresentIn(D)
      /\ n \in w.trash => Held(D, <<"trash", n>>)
      /\ w.origin[n] = Origin(D, n)
  BY MaterializeHas
<1>2. \A k \in Keys : Held(D, k) => k[2] \in makes
  BY DEF SoundDoc, SoundRegister, RegisterOf, Lived, Held
<1>3. Held(D, <<"node", n>>) \/ Held(D, <<"trash", n>>) => n \in makes
  BY <1>2, KeyKinds
<1> HIDE DEF w
<1> QED BY <1>1, <1>3, OriginIs DEF PresentIn

\* Of two documents merged, what either had is there still or was destroyed.
LEMMA JoinKeeps ==
  ASSUME NEW D, NEW E, NEW makes, NEW wrecks,
         SoundDoc(D, makes, wrecks), SoundDoc(E, makes, wrecks)
  PROVE  /\ Has(Materialize(D)) \cap Nodes \subseteq Has(Materialize(Join(D, E))) \cup wrecks
         /\ Has(Materialize(E)) \cap Nodes \subseteq Has(Materialize(Join(D, E))) \cup wrecks
<1> DEFINE J == Join(D, E)
<1>1. SoundDoc(J, makes, wrecks)
  BY JoinSound
<1>2. ASSUME NEW n \in Nodes, D[<<"node", n>>].at # <<>> \/ E[<<"node", n>>].at # <<>>
      PROVE  n \in Has(Materialize(J)) \cup wrecks
  <2>1. J[<<"node", n>>].at # <<>>
    <3>1. \A k \in Keys : D[k].at # <<>> \/ E[k].at # <<>> => J[k].at # <<>>
      BY JoinSound
    <3> HIDE DEF J
    <3> QED BY <1>2, <3>1, KeyKinds
  <2> HIDE DEF J
  <2>2. Lived(<<"node", n>>, J[<<"node", n>>], makes, wrecks)
    BY <1>1, KeyKinds DEF SoundDoc, SoundRegister
  <2>3. J[<<"node", n>>].gone => n \in wrecks
    BY <2>1, <2>2 DEF Lived
  <2>4. Origin(J, n) = Gone => n \in wrecks
    BY <1>1, OriginIs
  <2>5. n \in Has(Materialize(J)) <=> n \in PresentIn(J)
    BY MaterializeHas
  <2> QED BY <2>3, <2>4, <2>5 DEF PresentIn, Held
<1>3. \A n \in Nodes : n \in PresentIn(D) => D[<<"node", n>>].at # <<>>
  BY KeyKinds DEF PresentIn, Held, SoundDoc, SoundRegister, RegisterOf
<1>4. \A n \in Nodes : n \in PresentIn(E) => E[<<"node", n>>].at # <<>>
  BY KeyKinds DEF PresentIn, Held, SoundDoc, SoundRegister, RegisterOf
<1>5. \A n \in Nodes : /\ n \in Has(Materialize(D)) <=> n \in PresentIn(D)
                       /\ n \in Has(Materialize(E)) <=> n \in PresentIn(E)
  BY MaterializeHas
<1> HIDE DEF J
<1> QED BY <1>2, <1>3, <1>4, <1>5 DEF J

\* A write is one of the client's and the value's.
LEMMA WriteIs ==
  ASSUME NEW c \in Int, NEW v \in Seq(Int)
  PROVE  /\ <<c>> \o v \in Seq(Int)
         /\ \A x : v = <<x>> => (<<c>> \o v)[2] = x
BY SMTT(20)

\* What is added to the writes of a key is the last of them.
LEMMA AppendIs ==
  ASSUME NEW a \in Seq(Seq(Int)), NEW e \in Seq(Int)
  PROVE  /\ Append(a, e) \in Seq(Seq(Int)) /\ Append(a, e) # <<>>
         /\ Len(Append(a, e)) = Len(a) + 1 /\ Append(a, e)[Len(a) + 1] = e
         /\ \A i \in 1..Len(a) : Append(a, e)[i] = a[i]
<1>1. Append(a, e) \in Seq(Seq(Int)) /\ Len(Append(a, e)) = Len(a) + 1
  OBVIOUS
<1>2. Append(a, e) # <<>>
  BY <1>1
<1>3. Append(a, e)[Len(a) + 1] = e
  OBVIOUS
<1>4. \A i \in 1..Len(a) : Append(a, e)[i] = a[i]
  OBVIOUS
<1> QED BY <1>1, <1>2, <1>3, <1>4

\* The values that are written, by the kind of their key.
LEMMA ValueKinds ==
  ASSUME NEW n \in Nodes, NEW p \in Parents, NEW u \in Parents, NEW x \in Int,
         NEW o \in Dirs \cup {Gone}
  PROVE  /\ n \in Schemes => ValueOf(<<"node", n>>, <<p>>)
         /\ ValueOf(<<"node", n>>, <<p, u, x>>)
         /\ ValueOf(<<"kid", n>>, <<p>>) /\ ValueOf(<<"up", n>>, <<u>>)
         /\ ValueOf(<<"name", n>>, <<x>>) /\ ValueOf(<<"trash", n>>, <<1>>)
         /\ ValueOf(<<"origin", n>>, <<o>>)
<1>1. Parents \subseteq Int /\ o \in Int /\ Folders \cap Schemes = {}
  BY Constants DEF Parents
<1>2. ASSUME n \in Schemes PROVE ValueOf(<<"node", n>>, <<p>>)
  BY <1>1, <1>2 DEF ValueOf
<1>3. ValueOf(<<"node", n>>, <<p, u, x>>)
  BY <1>1 DEF ValueOf
<1>4. ValueOf(<<"kid", n>>, <<p>>) /\ ValueOf(<<"up", n>>, <<u>>)
  BY <1>1 DEF ValueOf
<1>5. ValueOf(<<"name", n>>, <<x>>) /\ ValueOf(<<"trash", n>>, <<1>>)
  BY DEF ValueOf
<1>6. ValueOf(<<"origin", n>>, <<o>>)
  BY <1>1 DEF ValueOf
<1> QED BY <1>2, <1>3, <1>4, <1>5, <1>6

\* What should be held under a key is a value of the key's, of a node some user made.
LEMMA DesiredSound ==
  ASSUME NEW w, Canonical(w), NEW makes, NEW wrecks, Known(w, makes, wrecks), NEW k \in Keys
  PROVE  LET want == Desired(w)[k] IN
         want.on => /\ ValueOf(k, want.val)
                    /\ k[2] \in makes
                    /\ k[1] = "origin" => /\ want.val = <<w.origin[k[2]]>>
                                          /\ w.origin[k[2]] = Gone => k[2] \in wrecks
<1> DEFINE Q(want, key, n) ==
             want.on => /\ ValueOf(key, want.val)
                        /\ n \in makes
                        /\ key[1] = "origin" => /\ want.val = <<w.origin[n]>>
                                                /\ w.origin[n] = Gone => n \in wrecks
<1>1. ASSUME NEW n \in Nodes
      PROVE  /\ Q(Desired(w)[<<"node", n>>], <<"node", n>>, n)
             /\ Q(Desired(w)[<<"kid", n>>], <<"kid", n>>, n)
             /\ Q(Desired(w)[<<"trash", n>>], <<"trash", n>>, n)
             /\ Q(Desired(w)[<<"origin", n>>], <<"origin", n>>, n)
             /\ n \in Folders => /\ Q(Desired(w)[<<"up", n>>], <<"up", n>>, n)
                                 /\ Q(Desired(w)[<<"name", n>>], <<"name", n>>, n)
  <2> DEFINE want == Desired(w)
             kept == n \in Has(w) /\ w.origin[n] # Gone
  <2>1. /\ want[<<"node", n>>].on <=> kept
        /\ want[<<"node", n>>].val = IF n \in Schemes THEN <<w.kid[n]>>
                                     ELSE <<w.kid[n], w.up[n], w.name[n]>>
        /\ want[<<"kid", n>>].on <=> kept
        /\ want[<<"kid", n>>].val = <<w.kid[n]>>
        /\ want[<<"trash", n>>].on <=> n \in w.trash /\ w.origin[n] # Gone
        /\ want[<<"trash", n>>].val = <<1>>
        /\ want[<<"origin", n>>].on <=> w.origin[n] # Nil
        /\ want[<<"origin", n>>].val = <<w.origin[n]>>
        /\ n \in Folders => /\ want[<<"up", n>>].on <=> kept
                            /\ want[<<"up", n>>].val = <<w.up[n]>>
                            /\ want[<<"name", n>>].on <=> kept
                            /\ want[<<"name", n>>].val = <<w.name[n]>>
    BY DesiredOf
  <2> HIDE DEF want
  <2>2. /\ w.kid[n] \in Parents /\ w.origin[n] \in Dirs \cup {Nil, Gone}
        /\ n \in Folders => w.up[n] \in Parents /\ w.name[n] \in Int
    BY WorkspaceFields DEF Canonical, Parents
  <2>3. /\ n \in Has(w) \cup w.trash \/ w.origin[n] # Nil => n \in makes
        /\ w.origin[n] = Gone => n \in wrecks
    BY DEF Known
  <2>4. n \notin Schemes => n \in Folders
    BY Constants
  <2>5. Nil \in Parents /\ 0 \in Int /\ Gone \in Dirs \cup {Gone}
    BY DEF Parents
  <2>6. Q(want[<<"node", n>>], <<"node", n>>, n)
    <3>1. n \in Schemes => ValueOf(<<"node", n>>, <<w.kid[n]>>)
      BY <2>2, <2>5, ValueKinds
    <3>2. n \in Folders => ValueOf(<<"node", n>>, <<w.kid[n], w.up[n], w.name[n]>>)
      BY <2>2, <2>5, ValueKinds
    <3> QED BY <2>1, <2>3, <2>4, <3>1, <3>2
  <2>7. Q(want[<<"kid", n>>], <<"kid", n>>, n)
    <3>1. ValueOf(<<"kid", n>>, <<w.kid[n]>>)
      BY <2>2, <2>5, ValueKinds
    <3> QED BY <2>1, <2>3, <3>1
  <2>8. Q(want[<<"trash", n>>], <<"trash", n>>, n)
    <3>1. ValueOf(<<"trash", n>>, <<1>>)
      BY <2>5, ValueKinds
    <3> QED BY <2>1, <2>3, <3>1
  <2>9. Q(want[<<"origin", n>>], <<"origin", n>>, n)
    <3>1. w.origin[n] # Nil => ValueOf(<<"origin", n>>, <<w.origin[n]>>)
      BY <2>2, <2>5, ValueKinds
    <3> QED BY <2>1, <2>3, <3>1
  <2>10. ASSUME n \in Folders
         PROVE  /\ Q(want[<<"up", n>>], <<"up", n>>, n)
                /\ Q(want[<<"name", n>>], <<"name", n>>, n)
    <3>1. ValueOf(<<"up", n>>, <<w.up[n]>>) /\ ValueOf(<<"name", n>>, <<w.name[n]>>)
      BY <2>2, <2>5, <2>10, ValueKinds
    <3> QED BY <2>1, <2>3, <2>10, <3>1
  <2> HIDE DEF Q
  <2> QED BY <2>6, <2>7, <2>8, <2>9, <2>10 DEF want
<1>2. k = <<k[1], k[2]>> /\ k[2] \in Nodes
  BY KeyKinds
<1>3. k[1] \in {"node", "kid", "trash", "origin", "up", "name"}
      /\ (k[1] \in {"up", "name"} => k[2] \in Folders)
  BY KeyKinds
<1> HIDE DEF Q
<1>4. Q(Desired(w)[k], k, k[2])
  BY <1>1, <1>2, <1>3
<1> QED BY <1>4 DEF Q

\* A write is sound of a workspace that has all the document's has, what was
\* destroyed excepted, and that leaves the tombstones alone.
LEMMA WriteSound ==
  ASSUME NEW D, NEW w, NEW c \in Int, NEW makes, NEW wrecks,
         SoundDoc(D, makes, wrecks), Canonical(w), Known(w, makes, wrecks),
         Has(Materialize(D)) \cap Nodes \subseteq Has(w) \cup wrecks,
         \A n \in Nodes : Origin(D, n) = Gone => w.origin[n] = Gone
  PROVE  SoundDoc(Write(D, w, c), makes, wrecks)
<1> DEFINE E == Write(D, w, c)
<1> SUFFICES ASSUME NEW k \in Keys
             PROVE  /\ E[k] \in [at : Seq(Seq(Int)), val : Seq(Int), gone : BOOLEAN]
                    /\ SoundRegister(k, E[k], makes, wrecks)
  BY DEF SoundDoc, Registers, Write
<1> DEFINE n == k[2]
           r == D[k]
           want == Desired(w)[k]
           q == Put(r, want, c)
<1>1. E[k] = q
  BY WriteHolds
<1>2. n \in Nodes /\ k = <<k[1], n>>
  BY KeyKinds
<1>3. SoundRegister(k, r, makes, wrecks)
  BY DEF SoundDoc
<1>4. r \in [at : Seq(Seq(Int)), val : Seq(Int), gone : BOOLEAN]
  BY <1>3 DEF SoundRegister, RegisterOf
<1>5. want.on => /\ ValueOf(k, want.val) /\ n \in makes
                 /\ k[1] = "origin" => /\ want.val = <<w.origin[n]>>
                                       /\ w.origin[n] = Gone => n \in wrecks
  BY DesiredSound
<1>6. ASSUME k[1] = "node", ~want.on, r.at # <<>> PROVE n \in wrecks
  <2>1. want.on <=> n \in Has(w) /\ w.origin[n] # Gone
    BY <1>2, <1>6, DesiredOf
  <2>2. n \in Has(w) => w.origin[n] # Gone
    BY <1>2 DEF Canonical
  <2>3. n \notin Has(w)
    BY <1>6, <2>1, <2>2
  <2>4. r.gone => n \in wrecks
    BY <1>3, <1>6 DEF SoundRegister, Lived
  <2>5. Origin(D, n) = Gone => n \in wrecks
    BY <1>2, OriginIs
  <2>6. n \in Has(Materialize(D)) <=> n \in PresentIn(D)
    BY <1>2, MaterializeHas
  <2>7. ASSUME ~r.gone, Origin(D, n) # Gone PROVE n \in PresentIn(D)
    BY <1>2, <1>6, <2>7 DEF PresentIn, Held
  <2> QED BY <1>2, <2>3, <2>4, <2>5, <2>6, <2>7
<1>7. ASSUME k[1] = "origin", NEW i \in 1..Len(r.at), r.at[i][2] = Gone
      PROVE  ~r.gone /\ i = Len(r.at) /\ r.val = <<Gone>> /\ want.on /\ want.val = <<Gone>>
  <2>1. ~r.gone /\ i = Len(r.at) /\ r.at # <<>>
    BY <1>3, <1>4, <1>7 DEF SoundRegister, Marked
  <2>2. r.val[1] = Gone
    BY <1>3, <1>7, <2>1 DEF SoundRegister, Marked
  <2>3. r.val = <<Gone>>
    BY <1>3, <1>7, <2>1, <2>2 DEF SoundRegister, RegisterOf, ValueOf
  <2>4. Origin(D, n) = Gone
    BY <1>2, <1>7, <2>1, <2>2 DEF Origin, Held
  <2>5. w.origin[n] = Gone
    BY <1>2, <2>4
  <2>6. (want.on <=> w.origin[n] # Nil) /\ want.val = <<w.origin[n]>>
    <3>1. k = <<"origin", n>>
      BY <1>2, <1>7
    <3>2. /\ Desired(w)[<<"origin", n>>].on <=> w.origin[n] # Nil
          /\ Desired(w)[<<"origin", n>>].val = <<w.origin[n]>>
      <4> HIDE DEF n
      <4>1. n \in Nodes
        BY <1>2
      <4> QED BY <4>1, DesiredOf
    <3> QED BY <3>1, <3>2
  <2> QED BY <2>1, <2>3, <2>5, <2>6, Constants
<1> HIDE DEF E, n, r, want
<1>8. CASE ~want.on
  <2>1. q = [r EXCEPT !.gone = TRUE]
    BY <1>8 DEF Put
  <2>2. q \in [at : Seq(Seq(Int)), val : Seq(Int), gone : BOOLEAN]
        /\ q.at = r.at /\ q.val = r.val /\ q.gone
    BY <1>4, <2>1
  <2> HIDE DEF q
  <2>3. RegisterOf(k, q)
    BY <1>3, <2>2 DEF SoundRegister, RegisterOf
  <2>4. Lived(k, q, makes, wrecks)
    BY <1>3, <1>6, <1>8, <2>2 DEF SoundRegister, Lived, n
  <2>5. Marked(k, q)
    BY <1>3, <1>7, <1>8, <2>2 DEF SoundRegister, Marked
  <2> QED BY <1>1, <2>2, <2>3, <2>4, <2>5 DEF SoundRegister
<1>9. CASE want.on /\ ~r.gone /\ r.val = want.val
  <2>1. q = r
    BY <1>9 DEF Put
  <2> QED BY <1>1, <1>3, <1>4, <2>1
<1>10. CASE want.on /\ ~(~r.gone /\ r.val = want.val)
  <2> DEFINE e == <<c>> \o want.val
  <2>1. q = [at |-> Append(r.at, e), val |-> want.val, gone |-> FALSE]
    BY <1>10 DEF Put
  <2>2. want.val \in Seq(Int) /\ r.at \in Seq(Seq(Int))
    BY <1>4, <1>5, <1>10 DEF ValueOf
  <2>3. e \in Seq(Int) /\ \A x : want.val = <<x>> => e[2] = x
    BY <2>2, WriteIs
  <2> HIDE DEF e
  <2>4. /\ Append(r.at, e) \in Seq(Seq(Int)) /\ Append(r.at, e) # <<>>
        /\ Len(Append(r.at, e)) = Len(r.at) + 1 /\ Append(r.at, e)[Len(r.at) + 1] = e
        /\ \A i \in 1..Len(r.at) : Append(r.at, e)[i] = r.at[i]
    BY <2>2, <2>3, AppendIs
  <2>5. q \in [at : Seq(Seq(Int)), val : Seq(Int), gone : BOOLEAN]
        /\ q.at = Append(r.at, e) /\ q.val = want.val /\ ~q.gone
    BY <2>1, <2>2, <2>4
  <2> HIDE DEF q
  <2>6. RegisterOf(k, q)
    BY <1>5, <1>10, <2>4, <2>5 DEF RegisterOf
  <2>7. Lived(k, q, makes, wrecks)
    <3>1. k[1] = "origin" /\ q.val[1] = Gone => n \in wrecks
      BY <1>5, <1>10, <2>5
    <3> QED BY <1>5, <1>10, <2>5, <3>1 DEF Lived, n
  <2>8. Marked(k, q)
    <3> SUFFICES ASSUME k[1] = "origin"
                 PROVE  /\ q.at[Len(q.at)][2] = q.val[1]
                        /\ \A i \in 1..Len(q.at) : q.at[i][2] = Gone => i = Len(q.at) /\ ~q.gone
      BY DEF Marked
    <3>1. want.val = <<w.origin[n]>> /\ e[2] = w.origin[n]
      BY <1>5, <1>10, <2>3
    <3>2. q.at[Len(q.at)] = e /\ q.val[1] = w.origin[n]
      BY <2>4, <2>5, <3>1
    <3>3. Len(r.at) \in Nat /\ Len(q.at) = Len(r.at) + 1
      BY <2>2, <2>4, <2>5
    <3>4. ASSUME NEW i \in 1..Len(r.at) PROVE r.at[i][2] # Gone
      BY <1>7, <1>10, <3>4
    <3>5. ASSUME NEW i \in 1..Len(q.at), q.at[i][2] = Gone PROVE i = Len(q.at)
      <4>1. CASE i \in 1..Len(r.at)
        BY <2>4, <2>5, <3>4, <3>5, <4>1
      <4>2. CASE i \notin 1..Len(r.at)
        BY <3>3, <4>2
      <4> QED BY <4>1, <4>2
    <3> QED BY <2>5, <3>1, <3>2, <3>5
  <2> QED BY <1>1, <2>5, <2>6, <2>7, <2>8 DEF SoundRegister
<1> QED BY <1>8, <1>9, <1>10

(***************************************************************************)
(* The commands. Each turns a canonical workspace into another; all but    *)
(* creating and destroying leave what there is, and none touches a         *)
(* tombstone.                                                              *)
(***************************************************************************)
\* v is w with its nodes moved, renamed, put in the trash or taken from it.
SameNodes(w, v) ==
  /\ v.folders = w.folders /\ v.schemes = w.schemes
  /\ v.trash \subseteq w.trash \cup Has(w)
  /\ \A n \in Nodes : /\ v.origin[n] = Gone <=> w.origin[n] = Gone
                      /\ v.origin[n] # w.origin[n] => n \in Has(w)
Steady(w, v) == Canonical(v) /\ SameNodes(w, v)

LEMMA SteadyIntro ==
  ASSUME NEW w, Canonical(w), NEW v \in Workspaces, SameNodes(w, v),
         \A n \in Nodes : n \notin Has(w) => v.kid[n] = Nil,
         \A f \in Folders : f \notin w.folders => v.up[f] = Nil /\ v.name[f] = 0,
         \A f \in Folders \cap w.folders : FolderSettled(v, f),
         \A s \in w.schemes : SchemeSettled(v, s)
  PROVE  Steady(w, v)
<1>1. Has(v) = Has(w)
  BY DEF SameNodes, Has
<1>2. Has(v) \cup v.trash \subseteq Has(w) \cup w.trash
  BY <1>1 DEF SameNodes
<1>3. \A n \in Nodes : n \in Has(v) \cup v.trash => v.origin[n] # Gone
  BY <1>2 DEF SameNodes, Canonical
<1> QED BY <1>1, <1>3 DEF Steady, Canonical, SameNodes

LEMMA SteadyTransitive ==
  ASSUME NEW w, NEW v, NEW u, SameNodes(w, v), Steady(v, u)
  PROVE  Steady(w, u)
<1>1. Has(v) = Has(w)
  BY DEF SameNodes, Has
<1> QED BY <1>1 DEF Steady, SameNodes

LEMMA SteadySelf ==
  ASSUME NEW w, Canonical(w)
  PROVE  Steady(w, w)
BY DEF Steady, SameNodes

\* What is archived is in any set with the folders in the trash that has, with an
\* archived folder, those it lists.
LEMMA ArchivedLeast ==
  ASSUME NEW w, NEW T, w.trash \cap w.folders \subseteq T,
         \A f \in Folders \cap w.folders :
           w.kid[f] \in T /\ w.kid[f] \in Archived(w) => f \in T
  PROVE  Archived(w) \subseteq T
<1> DEFINE from == w.trash \cap w.folders
           A == Below(w.kid, from, w.folders)
<1>1. Archived(w) = A
  BY DEF Archived
<1>2. Closed(A, w.kid, from, w.folders)
  BY BelowClosed
<1>3. Closed(A \cap T, w.kid, from, w.folders)
  BY <1>1, <1>2 DEF Closed
<1>4. A \subseteq A \cap T
  BY <1>3, BelowLeast
<1> QED BY <1>1, <1>4

\* It depends on the folders alone: which there are, which are in the trash, and
\* which lists which.
LEMMA ArchivedSame ==
  ASSUME NEW w, NEW v, v.folders = w.folders,
         v.trash \cap w.folders = w.trash \cap w.folders,
         \A f \in Folders \cap w.folders : v.kid[f] = w.kid[f]
  PROVE  Archived(v) = Archived(w)
BY BelowSame DEF Archived

\* reassert_local_folder_edits, rename_folder: the name.
LEMMA RenameSteady ==
  ASSUME NEW w, Canonical(w), NEW f \in Folders \cap w.folders, NEW x \in Int
  PROVE  Steady(w, [w EXCEPT !.name[f] = x])
<1> DEFINE v == [w EXCEPT !.name[f] = x]
<1>1. w \in Workspaces
  BY DEF Canonical
<1>2. /\ v.folders = w.folders /\ v.schemes = w.schemes /\ v.kid = w.kid /\ v.up = w.up
      /\ v.trash = w.trash /\ v.origin = w.origin
      /\ v.name = [w.name EXCEPT ![f] = x]
      /\ v \in Workspaces
  BY <1>1 DEF Workspaces
<1> HIDE DEF v
<1>3. SameNodes(w, v)
  BY <1>2 DEF SameNodes
<1>4. Archived(v) = Archived(w)
  BY <1>2, ArchivedSame
<1>5. \A g \in Folders : g \notin w.folders => v.up[g] = Nil /\ v.name[g] = 0
  BY <1>1, <1>2, WorkspaceFields DEF Canonical
<1>6. \A g \in Folders \cap w.folders : FolderSettled(v, g)
  BY <1>2 DEF Canonical, FolderSettled
<1>7. \A s \in w.schemes : SchemeSettled(v, s)
  BY <1>2, <1>4 DEF Canonical, SchemeSettled
<1>8. \A n \in Nodes : n \notin Has(w) => v.kid[n] = Nil
  BY <1>2 DEF Canonical
<1> QED BY <1>2, <1>3, <1>5, <1>6, <1>7, <1>8, SteadyIntro DEF v

\* delete_scheme, delete_folder: what was archived is, and the schemes of the folder
\* are in one that is.
LEMMA ArchiveSteady ==
  ASSUME NEW w, Canonical(w), NEW n \in Nodes, CanArchive(w, n)
  PROVE  Steady(w, Archive(w, n))
<1> DEFINE v == Archive(w, n)
           taken == {n} \cup (IF n \in Folders THEN SchemesIn(w, n) ELSE {})
<1>1. w \in Workspaces /\ n \in Has(w) /\ w.kid[n] # Nil
  BY DEF Canonical, CanArchive
<1>2. /\ w.folders \subseteq Dirs /\ w.schemes \subseteq Schemes /\ w.trash \subseteq Nodes
      /\ w.kid \in [Nodes -> Dirs \cup {Nil}] /\ w.up \in [Folders -> Dirs \cup {Nil}]
      /\ w.name \in [Folders -> Int] /\ w.origin \in [Nodes -> Dirs \cup {Nil, Gone}]
  BY <1>1, WorkspaceFields
<1>3. taken \subseteq Has(w) \cap Nodes
  BY <1>1, <1>2, Constants DEF SchemesIn, Has
<1> HIDE DEF taken
<1>4. /\ v.folders = w.folders /\ v.schemes = w.schemes /\ v.up = w.up /\ v.name = w.name
      /\ v.kid = [w.kid EXCEPT ![n] = Nil] /\ v.origin = [w.origin EXCEPT ![n] = w.kid[n]]
      /\ v.trash = w.trash \cup taken
      /\ v = [folders |-> v.folders, schemes |-> v.schemes, kid |-> v.kid, up |-> v.up,
              name |-> v.name, trash |-> v.trash, origin |-> v.origin]
  <2>1. v = [w EXCEPT !.kid[n] = Nil, !.origin[n] = w.kid[n], !.trash = w.trash \cup taken]
    BY DEF Archive, taken
  <2> HIDE DEF v
  <2> QED BY <1>1, <2>1 DEF Workspaces
<1> HIDE DEF v
<1>5. v.kid \in [Nodes -> Dirs \cup {Nil}] /\ v.origin \in [Nodes -> Dirs \cup {Nil, Gone}]
  BY <1>2, <1>4
<1>6. v \in Workspaces
  BY <1>2, <1>3, <1>4, <1>5 DEF Workspaces
<1>7. SameNodes(w, v)
  <2>1. w.kid[n] # Gone /\ w.origin[n] # Gone
    <3>1. w.kid[n] \in Dirs \cup {Nil}
      BY <1>2
    <3>2. w.origin[n] # Gone
      BY <1>1 DEF Canonical
    <3> QED BY <3>1, <3>2, Constants
  <2>2. \A m \in Nodes : m # n => v.origin[m] = w.origin[m]
    BY <1>2, <1>4
  <2>3. v.origin[n] = w.kid[n]
    BY <1>2, <1>4
  <2> QED BY <1>1, <1>3, <1>4, <2>1, <2>2, <2>3 DEF SameNodes
<1>8. \A m \in Nodes : m # n => v.kid[m] = w.kid[m]
  BY <1>2, <1>4
<1>9. v.kid[n] = Nil /\ n \in v.trash
  BY <1>2, <1>4 DEF taken
<1>10. Archived(w) \subseteq Archived(v) /\ (n \in Folders => FoldersIn(w, n) \subseteq Archived(v))
  <2>1. Closed(Archived(v), v.kid, v.trash \cap v.folders, v.folders)
    BY <1>2, <1>4, ArchivedFolders
  <2>2. n \in Folders => n \in Archived(v)
    BY <1>1, <1>2, <1>4, <1>9, <2>1, Constants DEF Closed, Has
  <2>3. \A f \in Folders \cap w.folders : w.kid[f] \in Archived(v) => f \in Archived(v)
    BY <1>4, <1>8, <2>1, <2>2, Constants DEF Closed
  <2>4. Archived(w) \subseteq Archived(v)
    BY <1>4, <2>1, <2>3, ArchivedLeast DEF Closed
  <2>5. ASSUME n \in Folders PROVE FoldersIn(w, n) \subseteq Archived(v)
    <3>1. Closed(Archived(v), w.kid, {n}, w.folders)
      BY <2>2, <2>3, <2>5 DEF Closed
    <3> QED BY <3>1, BelowLeast DEF FoldersIn
  <2> QED BY <2>4, <2>5
<1>11. ASSUME NEW f \in Folders \cap w.folders PROVE FolderSettled(v, f)
  <2>1. f \in taken => f = n
    BY Constants, <1>2 DEF taken, SchemesIn
  <2>2. FolderSettled(w, f) /\ f \in Nodes
    BY Constants DEF Canonical
  <2> QED BY <1>4, <1>8, <1>9, <2>1, <2>2 DEF FolderSettled
<1>12. ASSUME NEW s \in w.schemes PROVE SchemeSettled(v, s)
  <2>1. SchemeSettled(w, s) /\ s \in Nodes
    BY <1>2, Constants DEF Canonical
  <2>2. CASE s = n
    BY <1>9, <2>2 DEF SchemeSettled
  <2>3. CASE s # n /\ s \in taken
    <3>1. n \in Folders /\ w.kid[s] \in FoldersIn(w, n)
      BY <2>3 DEF taken, SchemesIn
    <3> QED BY <1>4, <1>8, <1>10, <2>1, <2>3, <3>1 DEF SchemeSettled
  <2>4. CASE s # n /\ s \notin taken
    BY <1>4, <1>8, <1>10, <2>1, <2>4 DEF SchemeSettled
  <2> QED BY <2>2, <2>3, <2>4
<1>13. \A m \in Nodes : m \notin Has(w) => v.kid[m] = Nil
  BY <1>1, <1>8 DEF Canonical
<1>14. \A f \in Folders : f \notin w.folders => v.up[f] = Nil /\ v.name[f] = 0
  BY <1>4 DEF Canonical
<1> QED BY <1>6, <1>7, <1>11, <1>12, <1>13, <1>14, SteadyIntro DEF v

\* restore_scheme, restore_folder: what was archived and is so no more was in the
\* folder that came back, and so were the schemes it still speaks of.
LEMMA RestoreSteady ==
  ASSUME NEW w, Canonical(w), NEW n \in Nodes, n \in Has(w), NEW p \in w.folders
  PROVE  Steady(w, Restore(w, n, p))
<1> DEFINE v == Restore(w, n, p)
           back == {n} \cup (IF n \in Folders THEN SchemesIn(w, n) ELSE {})
<1>1. w \in Workspaces
  BY DEF Canonical
<1>2. /\ w.folders \subseteq Dirs /\ w.schemes \subseteq Schemes /\ w.trash \subseteq Nodes
      /\ w.kid \in [Nodes -> Dirs \cup {Nil}] /\ w.up \in [Folders -> Dirs \cup {Nil}]
      /\ w.name \in [Folders -> Int] /\ w.origin \in [Nodes -> Dirs \cup {Nil, Gone}]
  BY <1>1, WorkspaceFields
<1>3. back \subseteq Has(w) \cap Nodes
  BY <1>1, <1>2, Constants DEF SchemesIn, Has
<1> HIDE DEF back
<1>4. /\ v.folders = w.folders /\ v.schemes = w.schemes /\ v.name = w.name
      /\ v.up = IF n \in Schemes THEN w.up ELSE [w.up EXCEPT ![n] = p]
      /\ v.kid = [w.kid EXCEPT ![n] = p]
      /\ v.origin = [m \in Nodes |-> IF m \in back THEN Nil ELSE w.origin[m]]
      /\ v.trash = w.trash \ back
      /\ v = [folders |-> v.folders, schemes |-> v.schemes, kid |-> v.kid, up |-> v.up,
              name |-> v.name, trash |-> v.trash, origin |-> v.origin]
  <2> DEFINE u == [w EXCEPT !.kid[n] = p, !.trash = w.trash \ back,
                            !.origin = [m \in Nodes |-> IF m \in back THEN Nil ELSE w.origin[m]]]
  <2>1. v = IF n \in Schemes THEN u ELSE [u EXCEPT !.up[n] = p]
    BY DEF Restore, back
  <2>2. u = [w EXCEPT !.kid = [w.kid EXCEPT ![n] = p], !.trash = w.trash \ back,
                      !.origin = [m \in Nodes |-> IF m \in back THEN Nil ELSE w.origin[m]]]
    OBVIOUS
  <2> HIDE DEF v
  <2>3. CASE n \in Schemes
    BY <1>1, <2>1, <2>3 DEF Workspaces
  <2>4. CASE n \notin Schemes
    BY <1>1, <2>1, <2>4 DEF Workspaces
  <2> QED BY <2>3, <2>4
<1> HIDE DEF v
<1>5. n \notin Schemes => n \in Folders
  BY Constants
<1>6. v \in Workspaces
  <2>1. v.kid \in [Nodes -> Dirs \cup {Nil}] /\ v.origin \in [Nodes -> Dirs \cup {Nil, Gone}]
    BY <1>2, <1>4
  <2>2. v.up \in [Folders -> Dirs \cup {Nil}]
    BY <1>2, <1>4, <1>5
  <2>3. v.trash \subseteq Nodes
    BY <1>2, <1>4
  <2> QED BY <1>2, <1>4, <2>1, <2>2, <2>3 DEF Workspaces
<1>7. SameNodes(w, v)
  <2>1. \A m \in Nodes : v.origin[m] = IF m \in back THEN Nil ELSE w.origin[m]
    BY <1>4
  <2>2. \A m \in back : w.origin[m] # Gone
    BY <1>3 DEF Canonical
  <2> QED BY <1>3, <1>4, <2>1, <2>2, Constants DEF SameNodes
<1>8. (\A m \in Nodes : m # n => v.kid[m] = w.kid[m]) /\ v.kid[n] = p /\ n \notin v.trash
  BY <1>2, <1>4 DEF back
<1>9. \A f \in Folders : v.up[f] = IF f = n THEN p ELSE w.up[f]
  BY <1>2, <1>4, <1>5, Constants
<1>10. n \in Folders => n \in w.folders
  BY <1>2, Constants DEF Has
<1>11. n \in Folders => FoldersIn(w, n) \subseteq w.folders /\ Closed(FoldersIn(w, n), w.kid, {n}, w.folders)
  BY <1>10, BelowClosed DEF FoldersIn
<1>12. Archived(w) \subseteq Archived(v) \cup (IF n \in Folders THEN FoldersIn(w, n) ELSE {})
  <2> DEFINE T == Archived(v) \cup (IF n \in Folders THEN FoldersIn(w, n) ELSE {})
  <2>1. Closed(Archived(v), v.kid, v.trash \cap v.folders, v.folders)
    BY <1>2, <1>4, ArchivedFolders
  <2>2. w.trash \cap w.folders \subseteq T
    <3>1. \A f \in w.folders : f \in back => f = n /\ n \in Folders
      <4> SUFFICES ASSUME NEW f \in w.folders, f \in back PROVE f = n /\ n \in Folders
        OBVIOUS
      <4>1. f \in Folders /\ f \notin w.schemes
        BY <1>2, <1>3, Constants
      <4> QED BY <4>1 DEF back, SchemesIn
    <3>2. \A f \in w.trash \cap w.folders : f \notin back => f \in Archived(v)
      BY <1>4, <2>1 DEF Closed
    <3>3. n \in Folders => n \in FoldersIn(w, n)
      BY <1>11 DEF Closed
    <3> QED BY <3>1, <3>2, <3>3
  <2>3. ASSUME NEW f \in Folders \cap w.folders, w.kid[f] \in T PROVE f \in T
    <3>1. CASE f = n
      BY <1>11, <3>1 DEF Closed
    <3>2. CASE f # n /\ w.kid[f] \in Archived(v)
      <4>1. v.kid[f] = w.kid[f]
        BY <1>8, <3>2, Constants
      <4> QED BY <1>4, <2>1, <3>2, <4>1 DEF Closed
    <3>3. CASE n \in Folders /\ w.kid[f] \in FoldersIn(w, n)
      BY <1>11, <3>3 DEF Closed
    <3> QED BY <2>3, <3>1, <3>2, <3>3
  <2> HIDE DEF T
  <2>4. Archived(w) \subseteq T
    BY <2>2, <2>3, ArchivedLeast
  <2> QED BY <2>4 DEF T
<1>13. ASSUME NEW f \in Folders \cap w.folders PROVE FolderSettled(v, f)
  <2>1. f \in back <=> f = n
    BY <1>2, Constants DEF back, SchemesIn
  <2>2. FolderSettled(w, f) /\ f \in Nodes
    BY Constants DEF Canonical
  <2> QED BY <1>4, <1>8, <1>9, <2>1, <2>2 DEF FolderSettled
<1>14. ASSUME NEW s \in w.schemes PROVE SchemeSettled(v, s)
  <2>1. SchemeSettled(w, s) /\ s \in Nodes /\ s \notin Folders
    BY <1>2, Constants DEF Canonical
  <2>2. CASE s = n
    BY <1>4, <1>8, <2>2 DEF SchemeSettled
  <2>3. CASE s # n /\ s \in back
    <3>1. n \in Folders /\ w.kid[s] \in FoldersIn(w, n)
      BY <2>3 DEF back, SchemesIn
    <3> QED BY <1>4, <1>8, <1>11, <2>1, <2>3, <3>1 DEF SchemeSettled
  <2>4. CASE s # n /\ s \notin back
    <3>1. n \in Folders => w.kid[s] \notin FoldersIn(w, n)
      BY <2>4 DEF back, SchemesIn
    <3>2. v.kid[s] = w.kid[s] /\ (s \in v.trash <=> s \in w.trash)
      BY <1>4, <1>8, <2>1, <2>4
    <3> QED BY <1>4, <1>12, <2>1, <3>1, <3>2 DEF SchemeSettled
  <2> QED BY <2>2, <2>3, <2>4
<1>15. \A m \in Nodes : m \notin Has(w) => v.kid[m] = Nil
  BY <1>8 DEF Canonical
<1>16. \A f \in Folders : f \notin w.folders => v.up[f] = Nil /\ v.name[f] = 0
  BY <1>4, <1>9, <1>10 DEF Canonical
<1> QED BY <1>6, <1>7, <1>13, <1>14, <1>15, <1>16, SteadyIntro DEF v

\* reassert_local_folder_edits: the schemes of a folder that is not in the trash.
LEMMA UnbinnedSteady ==
  ASSUME NEW w, Canonical(w), NEW landed, NEW was, NEW f \in Folders
  PROVE  Steady(w, Unbinned(w, landed, was, f))
<1> DEFINE v == Unbinned(w, landed, was, f)
           back == SchemesIn(was, f) \cap w.schemes \cap landed.trash
<1>1. w \in Workspaces
  BY DEF Canonical
<1>2. /\ w.folders \subseteq Dirs /\ w.schemes \subseteq Schemes /\ w.trash \subseteq Nodes
      /\ w.kid \in [Nodes -> Dirs \cup {Nil}] /\ w.up \in [Folders -> Dirs \cup {Nil}]
      /\ w.name \in [Folders -> Int] /\ w.origin \in [Nodes -> Dirs \cup {Nil, Gone}]
  BY <1>1, WorkspaceFields
<1>3. back \subseteq w.schemes
  OBVIOUS
<1> HIDE DEF back
<1>4. CASE ~ValidParent(w, f)
  BY <1>4, SteadySelf DEF Unbinned
<1>5. CASE ValidParent(w, f)
  <2>1. v = [w EXCEPT !.trash = w.trash \ back,
                      !.kid = [n \in Nodes |-> IF n \in back THEN f ELSE w.kid[n]],
                      !.origin = [n \in Nodes |-> IF n \in back THEN Nil ELSE w.origin[n]]]
    BY <1>5 DEF Unbinned, back
  <2> HIDE DEF v
  <2>2. /\ v.folders = w.folders /\ v.schemes = w.schemes /\ v.up = w.up /\ v.name = w.name
        /\ v.kid = [n \in Nodes |-> IF n \in back THEN f ELSE w.kid[n]]
        /\ v.origin = [n \in Nodes |-> IF n \in back THEN Nil ELSE w.origin[n]]
        /\ v.trash = w.trash \ back
        /\ v = [folders |-> v.folders, schemes |-> v.schemes, kid |-> v.kid, up |-> v.up,
                name |-> v.name, trash |-> v.trash, origin |-> v.origin]
    BY <1>1, <2>1 DEF Workspaces
  <2>3. f \in w.folders
    BY <1>5 DEF ValidParent
  <2>4. v \in Workspaces
    <3>1. v.kid \in [Nodes -> Dirs \cup {Nil}] /\ v.origin \in [Nodes -> Dirs \cup {Nil, Gone}]
      BY <1>2, <2>2, Constants
    <3> QED BY <1>2, <2>2, <3>1 DEF Workspaces
  <2>5. \A g \in Folders : g \notin back /\ g \in Nodes
    BY <1>2, <1>3, Constants
  <2>6. SameNodes(w, v)
    <3>1. \A m \in Nodes : v.origin[m] = IF m \in back THEN Nil ELSE w.origin[m]
      BY <2>2
    <3>2. \A m \in back : m \in Has(w) /\ m \in Nodes
      BY <1>2, <1>3, Constants DEF Has
    <3>3. \A m \in back : w.origin[m] # Gone
      BY <3>2 DEF Canonical
    <3> QED BY <2>2, <3>1, <3>2, <3>3, Constants DEF SameNodes
  <2>7. Archived(v) = Archived(w)
    <3>1. v.trash \cap w.folders = w.trash \cap w.folders
      BY <1>2, <1>3, <2>2, Constants
    <3>2. \A g \in Folders \cap w.folders : v.kid[g] = w.kid[g]
      BY <2>2, <2>5
    <3> QED BY <2>2, <3>1, <3>2, ArchivedSame
  <2>8. \A g \in Folders \cap w.folders : FolderSettled(v, g)
    BY <2>2, <2>5 DEF Canonical, FolderSettled
  <2>9. ASSUME NEW s \in w.schemes PROVE SchemeSettled(v, s)
    <3>1. SchemeSettled(w, s) /\ s \in Nodes
      BY <1>2, Constants DEF Canonical
    <3> QED BY <2>2, <2>3, <2>7, <3>1 DEF SchemeSettled
  <2>10. \A m \in Nodes : m \notin Has(w) => v.kid[m] = Nil
    BY <1>3, <2>2 DEF Canonical, Has
  <2>11. \A g \in Folders : g \notin w.folders => v.up[g] = Nil /\ v.name[g] = 0
    BY <2>2 DEF Canonical
  <2> QED BY <2>4, <2>6, <2>8, <2>9, <2>10, <2>11, SteadyIntro DEF v
<1> QED BY <1>4, <1>5

\* reconcile_archive_membership, after the folder is somewhere else.
LEMMA MovedSteady ==
  ASSUME NEW w, Canonical(w), NEW n \in Nodes, NEW p \in w.folders, CanMove(w, n, p),
         n \notin w.trash
  PROVE  Steady(w, Moved(w, n, p))
<1>1. w \in Workspaces /\ n \in Has(w)
  BY DEF Canonical, CanMove
<1>2. /\ w.folders \subseteq Dirs /\ w.schemes \subseteq Schemes /\ w.trash \subseteq Nodes
      /\ w.kid \in [Nodes -> Dirs \cup {Nil}] /\ w.up \in [Folders -> Dirs \cup {Nil}]
      /\ w.name \in [Folders -> Int] /\ w.origin \in [Nodes -> Dirs \cup {Nil, Gone}]
  BY <1>1, WorkspaceFields
<1>3. CASE n \in Schemes
  <2> DEFINE v == [w EXCEPT !.kid[n] = p]
  <2>1. /\ v.folders = w.folders /\ v.schemes = w.schemes /\ v.up = w.up /\ v.name = w.name
        /\ v.trash = w.trash /\ v.origin = w.origin
        /\ v.kid = [w.kid EXCEPT ![n] = p]
        /\ v = [folders |-> v.folders, schemes |-> v.schemes, kid |-> v.kid, up |-> v.up,
                name |-> v.name, trash |-> v.trash, origin |-> v.origin]
    BY <1>1 DEF Workspaces
  <2>2. Moved(w, n, p) = v
    BY <1>3 DEF Moved
  <2> HIDE DEF v
  <2>3. v \in Workspaces
    <3>1. v.kid \in [Nodes -> Dirs \cup {Nil}]
      BY <1>2, <2>1
    <3> QED BY <1>2, <2>1, <3>1 DEF Workspaces
  <2>4. (\A m \in Nodes : m # n => v.kid[m] = w.kid[m]) /\ v.kid[n] = p
    BY <1>2, <2>1
  <2>5. \A f \in Folders : f # n /\ f \in Nodes
    BY <1>3, Constants
  <2>6. Archived(v) = Archived(w)
    BY <2>1, <2>4, <2>5, ArchivedSame
  <2>7. SameNodes(w, v)
    BY <2>1 DEF SameNodes
  <2>8. \A f \in Folders \cap w.folders : FolderSettled(v, f)
    BY <2>1, <2>4, <2>5 DEF Canonical, FolderSettled
  <2>9. ASSUME NEW s \in w.schemes PROVE SchemeSettled(v, s)
    <3>1. SchemeSettled(w, s) /\ s \in Nodes
      BY <1>2, Constants DEF Canonical
    <3> QED BY <2>1, <2>4, <2>6, <3>1 DEF SchemeSettled
  <2>10. \A m \in Nodes : m \notin Has(w) => v.kid[m] = Nil
    BY <1>1, <2>4 DEF Canonical
  <2>11. \A f \in Folders : f \notin w.folders => v.up[f] = Nil /\ v.name[f] = 0
    BY <2>1 DEF Canonical
  <2> QED BY <2>2, <2>3, <2>7, <2>8, <2>9, <2>10, <2>11, SteadyIntro
<1>4. CASE n \notin Schemes
  <2> DEFINE u == [w EXCEPT !.kid[n] = p, !.up[n] = p]
             binned == Archived(u)
             inside == {s \in w.schemes : w.kid[s] \in binned}
             outside == {s \in w.schemes : w.kid[s] # Nil} \ inside
             v == Moved(w, n, p)
  <2>1. n \in Folders /\ n \in w.folders
    BY <1>1, <1>2, <1>4, Constants DEF Has
  <2>2. /\ u.folders = w.folders /\ u.schemes = w.schemes /\ u.name = w.name
        /\ u.trash = w.trash /\ u.origin = w.origin
        /\ u.kid = [w.kid EXCEPT ![n] = p] /\ u.up = [w.up EXCEPT ![n] = p]
        /\ u = [folders |-> u.folders, schemes |-> u.schemes, kid |-> u.kid, up |-> u.up,
                name |-> u.name, trash |-> u.trash, origin |-> u.origin]
    <3>1. u = [w EXCEPT !.kid = [w.kid EXCEPT ![n] = p], !.up = [w.up EXCEPT ![n] = p]]
      OBVIOUS
    <3> HIDE DEF u
    <3> QED BY <1>1, <3>1 DEF Workspaces
  <2>3. \A s \in w.schemes : u.kid[s] = w.kid[s] /\ s \in Nodes /\ s \in Schemes
    BY <1>2, <1>4, <2>2, Constants
  <2>4. v = Reconciled(u)
    BY <1>4 DEF Moved
  <2>5. /\ inside = {s \in u.schemes : u.kid[s] \in binned}
        /\ outside = {s \in u.schemes : u.kid[s] # Nil} \ inside
    BY <2>2, <2>3
  <2> HIDE DEF u, binned, v
  <2>6. v = [u EXCEPT !.trash = (u.trash \cup inside) \ outside,
                      !.origin = [m \in Nodes |-> IF m \in outside THEN Nil ELSE u.origin[m]]]
    BY <2>4, <2>5 DEF Reconciled, binned
  <2> HIDE DEF inside, outside
  <2>7. /\ v.folders = w.folders /\ v.schemes = w.schemes /\ v.name = w.name
        /\ v.kid = [w.kid EXCEPT ![n] = p] /\ v.up = [w.up EXCEPT ![n] = p]
        /\ v.trash = (w.trash \cup inside) \ outside
        /\ v.origin = [m \in Nodes |-> IF m \in outside THEN Nil ELSE w.origin[m]]
        /\ v = [folders |-> v.folders, schemes |-> v.schemes, kid |-> v.kid, up |-> v.up,
                name |-> v.name, trash |-> v.trash, origin |-> v.origin]
    BY <2>2, <2>6
  <2>8. inside \subseteq w.schemes /\ outside \subseteq w.schemes
    BY DEF inside, outside
  <2>9. v \in Workspaces
    <3>1. v.kid \in [Nodes -> Dirs \cup {Nil}] /\ v.origin \in [Nodes -> Dirs \cup {Nil, Gone}]
      BY <1>2, <2>7
    <3>2. v.up \in [Folders -> Dirs \cup {Nil}]
      BY <1>2, <2>1, <2>7
    <3>3. v.trash \subseteq Nodes
      BY <1>2, <2>7, <2>8, Constants
    <3> QED BY <1>2, <2>7, <3>1, <3>2, <3>3 DEF Workspaces
  <2>10. /\ \A m \in Nodes : m # n => v.kid[m] = w.kid[m]
         /\ v.kid[n] = p /\ v.up[n] = p
         /\ \A f \in Folders : f # n => v.up[f] = w.up[f]
    BY <1>2, <2>1, <2>7
  <2>11. \A f \in Folders : f \in Nodes /\ f \notin inside /\ f \notin outside
    BY <1>2, <2>8, Constants
  <2>12. SameNodes(w, v)
    <3>1. \A m \in Nodes : v.origin[m] = IF m \in outside THEN Nil ELSE w.origin[m]
      BY <2>7
    <3>2. \A m \in outside : m \in Has(w) /\ m \in Nodes
      BY <1>2, <2>8, Constants DEF Has
    <3>3. \A m \in outside : w.origin[m] # Gone
      BY <3>2 DEF Canonical
    <3>4. v.trash \subseteq w.trash \cup Has(w)
      BY <2>7, <2>8 DEF Has
    <3> QED BY <2>7, <3>1, <3>2, <3>3, <3>4, Constants DEF SameNodes
  <2>13. Archived(v) = binned
    <3>1. v.trash \cap w.folders = u.trash \cap w.folders
      <4>1. \A f \in w.folders : f \notin inside /\ f \notin outside
        BY <1>2, <2>8, <2>11, Constants
      <4> QED BY <2>2, <2>7, <4>1
    <3>2. \A f \in Folders \cap w.folders : v.kid[f] = u.kid[f]
      BY <2>2, <2>7
    <3> QED BY <2>2, <2>7, <3>1, <3>2, ArchivedSame DEF binned
  <2>14. binned \subseteq w.folders /\ Nil \notin binned
    BY <1>2, <2>2, ArchivedFolders DEF binned
  <2>15. ASSUME NEW f \in Folders \cap w.folders PROVE FolderSettled(v, f)
    <3>1. FolderSettled(w, f)
      BY DEF Canonical
    <3>2. f \in v.trash <=> f \in w.trash
      BY <2>7, <2>11
    <3> QED BY <2>7, <2>10, <2>11, <3>1, <3>2 DEF FolderSettled
  <2>16. ASSUME NEW s \in w.schemes PROVE SchemeSettled(v, s)
    <3>1. SchemeSettled(w, s) /\ s \in Nodes /\ s # n /\ v.kid[s] = w.kid[s]
      BY <1>4, <2>3, <2>10 DEF Canonical
    <3>2. CASE w.kid[s] = Nil
      <4>1. s \notin inside /\ s \notin outside
        BY <2>14, <3>2 DEF inside, outside
      <4>2. s \in w.trash
        BY <1>2, <3>1, <3>2, Constants DEF SchemeSettled
      <4> QED BY <2>7, <3>1, <3>2, <4>1, <4>2 DEF SchemeSettled
    <3>3. CASE w.kid[s] \in binned
      <4>1. s \in inside /\ s \notin outside
        BY <3>3 DEF inside, outside
      <4> QED BY <2>7, <2>13, <3>1, <3>3, <4>1 DEF SchemeSettled
    <3>4. CASE w.kid[s] # Nil /\ w.kid[s] \notin binned
      <4>1. s \in outside
        BY <3>4 DEF inside, outside
      <4>2. w.kid[s] \in w.folders
        <5>1. Archived(w) \subseteq w.folders
          BY <1>2, ArchivedFolders
        <5> QED BY <3>1, <3>4, <5>1 DEF SchemeSettled
      <4> QED BY <2>7, <3>1, <4>1, <4>2 DEF SchemeSettled
    <3> QED BY <3>2, <3>3, <3>4
  <2>17. \A m \in Nodes : m \notin Has(w) => v.kid[m] = Nil
    BY <1>1, <2>10 DEF Canonical
  <2>18. \A f \in Folders : f \notin w.folders => v.up[f] = Nil /\ v.name[f] = 0
    BY <2>1, <2>7, <2>10 DEF Canonical
  <2> QED BY <2>9, <2>12, <2>15, <2>16, <2>17, <2>18, SteadyIntro DEF v
<1> QED BY <1>3, <1>4

\* reassert_local_folder_edits, of one folder.
LEMMA RebinnedSteady ==
  ASSUME NEW w, Canonical(w), NEW was, NEW f \in Folders \cap w.folders
  PROVE  Steady(w, Rebinned(w, was, f))
<1>1. f \in Nodes /\ f \in Has(w)
  BY Constants DEF Has
<1>2. CASE f \in was.trash
  <2>1. CASE CanArchive(w, f)
    BY <1>1, <1>2, <2>1, ArchiveSteady DEF Rebinned
  <2>2. CASE ~CanArchive(w, f)
    BY <1>2, <2>2, SteadySelf DEF Rebinned
  <2> QED BY <2>1, <2>2
<1>3. CASE f \notin was.trash
  <2> DEFINE p == IF was.up[f] = Nil THEN Root ELSE was.up[f]
  <2>1. Rebinned(w, was, f) = IF CanRestore(w, f, p) THEN Restore(w, f, p) ELSE w
    BY <1>3 DEF Rebinned
  <2> HIDE DEF p
  <2>2. CASE CanRestore(w, f, p)
    <3>1. p \in w.folders
      BY <2>2 DEF CanRestore
    <3>2. Steady(w, Restore(w, f, p))
      BY <1>1, <3>1, RestoreSteady
    <3> QED BY <2>1, <2>2, <3>2
  <2>3. CASE ~CanRestore(w, f, p)
    BY <2>1, <2>3, SteadySelf
  <2> QED BY <2>2, <2>3
<1> QED BY <1>2, <1>3

LEMMA ReassertOneSteady ==
  ASSUME NEW w, Canonical(w), NEW landed, NEW was \in Workspaces, NEW fields,
         NEW f \in Folders \cap w.folders
  PROVE  Steady(w, ReassertOne(w, landed, was, fields, f))
<1> DEFINE differs == <<f, "archived">> \in fields /\ (f \in was.trash) # (f \in landed.trash)
           named1 == IF <<f, "name">> \in fields THEN Renamed(w, was, f) ELSE w
           binned == IF differs THEN Rebinned(named1, was, f) ELSE named1
           final == IF <<f, "archived">> \in fields /\ f \notin was.trash
                    THEN Unbinned(binned, landed, was, f) ELSE binned
<1>1. ReassertOne(w, landed, was, fields, f) = final
  BY DEF ReassertOne
<1>2. Steady(w, named1)
  <2>1. was.name[f] \in Int
    BY WorkspaceFields
  <2>2. Steady(w, Renamed(w, was, f))
    BY <2>1, RenameSteady DEF Renamed
  <2> QED BY <2>2, SteadySelf
<1> HIDE DEF differs, named1
<1>3. Canonical(named1) /\ named1.folders = w.folders
  BY <1>2 DEF Steady, SameNodes
<1>4. Steady(named1, binned)
  <2>1. Steady(named1, Rebinned(named1, was, f))
    BY <1>3, RebinnedSteady
  <2> QED BY <1>3, <2>1, SteadySelf
<1> HIDE DEF binned
<1>5. Canonical(binned)
  BY <1>4 DEF Steady
<1>6. Steady(binned, final)
  <2>1. Steady(binned, Unbinned(binned, landed, was, f))
    BY <1>5, UnbinnedSteady
  <2> QED BY <1>5, <2>1, SteadySelf
<1> HIDE DEF final
<1>7. SameNodes(w, named1) /\ SameNodes(named1, binned)
  BY <1>2, <1>4 DEF Steady
<1>8. Steady(named1, final)
  BY <1>6, <1>7, SteadyTransitive
<1>9. Steady(w, final)
  BY <1>7, <1>8, SteadyTransitive
<1> QED BY <1>1, <1>9

\* The folders one after the other.
LEMMA ReassertedRounds ==
  ASSUME NEW landed, NEW was, NEW fields
  PROVE  LET again == Folders \cap was.folders \cap landed.folders IN
         \E step : /\ step = [i \in 0..Max(Folders) |->
                                IF i \notin again
                                THEN IF i = 0 THEN landed ELSE step[i - 1]
                                ELSE ReassertOne(step[i - 1], landed, was, fields, i)]
                   /\ Reasserted(landed, was, fields) = step[Max(Folders)]
<1> DEFINE again == Folders \cap was.folders \cap landed.folders
           Rounds(n, s) == s = [i \in 0..n |->
                                 IF i \notin again
                                 THEN IF i = 0 THEN landed ELSE s[i - 1]
                                 ELSE ReassertOne(s[i - 1], landed, was, fields, i)]
           S == {n \in Nat : \E s : Rounds(n, s)}
<1>0. 0 \notin again
  BY FolderIds DEF Root
<1> HIDE DEF again
<1>1. 0 \in S
  <2> DEFINE s == [i \in 0..0 |-> landed]
  <2>1. Rounds(0, s)
    BY <1>0
  <2> QED BY <2>1
<1>2. ASSUME NEW n \in Nat, n \in S PROVE n + 1 \in S
  <2>1. PICK s : Rounds(n, s)
    BY <1>2
  <2> DEFINE t == [i \in 0..(n + 1) |->
                     IF i = n + 1
                     THEN IF i \notin again THEN s[n]
                          ELSE ReassertOne(s[n], landed, was, fields, i)
                     ELSE s[i]]
  <2>2. ASSUME NEW i \in 0..(n + 1)
        PROVE  t[i] = IF i \notin again
                      THEN IF i = 0 THEN landed ELSE t[i - 1]
                      ELSE ReassertOne(t[i - 1], landed, was, fields, i)
    <3>1. CASE i = n + 1
      <4>1. t[i - 1] = s[n] /\ i # 0
        BY <3>1
      <4>2. t[i] = IF i \notin again THEN s[n] ELSE ReassertOne(s[n], landed, was, fields, i)
        BY <3>1
      <4> HIDE DEF t
      <4> QED BY <4>1, <4>2
    <3>2. CASE i \in 0..n
      <4>1. t[i] = s[i] /\ (i # 0 => t[i - 1] = s[i - 1])
        BY <3>2
      <4>2. i \in again => i # 0
        BY <1>0
      <4> HIDE DEF t
      <4> QED BY <2>1, <3>2, <4>1, <4>2
    <3> QED BY <3>1, <3>2
  <2>3. Rounds(n + 1, t)
    <3>1. t = [i \in 0..(n + 1) |-> t[i]]
      OBVIOUS
    <3> HIDE DEF t
    <3> QED BY <2>2, <3>1
  <2> HIDE DEF t, Rounds
  <2>4. \E u : Rounds(n + 1, u)
    BY <2>3
  <2> QED BY <2>4
<1> HIDE DEF S
<1>3. Max(Folders) \in S
  BY <1>1, <1>2, SetInduction, FolderIds, MaxFolders
<1> DEFINE step[i \in 0..Max(Folders)] ==
             IF i \notin again
             THEN IF i = 0 THEN landed ELSE step[i - 1]
             ELSE ReassertOne(step[i - 1], landed, was, fields, i)
<1>4. step = [i \in 0..Max(Folders) |->
                IF i \notin again
                THEN IF i = 0 THEN landed ELSE step[i - 1]
                ELSE ReassertOne(step[i - 1], landed, was, fields, i)]
  BY <1>3 DEF S
<1>5. Reasserted(landed, was, fields) = step[Max(Folders)]
  BY DEF Reasserted, again
<1> QED BY <1>4, <1>5 DEF again

LEMMA ReassertedSteady ==
  ASSUME NEW landed, Canonical(landed), NEW was \in Workspaces, NEW fields
  PROVE  Steady(landed, Reasserted(landed, was, fields))
<1> DEFINE again == Folders \cap was.folders \cap landed.folders
           last == Max(Folders)
<1>1. PICK step : /\ step = [i \in 0..last |->
                               IF i \notin again
                               THEN IF i = 0 THEN landed ELSE step[i - 1]
                               ELSE ReassertOne(step[i - 1], landed, was, fields, i)]
                  /\ Reasserted(landed, was, fields) = step[last]
  BY ReassertedRounds
<1>2. last \in Nat /\ 0 \notin again
  BY MaxFolders, FolderIds DEF Root
<1>3. again \subseteq Folders \cap landed.folders
  OBVIOUS
<1> HIDE DEF again, last
<1> DEFINE S == {n \in Nat : n <= last => Steady(landed, step[n])}
<1>4. 0 \in S
  BY <1>1, <1>2, SteadySelf
<1>5. ASSUME NEW n \in Nat, n \in S PROVE n + 1 \in S
  <2> SUFFICES ASSUME n + 1 <= last PROVE Steady(landed, step[n + 1])
    OBVIOUS
  <2>1. Steady(landed, step[n])
    BY <1>2, <1>5
  <2>2. step[n + 1] = IF n + 1 \notin again THEN step[n]
                      ELSE ReassertOne(step[n], landed, was, fields, n + 1)
    BY <1>1, <1>2
  <2>3. CASE n + 1 \notin again
    BY <2>1, <2>2, <2>3
  <2>4. CASE n + 1 \in again
    <3>1. Canonical(step[n]) /\ SameNodes(landed, step[n])
      BY <2>1 DEF Steady
    <3>2. n + 1 \in Folders \cap step[n].folders
      BY <1>3, <2>4, <3>1 DEF SameNodes
    <3>3. Steady(step[n], ReassertOne(step[n], landed, was, fields, n + 1))
      BY <3>1, <3>2, ReassertOneSteady
    <3>4. Steady(landed, ReassertOne(step[n], landed, was, fields, n + 1))
      BY <3>1, <3>3, SteadyTransitive
    <3> QED BY <2>2, <2>4, <3>4
  <2> QED BY <2>3, <2>4
<1> HIDE DEF S
<1>6. Nat \subseteq S
  BY <1>4, <1>5, SetInduction
<1> QED BY <1>1, <1>2, <1>6 DEF S

(***************************************************************************)
(* The repair.                                                             *)
(***************************************************************************)
\* No folder is both within reach of the root and in the trash or below it.
LEMMA VisitedIs ==
  ASSUME NEW w, Canonical(w)
  PROVE  /\ Root \in Visited(w) /\ Visited(w) \subseteq w.folders \ w.trash
         /\ Closed(Visited(w), w.kid, {Root}, w.folders \ w.trash)
         /\ Visited(w) \cap Archived(w) = {}
         /\ Nil \notin Visited(w)
<1>1. /\ w.folders \subseteq Dirs /\ w.trash \subseteq Nodes /\ Root \in w.folders
  BY WorkspaceFields DEF Canonical
<1>2. /\ Closed(Visited(w), w.kid, {Root}, w.folders \ w.trash)
      /\ Visited(w) \subseteq {Root} \cup (Folders \cap (w.folders \ w.trash))
  BY BelowClosed DEF Visited
<1>3. Root \in Visited(w) /\ Visited(w) \subseteq w.folders \ w.trash
  BY <1>1, <1>2, Constants DEF Closed
<1>4. Archived(w) \subseteq Dirs \ Visited(w)
  <2>1. w.trash \cap w.folders \subseteq Dirs \ Visited(w)
    BY <1>1, <1>3
  <2>2. ASSUME NEW f \in Folders \cap w.folders, f \in Visited(w)
        PROVE  w.kid[f] \in Visited(w)
    <3>1. f \notin {Root}
      BY Constants
    <3> QED BY <2>2, <3>1, BelowListed DEF Visited
  <2>3. \A f \in Folders \cap w.folders :
          w.kid[f] \in Dirs \ Visited(w) /\ w.kid[f] \in Archived(w) => f \in Dirs \ Visited(w)
    BY <2>2, Constants
  <2> QED BY <2>1, <2>3, ArchivedLeast
<1> QED BY <1>1, <1>2, <1>3, <1>4, Constants

\* What a walk would mend is mended already in a canonical workspace.
LEMMA WalkSame ==
  ASSUME NEW w, Canonical(w)
  PROVE  Walk(w) = w
<1> DEFINE visited == Visited(w)
<1>1. w \in Workspaces
  BY DEF Canonical
<1>2. /\ w.kid \in [Nodes -> Dirs \cup {Nil}] /\ w.up \in [Folders -> Dirs \cup {Nil}]
      /\ w.folders \subseteq Dirs /\ w.schemes \subseteq Schemes
  BY <1>1, WorkspaceFields
<1>3. /\ visited \subseteq w.folders \ w.trash /\ visited \cap Archived(w) = {} /\ Nil \notin visited
  BY VisitedIs
<1> HIDE DEF visited
<1>4. ASSUME NEW n \in Nodes, w.kid[n] \in visited, n \notin Has(w) \ w.trash PROVE FALSE
  <2>1. n \in Has(w) /\ n \in w.trash
    BY <1>3, <1>4 DEF Canonical
  <2>2. CASE n \in Folders
    <3>1. n \in w.folders
      BY <1>2, <2>1, <2>2, Constants DEF Has
    <3> QED BY <1>3, <1>4, <2>1, <2>2, <3>1 DEF Canonical, FolderSettled
  <2>3. CASE n \notin Folders
    <3>1. n \in w.schemes
      BY <1>2, <2>1, <2>3, Constants DEF Has
    <3>2. SchemeSettled(w, n)
      BY <3>1 DEF Canonical
    <3> QED BY <1>3, <1>4, <2>1, <3>2 DEF SchemeSettled
  <2> QED BY <2>2, <2>3
<1>5. w.kid = [n \in Nodes |-> IF w.kid[n] \in visited /\ n \notin Has(w) \ w.trash
                                THEN Nil ELSE w.kid[n]]
  BY <1>2, <1>4
<1>6. w.up = [f \in Folders |-> IF f \in visited THEN w.kid[f] ELSE w.up[f]]
  <2>1. ASSUME NEW f \in Folders, f \in visited PROVE w.up[f] = w.kid[f]
    <3>1. f \in Folders \cap w.folders /\ f \notin w.trash
      BY <1>3, <2>1
    <3>2. FolderSettled(w, f)
      BY <3>1 DEF Canonical
    <3> QED BY <3>1, <3>2 DEF FolderSettled
  <2> QED BY <1>2, <2>1
<1>7. Walk(w) = [w EXCEPT !.kid = w.kid, !.up = w.up]
  BY <1>5, <1>6 DEF Walk, visited
<1> QED BY <1>1, <1>7 DEF Workspaces

\* Out of reach is exactly what follows its parents without end: out of the trash a
\* folder hangs from one that is out of reach as well.
LEMMA StrandedIs ==
  ASSUME NEW w, Canonical(w)
  PROVE  /\ Stranded(w) = w.folders \ (Visited(w) \cup Archived(w))
         /\ Stranded(w) \subseteq Folders \cap w.folders
         /\ Stranded(w) \cap w.trash = {}
<1> DEFINE lost == w.folders \ (Visited(w) \cup Archived(w))
           ends == (Dirs \cup {Nil}) \ (w.folders \ {Root})
<1>1. w.folders \subseteq Dirs /\ w.trash \subseteq Nodes
  BY WorkspaceFields DEF Canonical
<1>2. /\ Root \in Visited(w) /\ Closed(Visited(w), w.kid, {Root}, w.folders \ w.trash)
  BY VisitedIs
<1>3. Closed(Archived(w), w.kid, w.trash \cap w.folders, w.folders)
  BY <1>1, ArchivedFolders
<1>4. lost \subseteq Folders \cap w.folders /\ Root \notin lost
  BY <1>1, <1>2, Constants
<1>5. lost \cap w.trash = {}
  BY <1>3 DEF Closed
<1>6. ASSUME NEW f \in lost PROVE w.up[f] \in lost
  <2>1. f \in Folders \cap w.folders /\ f \notin w.trash
    BY <1>4, <1>5
  <2>2. w.up[f] = w.kid[f] /\ w.kid[f] \in w.folders
    BY <2>1 DEF Canonical, FolderSettled
  <2>3. w.kid[f] \notin Visited(w)
    BY <1>2, <2>1 DEF Closed
  <2>4. w.kid[f] \notin Archived(w)
    BY <1>3, <2>1 DEF Closed
  <2> QED BY <2>2, <2>3, <2>4
<1>7. ASSUME NEW f \in lost PROVE Cycles(w, f)
  <2> DEFINE T == (Dirs \cup {Nil}) \ lost
  <2>1. Closed(T, w.up, ends, w.folders)
    <3>1. ends \subseteq T
      BY <1>4
    <3>2. \A g \in Folders \cap w.folders : w.up[g] \in T => g \in T
      BY <1>6, Constants
    <3> QED BY <3>1, <3>2 DEF Closed
  <2>2. Below(w.up, ends, w.folders) \subseteq T
    BY <2>1, BelowLeast
  <2> QED BY <2>2 DEF Cycles
<1>8. Stranded(w) = lost
  BY <1>7 DEF Stranded
<1> QED BY <1>4, <1>5, <1>8

\* A round of the repair takes one folder that was out of reach into it, and puts
\* none out of it.
LEMMA RescueOneSteady ==
  ASSUME NEW w, Canonical(w)
  PROVE  /\ Steady(w, RescueOne(w))
         /\ Stranded(RescueOne(w)) \subseteq Stranded(w)
         /\ Stranded(w) # {} => \E f \in Stranded(w) : f \notin Stranded(RescueOne(w))
<1>1. CASE Stranded(w) = {}
  BY <1>1, SteadySelf DEF RescueOne
<1>2. CASE Stranded(w) # {}
  <2> DEFINE m == Min(Stranded(w))
             v == ToRoot(w, m)
  <2>1. Stranded(w) \subseteq Folders \cap w.folders /\ Stranded(w) \cap w.trash = {}
        /\ Stranded(w) = w.folders \ (Visited(w) \cup Archived(w))
    BY StrandedIs
  <2>2. m \in Stranded(w)
    <3>1. Stranded(w) \subseteq Nat
      BY <2>1, FolderIds
    <3>2. \E x \in Stranded(w) : \A y \in Stranded(w) : x <= y
      BY <1>2, <3>1, LeastExists
    <3> QED BY <3>2 DEF Min
  <2> HIDE DEF m
  <2>3. m \in Folders /\ m \in w.folders /\ m \notin w.trash /\ m \notin Archived(w) /\ m \in Nodes
    BY <2>1, <2>2, Constants
  <2>4. w \in Workspaces /\ Root \in w.folders
    BY DEF Canonical
  <2>5. /\ w.folders \subseteq Dirs /\ w.schemes \subseteq Schemes /\ w.trash \subseteq Nodes
        /\ w.kid \in [Nodes -> Dirs \cup {Nil}] /\ w.up \in [Folders -> Dirs \cup {Nil}]
    BY <2>4, WorkspaceFields
  <2>6. /\ v.folders = w.folders /\ v.schemes = w.schemes /\ v.name = w.name
        /\ v.trash = w.trash /\ v.origin = w.origin
        /\ v.kid = [w.kid EXCEPT ![m] = Root] /\ v.up = [w.up EXCEPT ![m] = Root]
        /\ v \in Workspaces
    <3>1. v = [w EXCEPT !.kid = [w.kid EXCEPT ![m] = Root], !.up = [w.up EXCEPT ![m] = Root]]
      BY DEF ToRoot
    <3>2. /\ [w.kid EXCEPT ![m] = Root] \in [Nodes -> Dirs \cup {Nil}]
          /\ [w.up EXCEPT ![m] = Root] \in [Folders -> Dirs \cup {Nil}]
      BY <2>3, <2>5, Constants
    <3> HIDE DEF v
    <3> QED BY <2>4, <3>1, <3>2 DEF Workspaces
  <2> HIDE DEF v
  <2>7. /\ \A n \in Nodes : n # m => v.kid[n] = w.kid[n]
        /\ \A f \in Folders : f # m => v.up[f] = w.up[f]
        /\ v.kid[m] = Root /\ v.up[m] = Root
    BY <2>3, <2>5, <2>6
  <2>8. Archived(w) \subseteq Archived(v)
    <3>1. Closed(Archived(v), v.kid, v.trash \cap v.folders, v.folders)
      BY <2>5, <2>6, ArchivedFolders
    <3>2. Closed(Archived(w), w.kid, w.trash \cap w.folders, w.folders)
      BY <2>5, ArchivedFolders
    <3>3. ASSUME NEW f \in Folders \cap w.folders,
                 w.kid[f] \in Archived(v), w.kid[f] \in Archived(w)
          PROVE  f \in Archived(v)
      <4>1. f # m /\ f \in Nodes
        BY <2>3, <3>2, <3>3, Constants DEF Closed
      <4> QED BY <2>6, <2>7, <3>1, <3>3, <4>1 DEF Closed
    <3>4. w.trash \cap w.folders \subseteq Archived(v)
      BY <2>6, <3>1 DEF Closed
    <3> QED BY <3>3, <3>4, ArchivedLeast
  <2>9. SameNodes(w, v)
    BY <2>6 DEF SameNodes
  <2>10. ASSUME NEW f \in Folders \cap w.folders PROVE FolderSettled(v, f)
    <3>1. FolderSettled(w, f) /\ f \in Nodes
      BY Constants DEF Canonical
    <3> QED BY <2>3, <2>4, <2>6, <2>7, <3>1 DEF FolderSettled
  <2>11. ASSUME NEW s \in w.schemes PROVE SchemeSettled(v, s)
    <3>1. SchemeSettled(w, s) /\ s \in Nodes /\ s # m
      BY <2>3, <2>5, Constants DEF Canonical
    <3> QED BY <2>6, <2>7, <2>8, <3>1 DEF SchemeSettled
  <2>12. \A n \in Nodes : n \notin Has(w) => v.kid[n] = Nil
    BY <2>3, <2>7 DEF Canonical, Has
  <2>13. \A f \in Folders : f \notin w.folders => v.up[f] = Nil /\ v.name[f] = 0
    BY <2>3, <2>6, <2>7 DEF Canonical
  <2>14. Steady(w, v)
    BY <2>6, <2>9, <2>10, <2>11, <2>12, <2>13, SteadyIntro
  <2>15. Canonical(v)
    BY <2>14 DEF Steady
  <2>16. RescueOne(w) = v
    BY <1>2, <2>15, WalkSame DEF RescueOne, v, m
  <2>17. Visited(w) \subseteq Visited(v) /\ m \in Visited(v)
    <3>1. Closed(Visited(v), v.kid, {Root}, w.folders \ w.trash) /\ Root \in Visited(v)
      BY <2>6, <2>15, VisitedIs
    <3>2. Closed(Visited(w), w.kid, {Root}, w.folders \ w.trash) /\ Root \in Visited(w)
      BY VisitedIs
    <3>3. ASSUME NEW f \in Folders \cap (w.folders \ w.trash),
                 w.kid[f] \in Visited(w), w.kid[f] \in Visited(v)
          PROVE  f \in Visited(w) /\ f \in Visited(v)
      <4>1. f \in Visited(w)
        BY <3>2, <3>3 DEF Closed
      <4>2. f # m /\ f \in Nodes
        BY <2>1, <2>2, <4>1, Constants
      <4> QED BY <2>7, <3>1, <3>3, <4>1, <4>2 DEF Closed
    <3>4. Closed(Visited(w) \cap Visited(v), w.kid, {Root}, w.folders \ w.trash)
      BY <3>1, <3>2, <3>3 DEF Closed
    <3>5. Visited(w) \subseteq Visited(w) \cap Visited(v)
      BY <3>4, BelowLeast DEF Visited
    <3>6. m \in Visited(v)
      BY <2>3, <2>7, <3>1 DEF Closed
    <3> QED BY <3>5, <3>6
  <2>18. Stranded(v) = v.folders \ (Visited(v) \cup Archived(v))
    BY <2>15, StrandedIs
  <2>19. Stranded(v) \subseteq Stranded(w) /\ m \notin Stranded(v)
    BY <2>1, <2>6, <2>8, <2>17, <2>18
  <2> QED BY <2>2, <2>14, <2>16, <2>19
<1> QED BY <1>1, <1>2

\* The loop of normalize_one_level_folders: as many rounds as there are folders
\* leave no cycle out of reach, and drop and destroy nothing.
THEOREM RescueSteady ==
  ASSUME NEW w, Canonical(w)
  PROVE  Steady(w, Rescue(w)) /\ Stranded(Rescue(w)) = {}
<1> DEFINE last == Cardinality(Folders)
<1>1. PICK step : /\ step = [i \in 0..last |-> IF i = 0 THEN w ELSE RescueOne(step[i - 1])]
                  /\ Rescue(w) = step[last]
  BY RescueRounds
<1>2. last \in Nat
  BY FolderIds, FS_CardinalityType
<1>3. ASSUME NEW v, Canonical(v)
      PROVE  IsFiniteSet(Stranded(v)) /\ Cardinality(Stranded(v)) \in Nat
             /\ Cardinality(Stranded(v)) <= last
  <2>1. Stranded(v) \in SUBSET Folders
    BY <1>3, StrandedIs
  <2> QED BY <2>1, FolderIds, FS_Subset, FS_CardinalityType
<1> HIDE DEF last
<1> DEFINE P(n) == /\ Steady(w, step[n])
                   /\ Cardinality(Stranded(step[n])) <= last - n
           S == {n \in Nat : n <= last => P(n)}
<1>4. 0 \in S
  <2>1. step[0] = w
    BY <1>1, <1>2
  <2> QED BY <1>2, <1>3, <2>1, SteadySelf
<1>5. ASSUME NEW n \in Nat, n \in S PROVE n + 1 \in S
  <2> SUFFICES ASSUME n + 1 <= last PROVE P(n + 1)
    OBVIOUS
  <2>1. Steady(w, step[n]) /\ Cardinality(Stranded(step[n])) <= last - n
    BY <1>2, <1>5
  <2>2. step[n + 1] = RescueOne(step[n])
    BY <1>1, <1>2
  <2> DEFINE v == step[n]
             u == RescueOne(v)
  <2>3. Canonical(v) /\ SameNodes(w, v)
    BY <2>1 DEF Steady
  <2> HIDE DEF v
  <2>4. /\ Steady(v, u) /\ Stranded(u) \subseteq Stranded(v)
        /\ Stranded(v) # {} => \E f \in Stranded(v) : f \notin Stranded(u)
    BY <2>3, RescueOneSteady
  <2> HIDE DEF u
  <2>5. Steady(w, u)
    BY <2>3, <2>4, SteadyTransitive
  <2>6. Canonical(u)
    BY <2>4 DEF Steady
  <2>7. /\ IsFiniteSet(Stranded(v)) /\ Cardinality(Stranded(v)) \in Nat
        /\ IsFiniteSet(Stranded(u)) /\ Cardinality(Stranded(u)) \in Nat
    BY <1>3, <2>3, <2>6
  <2>8. CASE Stranded(v) = {}
    <3>1. Stranded(u) = {}
      BY <2>4, <2>8
    <3>2. Cardinality(Stranded(u)) = 0
      BY <3>1, FS_EmptySet
    <3> QED BY <1>2, <2>2, <2>5, <3>2 DEF u, v
  <2>9. CASE Stranded(v) # {}
    <3>1. Stranded(u) \in SUBSET Stranded(v) /\ Stranded(u) # Stranded(v)
      BY <2>4, <2>9
    <3>2. Cardinality(Stranded(u)) <= Cardinality(Stranded(v))
          /\ (Cardinality(Stranded(v)) = Cardinality(Stranded(u)) => Stranded(v) = Stranded(u))
      BY <2>7, <3>1, FS_Subset
    <3>3. Cardinality(Stranded(u)) < Cardinality(Stranded(v))
      BY <2>7, <3>1, <3>2
    <3>4. Cardinality(Stranded(v)) <= last - n
      BY <2>1 DEF v
    <3>5. Cardinality(Stranded(u)) <= last - (n + 1)
      BY <1>2, <2>7, <3>3, <3>4
    <3> QED BY <2>2, <2>5, <3>5 DEF u, v
  <2> QED BY <2>8, <2>9
<1> HIDE DEF S, P
<1>6. Nat \subseteq S
  BY <1>4, <1>5, SetInduction
<1>7. P(last)
  BY <1>2, <1>6 DEF S
<1>8. Steady(w, Rescue(w)) /\ Cardinality(Stranded(Rescue(w))) <= 0
  BY <1>1, <1>2, <1>7 DEF P
<1>9. Canonical(Rescue(w))
  BY <1>8 DEF Steady
<1>10. IsFiniteSet(Stranded(Rescue(w))) /\ Cardinality(Stranded(Rescue(w))) = 0
  BY <1>3, <1>8, <1>9
<1> QED BY <1>8, <1>10, FS_EmptySet

\* With no folder out of reach what is kept is all there is, and it is sound.
LEMMA SettleSound ==
  ASSUME NEW w, Canonical(w), Stranded(w) = {}
  PROVE  Steady(w, Settle(w)) /\ Sound(Settle(w))
<1> DEFINE visited == Visited(w)
           binned == Archived(w)
           folders == w.folders \cap (visited \cup binned)
           placed == {s \in w.schemes : w.kid[s] \in visited}
           archived == {s \in w.schemes : w.kid[s] \in binned}
           trash == (w.trash \cap folders) \cup archived \cup ((w.trash \cap w.schemes) \ placed)
           stray == {s \in w.schemes \ (placed \cup trash) : w.origin[s] # Gone}
           held == folders \cup placed \cup trash \cup stray
           kid == [n \in Nodes |-> IF n \in stray THEN Root
                                   ELSE IF n \in held /\ w.kid[n] \in folders THEN w.kid[n]
                                   ELSE Nil]
           origin == [n \in Nodes |->
                       IF n \in trash \/ n \notin Has(w) \/ w.origin[n] = Gone
                       THEN w.origin[n] ELSE Nil]
           v == Settle(w)
<1>1. v = [w EXCEPT !.folders = folders, !.schemes = held \cap Schemes, !.trash = trash,
                    !.kid = kid, !.origin = origin]
  BY DEF Settle
<1>2. w \in Workspaces /\ Root \in w.folders
  BY DEF Canonical
<1>3. /\ w.folders \subseteq Dirs /\ w.schemes \subseteq Schemes /\ w.trash \subseteq Nodes
      /\ w.kid \in [Nodes -> Dirs \cup {Nil}] /\ w.up \in [Folders -> Dirs \cup {Nil}]
      /\ w.name \in [Folders -> Int] /\ w.origin \in [Nodes -> Dirs \cup {Nil, Gone}]
  BY <1>2, WorkspaceFields
<1>4. /\ Root \in visited /\ visited \subseteq w.folders \ w.trash
      /\ visited \cap binned = {} /\ Nil \notin visited
  BY VisitedIs
<1>5. binned \subseteq w.folders /\ Nil \notin binned
  BY <1>3, ArchivedFolders
<1>6. w.folders = visited \cup binned
  BY <1>4, <1>5, StrandedIs
<1>7. \A s \in w.schemes : /\ s \in Nodes /\ s \in Schemes /\ s \notin Dirs
                           /\ SchemeSettled(w, s)
  BY <1>3, Constants DEF Canonical
<1> HIDE DEF visited, binned, v
<1>8. folders = w.folders
  BY <1>6
<1>9. \A s \in w.schemes : s \in trash <=> w.kid[s] \in binned \/ w.kid[s] = Nil
  <2> SUFFICES ASSUME NEW s \in w.schemes
               PROVE  s \in trash <=> w.kid[s] \in binned \/ w.kid[s] = Nil
    OBVIOUS
  <2>1. s \notin w.folders
    BY <1>3, <1>7
  <2>2. IF s \in w.trash THEN w.kid[s] \in binned \cup {Nil} ELSE w.kid[s] \in w.folders
    BY <1>7 DEF SchemeSettled, binned
  <2>3. Nil \notin w.folders
    BY <1>3, Constants
  <2> QED BY <1>4, <1>6, <2>1, <2>2, <2>3
<1>10. \A s \in w.schemes : s \notin trash => w.kid[s] \in visited
  BY <1>6, <1>7, <1>9 DEF SchemeSettled
<1>11. stray = {}
  BY <1>10
<1>12. trash \subseteq Has(w) /\ trash \cap w.folders = w.trash \cap w.folders
  <2>1. archived \cap w.folders = {} /\ ((w.trash \cap w.schemes) \ placed) \cap w.folders = {}
    BY <1>3, <1>7
  <2> QED BY <1>8, <2>1 DEF Has
<1>13. held = Has(w)
  BY <1>8, <1>10, <1>11, <1>12 DEF Has
<1>14. held \cap Schemes = w.schemes
  BY <1>3, <1>13, Constants DEF Has
<1>15. kid = w.kid
  <2>1. ASSUME NEW n \in Nodes PROVE kid[n] = w.kid[n]
    <3>1. CASE n \notin Has(w)
      BY <1>11, <1>13, <3>1 DEF Canonical
    <3>2. CASE n \in w.folders
      <4>1. FolderSettled(w, n)
        BY <1>3, <3>2, Constants DEF Canonical
      <4>2. w.kid[n] \in w.folders \cup {Nil}
        BY <4>1 DEF FolderSettled
      <4> QED BY <1>8, <1>11, <1>13, <3>2, <4>2 DEF Has
    <3>3. CASE n \in w.schemes
      <4>1. w.kid[n] \in w.folders \cup {Nil}
        BY <1>5, <1>7, <3>3 DEF SchemeSettled, binned
      <4> QED BY <1>8, <1>11, <1>13, <3>3, <4>1 DEF Has
    <3> QED BY <3>1, <3>2, <3>3 DEF Has
  <2> QED BY <1>3, <2>1
<1> HIDE DEF kid, held, stray, folders
<1>16. /\ v.folders = w.folders /\ v.schemes = w.schemes /\ v.name = w.name /\ v.up = w.up
       /\ v.kid = w.kid /\ v.trash = trash /\ v.origin = origin
       /\ v = [folders |-> v.folders, schemes |-> v.schemes, kid |-> v.kid, up |-> v.up,
               name |-> v.name, trash |-> v.trash, origin |-> v.origin]
  <2>1. v = [w EXCEPT !.folders = w.folders, !.schemes = w.schemes, !.trash = trash,
                      !.kid = w.kid, !.origin = origin]
    BY <1>1, <1>8, <1>14, <1>15
  <2> HIDE DEF trash, origin
  <2> QED BY <1>2, <2>1 DEF Workspaces
<1>17. SameNodes(w, v)
  <2>1. \A n \in Nodes : origin[n] = IF n \in trash \/ n \notin Has(w) \/ w.origin[n] = Gone
                                     THEN w.origin[n] ELSE Nil
    OBVIOUS
  <2> HIDE DEF trash, origin
  <2> QED BY <1>12, <1>16, <2>1, Constants DEF SameNodes
<1>18. v \in Workspaces
  <2>1. origin \in [Nodes -> Dirs \cup {Nil, Gone}]
    BY <1>3
  <2>2. trash \subseteq Nodes
    BY <1>3, <1>7
  <2> HIDE DEF trash, origin
  <2> QED BY <1>3, <1>16, <2>1, <2>2 DEF Workspaces
<1> HIDE DEF origin
<1>19. Archived(v) = binned
  BY <1>12, <1>16, ArchivedSame DEF binned
<1>20. Visited(v) = visited
  <2>1. w.folders \ trash = w.folders \ w.trash
    BY <1>12
  <2> QED BY <1>16, <2>1 DEF Visited, visited
<1>21. \A f \in w.folders : f \in trash <=> f \in w.trash
  BY <1>12
<1>22. \A s \in w.schemes : IF s \in trash THEN w.kid[s] \in binned \cup {Nil}
                            ELSE w.kid[s] \in visited
  BY <1>9, <1>10
<1> HIDE DEF trash
<1>23. \A f \in Folders \cap w.folders : FolderSettled(v, f)
  BY <1>16, <1>21 DEF Canonical, FolderSettled
<1>24. \A s \in w.schemes : SchemeSettled(v, s)
  BY <1>6, <1>16, <1>19, <1>22 DEF SchemeSettled
<1>25. Steady(w, v)
  <2>1. \A n \in Nodes : n \notin Has(w) => v.kid[n] = Nil
    BY <1>16 DEF Canonical
  <2>2. \A f \in Folders : f \notin w.folders => v.up[f] = Nil /\ v.name[f] = 0
    BY <1>16 DEF Canonical
  <2> QED BY <1>17, <1>18, <1>23, <1>24, <2>1, <2>2, SteadyIntro
<1>26. Sound(v)
  <2>1. Below(v.kid, {Root}, v.folders \ v.trash) = visited
    BY <1>20 DEF Visited
  <2>2. \A f \in (v.folders \cap visited) \ {Root} : v.up[f] = v.kid[f]
    <3> SUFFICES ASSUME NEW f \in visited, f # Root PROVE w.up[f] = w.kid[f]
      BY <1>16
    <3>1. f \in Folders \cap w.folders /\ f \notin w.trash
      BY <1>3, <1>4, Constants
    <3> QED BY <3>1 DEF Canonical, FolderSettled
  <2>3. v.trash \subseteq Has(v)
    BY <1>12, <1>16 DEF Has
  <2> QED BY <1>2, <1>6, <1>16, <1>19, <1>22, <2>1, <2>2, <2>3 DEF Sound
<1> QED BY <1>25, <1>26 DEF v

\* The repair of a canonical workspace: nothing is lost, and it is a sound tree.
LEMMA NormalizeSound ==
  ASSUME NEW w, Canonical(w)
  PROVE  Steady(w, Normalize(w)) /\ Sound(Normalize(w))
<1> DEFINE v == Rescue(w)
<1>1. Normalize(w) = Settle(v)
  BY WalkSame DEF Normalize
<1>2. Steady(w, v) /\ Stranded(v) = {}
  BY RescueSteady
<1> HIDE DEF v
<1>3. Canonical(v) /\ SameNodes(w, v)
  BY <1>2 DEF Steady
<1>4. Steady(v, Settle(v)) /\ Sound(Settle(v))
  BY <1>2, <1>3, SettleSound
<1>5. Steady(w, Settle(v))
  BY <1>3, <1>4, SteadyTransitive
<1> QED BY <1>1, <1>4, <1>5

(***************************************************************************)
(* What follows on what: all that is needed of a workspace for it to be    *)
(* written to the document of another.                                     *)
(***************************************************************************)
Follows(w, v, makes, wrecks) ==
  /\ Canonical(v) /\ Known(v, makes, wrecks)
  /\ Has(w) \cap Nodes \subseteq Has(v) \cup wrecks
  /\ \A n \in Nodes : w.origin[n] = Gone => v.origin[n] = Gone

LEMMA SteadyFollows ==
  ASSUME NEW w, NEW v, Steady(w, v), NEW makes, NEW wrecks, Known(w, makes, wrecks)
  PROVE  Follows(w, v, makes, wrecks) /\ Has(v) = Has(w)
<1>1. Has(v) = Has(w)
  BY DEF Steady, SameNodes, Has
<1>2. Known(v, makes, wrecks)
  BY <1>1 DEF Steady, SameNodes, Known
<1> QED BY <1>1, <1>2 DEF Steady, SameNodes, Follows

\* The document it is written to is sound still, and stands for it.
LEMMA FollowsWritten ==
  ASSUME NEW D, NEW v, NEW c \in Int, NEW makes, NEW wrecks,
         SoundDoc(D, makes, wrecks), Follows(Materialize(D), v, makes, wrecks)
  PROVE  SoundDoc(Write(D, v, c), makes, wrecks) /\ Materialize(Write(D, v, c)) = v
<1>1. \A n \in Nodes : Origin(D, n) = Gone => v.origin[n] = Gone
  BY MaterializeHas DEF Follows
<1> QED BY <1>1, WriteSound, ReadBack DEF Follows

\* create_scheme, create_folder: of what nobody made there is no trace.
LEMMA FreshFollows ==
  ASSUME NEW w, Canonical(w), NEW makes, NEW wrecks, Known(w, makes, wrecks),
         NEW n \in Nodes, n \notin makes, NEW p \in w.folders
  PROVE  Follows(w, Fresh(w, n, p), makes \cup {n}, wrecks)
<1> DEFINE v == Fresh(w, n, p)
           new == makes \cup {n}
<1>1. w \in Workspaces
  BY DEF Canonical
<1>2. /\ w.folders \subseteq Dirs /\ w.schemes \subseteq Schemes /\ w.trash \subseteq Nodes
      /\ w.kid \in [Nodes -> Dirs \cup {Nil}] /\ w.up \in [Folders -> Dirs \cup {Nil}]
      /\ w.name \in [Folders -> Int] /\ w.origin \in [Nodes -> Dirs \cup {Nil, Gone}]
  BY <1>1, WorkspaceFields
<1>3. n \notin Has(w) /\ n \notin w.trash /\ w.origin[n] = Nil
  BY DEF Known
<1>4. n \notin Schemes => n \in Folders
  BY Constants
<1>5. /\ v.folders = IF n \in Schemes THEN w.folders ELSE w.folders \cup {n}
      /\ v.schemes = IF n \in Schemes THEN w.schemes \cup {n} ELSE w.schemes
      /\ v.up = IF n \in Schemes THEN w.up ELSE [w.up EXCEPT ![n] = p]
      /\ v.kid = [w.kid EXCEPT ![n] = p]
      /\ v.name = w.name /\ v.trash = w.trash /\ v.origin = w.origin
      /\ v = [folders |-> v.folders, schemes |-> v.schemes, kid |-> v.kid, up |-> v.up,
              name |-> v.name, trash |-> v.trash, origin |-> v.origin]
  <2>1. CASE n \in Schemes
    <3>1. v = [w EXCEPT !.kid = [w.kid EXCEPT ![n] = p], !.schemes = w.schemes \cup {n}]
      BY <2>1 DEF Fresh
    <3> HIDE DEF v
    <3> QED BY <1>1, <2>1, <3>1 DEF Workspaces
  <2>2. CASE n \notin Schemes
    <3>1. v = [w EXCEPT !.kid = [w.kid EXCEPT ![n] = p], !.folders = w.folders \cup {n},
                        !.up = [w.up EXCEPT ![n] = p]]
      BY <2>2 DEF Fresh
    <3> HIDE DEF v
    <3> QED BY <1>1, <2>2, <3>1 DEF Workspaces
  <2> QED BY <2>1, <2>2
<1> HIDE DEF v
<1>6. v \in Workspaces
  <2>1. v.kid \in [Nodes -> Dirs \cup {Nil}]
    BY <1>2, <1>5
  <2>2. v.up \in [Folders -> Dirs \cup {Nil}]
    BY <1>2, <1>4, <1>5
  <2>3. v.folders \subseteq Dirs /\ v.schemes \subseteq Schemes
    BY <1>2, <1>4, <1>5, Constants
  <2> QED BY <1>2, <1>5, <2>1, <2>2, <2>3 DEF Workspaces
<1>7. (\A m \in Nodes : m # n => v.kid[m] = w.kid[m]) /\ v.kid[n] = p
  BY <1>2, <1>5
<1>8. \A f \in Folders : v.up[f] = IF f = n THEN p ELSE w.up[f]
  BY <1>2, <1>4, <1>5, Constants
<1>9. Has(v) = Has(w) \cup {n} /\ w.folders \subseteq v.folders /\ v.folders \subseteq w.folders \cup {n}
      /\ w.schemes \subseteq v.schemes /\ v.schemes \subseteq w.schemes \cup {n}
  BY <1>5 DEF Has
<1>10. n \notin w.folders /\ n \notin w.schemes
  BY <1>3 DEF Has
<1>11. Archived(w) \subseteq Archived(v)
  <2>1. Closed(Archived(v), v.kid, v.trash \cap v.folders, v.folders)
    BY <1>6, WorkspaceFields, ArchivedFolders
  <2>2. \A f \in Folders \cap w.folders : w.kid[f] \in Archived(v) => f \in Archived(v)
    BY <1>7, <1>9, <1>10, <2>1, Constants DEF Closed
  <2>3. w.trash \cap w.folders \subseteq Archived(v)
    BY <1>5, <1>9, <2>1 DEF Closed
  <2> QED BY <2>2, <2>3, ArchivedLeast
<1>12. ASSUME NEW f \in Folders \cap v.folders PROVE FolderSettled(v, f)
  <2>1. CASE f = n
    BY <1>3, <1>5, <1>7, <1>8, <1>9, <2>1 DEF FolderSettled
  <2>2. CASE f # n
    <3>1. FolderSettled(w, f) /\ f \in Nodes
      BY <1>9, <2>2, Constants DEF Canonical
    <3> QED BY <1>5, <1>7, <1>8, <1>9, <2>2, <3>1 DEF FolderSettled
  <2> QED BY <2>1, <2>2
<1>13. ASSUME NEW s \in v.schemes PROVE SchemeSettled(v, s)
  <2>1. CASE s = n
    BY <1>3, <1>5, <1>7, <1>9, <2>1 DEF SchemeSettled
  <2>2. CASE s # n
    <3>1. SchemeSettled(w, s) /\ s \in Nodes
      BY <1>2, <1>9, <2>2, Constants DEF Canonical
    <3> QED BY <1>5, <1>7, <1>9, <1>11, <2>2, <3>1 DEF SchemeSettled
  <2> QED BY <2>1, <2>2
<1>14. \A m \in Nodes : m \notin Has(v) => v.kid[m] = Nil
  BY <1>7, <1>9 DEF Canonical
<1>15. \A f \in Folders : f \notin v.folders => v.up[f] = Nil /\ v.name[f] = 0
  <2>1. \A f \in Folders : f \notin v.folders => f # n /\ f \notin w.folders
    BY <1>5, <1>9, Constants
  <2> QED BY <1>5, <1>8, <2>1 DEF Canonical
<1>16. \A m \in Nodes : m \in Has(v) \cup v.trash => v.origin[m] # Gone
  BY <1>3, <1>5, <1>9, Constants DEF Canonical
<1>17. Canonical(v)
  BY <1>6, <1>9, <1>12, <1>13, <1>14, <1>15, <1>16 DEF Canonical
<1>18. Known(v, new, wrecks)
  BY <1>5, <1>9 DEF Known
<1> QED BY <1>5, <1>9, <1>17, <1>18 DEF Follows, v

\* permanently_delete_folder: what is below what it takes is taken too.
LEMMA DoomedIs ==
  ASSUME NEW w \in Workspaces, NEW n \in Nodes, n \in Has(w)
  PROVE  /\ n \in Doomed(w, n) /\ Doomed(w, n) \subseteq Has(w) \cap Nodes
         /\ \A m \in Nodes : m \in Has(w) /\ w.kid[m] \in Doomed(w, n) => m \in Doomed(w, n)
<1> DEFINE F == FoldersIn(w, n)
           S == SchemesIn(w, n)
<1>1. /\ w.folders \subseteq Dirs /\ w.schemes \subseteq Schemes
      /\ w.kid \in [Nodes -> Dirs \cup {Nil}]
  BY WorkspaceFields
<1>2. (Dirs \cup {Nil}) \cap Schemes = {}
  BY FolderIds DEF Dirs, Root, Nil
<1>3. CASE n \notin Folders
  <2>1. Doomed(w, n) = {n} /\ n \in Schemes
    BY <1>3, Constants DEF Doomed
  <2> QED BY <1>1, <1>2, <2>1
<1>4. CASE n \in Folders
  <2>1. Doomed(w, n) = {n} \cup F \cup S
    BY <1>4 DEF Doomed
  <2>2. Closed(F, w.kid, {n}, w.folders) /\ F \subseteq {n} \cup (Folders \cap w.folders)
    BY BelowClosed DEF FoldersIn
  <2>3. S = {s \in w.schemes : w.kid[s] \in F}
    BY DEF SchemesIn
  <2> HIDE DEF F, S
  <2>4. Doomed(w, n) \subseteq Has(w) \cap Nodes
    BY <1>1, <2>1, <2>2, <2>3, Constants DEF Has
  <2>5. ASSUME NEW m \in Nodes, m \in Has(w), w.kid[m] \in Doomed(w, n)
        PROVE  m \in F \cup S
    <3>1. w.kid[m] \in F
      BY <1>1, <1>2, <2>1, <2>2, <2>3, <2>5 DEF Closed
    <3>2. CASE m \in Folders
      BY <1>1, <1>2, <2>2, <2>5, <3>1, <3>2, Constants DEF Closed, Has
    <3>3. CASE m \notin Folders
      BY <1>1, <2>3, <2>5, <3>1, <3>3, Constants DEF Has
    <3> QED BY <3>2, <3>3
  <2> QED BY <2>1, <2>4, <2>5
<1> QED BY <1>3, <1>4

\* permanently_delete_scheme, permanently_delete_folder: what stays is settled
\* without what goes.
LEMMA DestroyedFollows ==
  ASSUME NEW w, Canonical(w), NEW makes, NEW wrecks, Known(w, makes, wrecks),
         NEW n \in Nodes, n \in Has(w)
  PROVE  /\ Follows(w, Destroyed(w, n), makes, wrecks \cup Doomed(w, n))
         /\ Doomed(w, n) \subseteq makes
<1> DEFINE v == Destroyed(w, n)
           doomed == Doomed(w, n)
<1>1. w \in Workspaces
  BY DEF Canonical
<1>2. /\ w.folders \subseteq Dirs /\ w.schemes \subseteq Schemes /\ w.trash \subseteq Nodes
      /\ w.kid \in [Nodes -> Dirs \cup {Nil}] /\ w.up \in [Folders -> Dirs \cup {Nil}]
      /\ w.name \in [Folders -> Int] /\ w.origin \in [Nodes -> Dirs \cup {Nil, Gone}]
  BY <1>1, WorkspaceFields
<1>3. /\ n \in doomed /\ doomed \subseteq Has(w) \cap Nodes
      /\ \A m \in Nodes : m \in Has(w) /\ w.kid[m] \in doomed => m \in doomed
  BY <1>1, DoomedIs
<1>4. v = [folders |-> w.folders \ doomed, schemes |-> w.schemes \ doomed,
           kid |-> [m \in Nodes |-> IF m \in doomed THEN Nil ELSE w.kid[m]],
           up |-> [f \in Folders |-> IF f \in doomed THEN Nil ELSE w.up[f]],
           name |-> [f \in Folders |-> IF f \in doomed THEN 0 ELSE w.name[f]],
           trash |-> w.trash \ doomed,
           origin |-> [m \in Nodes |-> IF m \in doomed THEN Gone ELSE w.origin[m]]]
  <2> DEFINE kid == [m \in Nodes |-> IF m \in doomed THEN Nil ELSE w.kid[m]]
             up == [f \in Folders |-> IF f \in doomed THEN Nil ELSE w.up[f]]
             name == [f \in Folders |-> IF f \in doomed THEN 0 ELSE w.name[f]]
             origin == [m \in Nodes |-> IF m \in doomed THEN Gone ELSE w.origin[m]]
  <2>1. v = [w EXCEPT !.folders = w.folders \ doomed, !.schemes = w.schemes \ doomed,
                      !.trash = w.trash \ doomed, !.kid = kid, !.up = up, !.name = name,
                      !.origin = origin]
    BY DEF Destroyed
  <2> HIDE DEF v, doomed, kid, up, name, origin
  <2>2. v = [folders |-> w.folders \ doomed, schemes |-> w.schemes \ doomed, kid |-> kid,
             up |-> up, name |-> name, trash |-> w.trash \ doomed, origin |-> origin]
    BY <1>1, <2>1 DEF Workspaces
  <2> QED BY <2>2 DEF kid, up, name, origin
<1> HIDE DEF v, doomed
<1>5. /\ v.folders = w.folders \ doomed /\ v.schemes = w.schemes \ doomed
      /\ v.trash = w.trash \ doomed
      /\ \A m \in Nodes : v.kid[m] = IF m \in doomed THEN Nil ELSE w.kid[m]
      /\ \A f \in Folders : v.up[f] = IF f \in doomed THEN Nil ELSE w.up[f]
      /\ \A f \in Folders : v.name[f] = IF f \in doomed THEN 0 ELSE w.name[f]
      /\ \A m \in Nodes : v.origin[m] = IF m \in doomed THEN Gone ELSE w.origin[m]
  BY <1>4
<1>6. v \in Workspaces
  <2>1. [m \in Nodes |-> IF m \in doomed THEN Nil ELSE w.kid[m]] \in [Nodes -> Dirs \cup {Nil}]
    BY <1>2
  <2>2. [f \in Folders |-> IF f \in doomed THEN Nil ELSE w.up[f]] \in [Folders -> Dirs \cup {Nil}]
    BY <1>2
  <2>3. [f \in Folders |-> IF f \in doomed THEN 0 ELSE w.name[f]] \in [Folders -> Int]
    BY <1>2
  <2>4. [m \in Nodes |-> IF m \in doomed THEN Gone ELSE w.origin[m]]
          \in [Nodes -> Dirs \cup {Nil, Gone}]
    BY <1>2
  <2> QED BY <1>2, <1>4, <2>1, <2>2, <2>3, <2>4 DEF Workspaces
<1>7. Has(v) = Has(w) \ doomed
  BY <1>5 DEF Has
<1>8. Root \in v.folders
  BY <1>3, <1>5, Constants DEF Canonical
<1>9. Archived(w) \subseteq doomed \cup Archived(v)
  <2>1. Closed(Archived(v), v.kid, v.trash \cap v.folders, v.folders)
    BY <1>6, WorkspaceFields, ArchivedFolders
  <2>2. w.trash \cap w.folders \subseteq doomed \cup Archived(v)
    BY <1>5, <2>1 DEF Closed
  <2>3. ASSUME NEW f \in Folders \cap w.folders, w.kid[f] \in doomed \cup Archived(v)
        PROVE  f \in doomed \cup Archived(v)
    <3>1. f \in Nodes /\ f \in Has(w)
      BY <2>3, Constants DEF Has
    <3> QED BY <1>3, <1>5, <2>1, <2>3, <3>1 DEF Closed
  <2> QED BY <2>2, <2>3, ArchivedLeast
<1>10. ASSUME NEW f \in Folders \cap v.folders PROVE FolderSettled(v, f)
  <2>1. f \in w.folders /\ f \notin doomed /\ f \in Nodes /\ f \in Has(w) /\ FolderSettled(w, f)
    BY <1>5, Constants DEF Canonical, Has
  <2>2. w.kid[f] \notin doomed
    BY <1>3, <2>1
  <2> QED BY <1>5, <2>1, <2>2 DEF FolderSettled
<1>11. ASSUME NEW s \in v.schemes PROVE SchemeSettled(v, s)
  <2>1. s \in w.schemes /\ s \notin doomed /\ s \in Nodes /\ s \in Has(w) /\ SchemeSettled(w, s)
    BY <1>2, <1>5, Constants DEF Canonical, Has
  <2>2. w.kid[s] \notin doomed
    BY <1>3, <2>1
  <2> QED BY <1>5, <1>9, <2>1, <2>2 DEF SchemeSettled
<1>12. \A m \in Nodes : m \in Has(v) \cup v.trash => v.origin[m] # Gone
  BY <1>5, <1>7 DEF Canonical
<1>13. \A m \in Nodes : m \notin Has(v) => v.kid[m] = Nil
  BY <1>5, <1>7 DEF Canonical
<1>14. \A f \in Folders : f \notin v.folders => v.up[f] = Nil /\ v.name[f] = 0
  BY <1>5 DEF Canonical
<1>15. Canonical(v)
  BY <1>6, <1>8, <1>10, <1>11, <1>12, <1>13, <1>14 DEF Canonical
<1>16. doomed \subseteq makes
  BY <1>3 DEF Known
<1>17. Known(v, makes, wrecks \cup doomed)
  BY <1>5, <1>7, <1>16 DEF Known
<1> QED BY <1>5, <1>7, <1>15, <1>16, <1>17 DEF Follows, v, doomed

(***************************************************************************)
(* The invariant. A run's result stands for what it would land, and lacks  *)
(* nothing the device shows unless the user went on editing, in which case *)
(* it is merged and not adopted.                                           *)
(***************************************************************************)
RunOK(r, w, makes, wrecks) ==
  /\ SoundDoc(r.doc, makes, wrecks)
  /\ r.on => /\ r.ws = Materialize(r.doc) /\ Sound(r.ws)
             /\ ~r.stale => Has(w) \cap Nodes \subseteq Has(r.ws) \cup wrecks

DeviceOK(D, w, r, makes, wrecks) ==
  SoundDoc(D, makes, wrecks) /\ w = Materialize(D) /\ RunOK(r, w, makes, wrecks)

Inv ==
  /\ TypeOK
  /\ SoundDoc(server, made, wrecked)
  /\ \A d \in Devices : DeviceOK(docs[d], ws[d], run[d], made, wrecked)

\* What a step may not take from the screen of any device.
Kept == \A d \in Devices : Has(ws[d]) \cap Nodes \subseteq Has(ws'[d]) \cup wrecked'

LEMMA InvDevice ==
  ASSUME Inv, NEW d \in Devices
  PROVE  /\ SoundDoc(docs[d], made, wrecked) /\ ws[d] = Materialize(docs[d])
         /\ RunOK(run[d], ws[d], made, wrecked) /\ run[d] \in Runs
         /\ Canonical(ws[d]) /\ Known(ws[d], made, wrecked)
<1>1. /\ SoundDoc(docs[d], made, wrecked) /\ ws[d] = Materialize(docs[d])
      /\ RunOK(run[d], ws[d], made, wrecked)
  BY DEF Inv, DeviceOK
<1>2. run[d] \in Runs
  BY DEF Inv, TypeOK
<1> QED BY <1>1, <1>2, SoundDocTyped, MaterializeCanonical, MaterializeKnown

LEMMA DeviceGrows ==
  ASSUME NEW D, NEW w, NEW r, NEW makes, NEW wrecks, DeviceOK(D, w, r, makes, wrecks),
         NEW makes2, NEW wrecks2, makes \subseteq makes2, wrecks \subseteq wrecks2
  PROVE  DeviceOK(D, w, r, makes2, wrecks2)
<1>1. SoundDoc(D, makes2, wrecks2) /\ SoundDoc(r.doc, makes2, wrecks2)
  BY SoundDocGrows DEF DeviceOK, RunOK
<1> QED BY <1>1 DEF DeviceOK, RunOK

\* What every step does: one device's document, workspace, run and edits, and the
\* server's document, become such as they should be.
Turns(d, D, w, r, e) ==
  /\ docs' = [docs EXCEPT ![d] = D] /\ ws' = [ws EXCEPT ![d] = w]
  /\ run' = [run EXCEPT ![d] = r] /\ edits' = [edits EXCEPT ![d] = e]
  /\ DeviceOK(D, w, r, made', wrecked') /\ r \in Runs /\ e \subseteq FolderFields
  /\ SoundDoc(server', made', wrecked')
  /\ made \subseteq made' /\ wrecked \subseteq wrecked'
  /\ made' \subseteq Nodes /\ wrecked' \subseteq made' /\ named' \subseteq Folders
  /\ acts' \in [Devices -> Nat]
  /\ Has(ws[d]) \cap Nodes \subseteq Has(w) \cup wrecked'

LEMMA Turned ==
  ASSUME Inv, NEW d \in Devices, NEW D, NEW w, NEW r, NEW e, Turns(d, D, w, r, e)
  PROVE  Inv' /\ Kept
<1>1. /\ docs \in [Devices -> Registers] /\ ws \in [Devices -> Workspaces]
      /\ run \in [Devices -> Runs] /\ edits \in [Devices -> SUBSET FolderFields]
  BY DEF Inv, TypeOK
<1>2. /\ docs' = [docs EXCEPT ![d] = D] /\ ws' = [ws EXCEPT ![d] = w]
      /\ run' = [run EXCEPT ![d] = r] /\ edits' = [edits EXCEPT ![d] = e]
      /\ DeviceOK(D, w, r, made', wrecked') /\ r \in Runs /\ e \subseteq FolderFields
      /\ SoundDoc(server', made', wrecked')
      /\ made \subseteq made' /\ wrecked \subseteq wrecked'
      /\ made' \subseteq Nodes /\ wrecked' \subseteq made' /\ named' \subseteq Folders
      /\ acts' \in [Devices -> Nat]
      /\ Has(ws[d]) \cap Nodes \subseteq Has(w) \cup wrecked'
  BY DEF Turns
<1>3. /\ docs'[d] = D /\ ws'[d] = w /\ run'[d] = r
      /\ \A x \in Devices : x # d => docs'[x] = docs[x] /\ ws'[x] = ws[x] /\ run'[x] = run[x]
  BY <1>1, <1>2
<1>4. D \in Registers /\ Canonical(w)
  BY <1>2, SoundDocTyped, MaterializeCanonical DEF DeviceOK, SoundDoc
<1>5. server' \in Registers /\ w \in Workspaces
  BY <1>2, <1>4 DEF SoundDoc, Canonical
<1>6. TypeOK'
  BY <1>1, <1>2, <1>4, <1>5 DEF TypeOK
<1>7. ASSUME NEW x \in Devices PROVE DeviceOK(docs'[x], ws'[x], run'[x], made', wrecked')
  <2>1. CASE x = d
    BY <1>2, <1>3, <2>1
  <2>2. CASE x # d
    <3>1. DeviceOK(docs[x], ws[x], run[x], made, wrecked)
      BY DEF Inv
    <3>2. DeviceOK(docs[x], ws[x], run[x], made', wrecked')
      BY <1>2, <3>1, DeviceGrows
    <3> QED BY <1>3, <2>2, <3>2
  <2> QED BY <2>1, <2>2
<1>8. Inv'
  BY <1>2, <1>6, <1>7 DEF Inv
<1>9. Kept
  BY <1>2, <1>3 DEF Kept
<1> QED BY <1>8, <1>9

\* No run is a run.
LEMMA NoRunOK ==
  ASSUME NEW w, NEW makes, NEW wrecks
  PROVE  NoRun \in Runs /\ RunOK(NoRun, w, makes, wrecks)
<1>1. SoundDoc([k \in Keys |-> Unwritten], makes, wrecks)
  BY UnwrittenSound
<1>2. [k \in Keys |-> Unwritten] \in Registers
  BY <1>1 DEF SoundDoc
<1>3. Bare \in Workspaces
  BY Constants DEF Bare, Workspaces
<1>4. NoRun \in Runs
  BY <1>2, <1>3 DEF NoRun, Runs
<1> QED BY <1>1, <1>4 DEF NoRun, RunOK

\* A command writes what it did to the document it did it to; a run in flight has
\* not seen it.
LEMMA EditKeeps ==
  ASSUME Inv, NEW d \in Devices, NEW w, NEW fields, fields \subseteq FolderFields,
         Edit(d, w, fields), Follows(ws[d], w, made', wrecked'),
         made \subseteq made', wrecked \subseteq wrecked',
         made' \subseteq Nodes, wrecked' \subseteq made', named' \subseteq Folders
  PROVE  Inv' /\ Kept
<1> DEFINE D == Write(docs[d], w, StoreClient[d])
           r == [run[d] EXCEPT !.stale = run[d].stale \/ run[d].on]
<1>1. /\ SoundDoc(docs[d], made, wrecked) /\ ws[d] = Materialize(docs[d])
      /\ RunOK(run[d], ws[d], made, wrecked) /\ run[d] \in Runs
  BY InvDevice
<1>2. /\ run \in [Devices -> Runs] /\ edits \in [Devices -> SUBSET FolderFields]
      /\ acts \in [Devices -> Nat] /\ docs \in [Devices -> Registers]
  BY DEF Inv, TypeOK
<1>3. SoundDoc(docs[d], made', wrecked') /\ SoundDoc(run[d].doc, made', wrecked')
  BY <1>1, SoundDocGrows DEF RunOK
<1>4. StoreClient[d] \in Int
  BY ClientsAssumption
<1>5. SoundDoc(D, made', wrecked') /\ Materialize(D) = w
  BY <1>1, <1>3, <1>4, FollowsWritten
<1> HIDE DEF D
<1>6. /\ r.on = run[d].on /\ r.doc = run[d].doc /\ r.ws = run[d].ws
      /\ r.stale = (run[d].stale \/ run[d].on) /\ r \in Runs
  BY <1>1 DEF Runs
<1>7. run' = [run EXCEPT ![d] = r]
  BY DEF Edit
<1> HIDE DEF r
<1>8. RunOK(r, w, made', wrecked')
  BY <1>1, <1>3, <1>6 DEF RunOK
<1>9. /\ docs' = [docs EXCEPT ![d] = D] /\ ws' = [ws EXCEPT ![d] = w]
      /\ edits' = [edits EXCEPT ![d] = edits[d] \cup fields] /\ server' = server
      /\ acts' = [acts EXCEPT ![d] = acts[d] - 1] /\ acts[d] > 0
  BY DEF Edit, D
<1>10. acts' \in [Devices -> Nat]
  <2>1. acts[d] \in Nat /\ acts[d] - 1 \in Nat
    BY <1>2, <1>9
  <2> QED BY <1>2, <1>9, <2>1
<1>11. edits[d] \cup fields \subseteq FolderFields
  BY <1>2
<1>12. SoundDoc(server', made', wrecked')
  BY <1>9, SoundDocGrows DEF Inv
<1>13. Has(ws[d]) \cap Nodes \subseteq Has(w) \cup wrecked'
  BY DEF Follows
<1>14. Turns(d, D, w, r, edits[d] \cup fields)
  BY <1>5, <1>6, <1>7, <1>8, <1>9, <1>10, <1>11, <1>12, <1>13 DEF Turns, DeviceOK
<1> QED BY <1>14, Turned

\* A command that moves nodes about, names them, or puts them in the trash or takes
\* them out of it.
LEMMA SteadyEditKeeps ==
  ASSUME Inv, NEW d \in Devices, NEW w, NEW fields, fields \subseteq FolderFields,
         Edit(d, w, fields), Steady(ws[d], w), UNCHANGED <<made, wrecked>>,
         named' \subseteq Folders
  PROVE  Inv' /\ Kept
<1>1. Known(ws[d], made, wrecked)
  BY InvDevice
<1>2. Follows(ws[d], w, made, wrecked)
  BY <1>1, SteadyFollows
<1>3. made' = made /\ wrecked' = wrecked /\ made \subseteq Nodes /\ wrecked \subseteq made
  BY DEF Inv, TypeOK
<1> QED BY <1>2, <1>3, EditKeeps

LEMMA CreateKeeps ==
  ASSUME Inv, NEW d \in Devices, NEW n \in Nodes, NEW p \in Dirs, Create(d, n, p)
  PROVE  Inv' /\ Kept
<1>1. /\ n \notin made /\ p \in ws[d].folders /\ Edit(d, Fresh(ws[d], n, p), {})
      /\ made' = made \cup {n} /\ wrecked' = wrecked /\ named' = named
  BY DEF Create
<1>2. Canonical(ws[d]) /\ Known(ws[d], made, wrecked)
  BY InvDevice
<1>3. Follows(ws[d], Fresh(ws[d], n, p), made', wrecked')
  BY <1>1, <1>2, FreshFollows
<1>4. /\ made \subseteq made' /\ wrecked \subseteq wrecked' /\ made' \subseteq Nodes
      /\ wrecked' \subseteq made' /\ named' \subseteq Folders
  BY <1>1 DEF Inv, TypeOK
<1> DEFINE w == Fresh(ws[d], n, p)
<1>5. {} \subseteq FolderFields /\ Edit(d, w, {}) /\ Follows(ws[d], w, made', wrecked')
  BY <1>1, <1>3
<1> HIDE DEF w
<1> QED BY <1>4, <1>5, EditKeeps

LEMMA RenameKeeps ==
  ASSUME Inv, NEW d \in Devices, NEW f \in Folders, RenameFolder(d, f)
  PROVE  Inv' /\ Kept
<1> DEFINE w == [ws[d] EXCEPT !.name[f] = d]
<1>1. /\ f \in ws[d].folders /\ Edit(d, w, {<<f, "name">>})
      /\ named' = named \cup {f} /\ UNCHANGED <<made, wrecked>>
  BY DEF RenameFolder
<1>2. Canonical(ws[d])
  BY InvDevice
<1>3. d \in Int
  BY IdsAssumption
<1>4. Steady(ws[d], w)
  BY <1>1, <1>2, <1>3, RenameSteady
<1> HIDE DEF w
<1>5. named' \subseteq Folders
  BY <1>1 DEF Inv, TypeOK
<1>6. {<<f, "name">>} \subseteq FolderFields
  BY DEF FolderFields
<1> QED BY <1>1, <1>4, <1>5, <1>6, SteadyEditKeeps

LEMMA MoveKeeps ==
  ASSUME Inv, NEW d \in Devices, NEW n \in Nodes, NEW p \in Dirs, MoveNode(d, n, p)
  PROVE  Inv' /\ Kept
<1>1. /\ CanMove(ws[d], n, p) /\ n \notin ws[d].trash /\ Edit(d, Moved(ws[d], n, p), {})
      /\ UNCHANGED <<made, wrecked, named>>
  BY DEF MoveNode, Listed
<1>2. p \in ws[d].folders
  BY <1>1 DEF CanMove, ValidParent
<1>3. Steady(ws[d], Moved(ws[d], n, p))
  BY <1>1, <1>2, InvDevice, MovedSteady
<1>4. named' \subseteq Folders /\ {} \subseteq FolderFields
  BY <1>1 DEF Inv, TypeOK
<1> QED BY <1>1, <1>3, <1>4, SteadyEditKeeps

\* The edit of a folder's being in the trash.
LEMMA ArchivedField ==
  ASSUME NEW n \in Nodes
  PROVE  (IF n \in Folders THEN {<<n, "archived">>} ELSE {}) \subseteq FolderFields
BY DEF FolderFields

LEMMA ArchiveKeeps ==
  ASSUME Inv, NEW d \in Devices, NEW n \in Nodes, ArchiveNode(d, n)
  PROVE  Inv' /\ Kept
<1> DEFINE fields == IF n \in Folders THEN {<<n, "archived">>} ELSE {}
<1>1. /\ CanArchive(ws[d], n) /\ Edit(d, Archive(ws[d], n), fields)
      /\ UNCHANGED <<made, wrecked, named>>
  BY DEF ArchiveNode
<1>2. Steady(ws[d], Archive(ws[d], n))
  BY <1>1, InvDevice, ArchiveSteady
<1>3. named' \subseteq Folders /\ fields \subseteq FolderFields
  BY <1>1, ArchivedField DEF Inv, TypeOK
<1> HIDE DEF fields
<1> QED BY <1>1, <1>2, <1>3, SteadyEditKeeps

LEMMA RestoreKeeps ==
  ASSUME Inv, NEW d \in Devices, NEW n \in Nodes, NEW p \in Dirs, RestoreNode(d, n, p)
  PROVE  Inv' /\ Kept
<1> DEFINE fields == IF n \in Folders THEN {<<n, "archived">>} ELSE {}
<1>1. /\ n \in Has(ws[d]) /\ p \in ws[d].folders /\ Edit(d, Restore(ws[d], n, p), fields)
      /\ UNCHANGED <<made, wrecked, named>>
  BY DEF RestoreNode, ValidParent
<1>2. Steady(ws[d], Restore(ws[d], n, p))
  BY <1>1, InvDevice, RestoreSteady
<1>3. named' \subseteq Folders /\ fields \subseteq FolderFields
  BY <1>1, ArchivedField DEF Inv, TypeOK
<1> HIDE DEF fields
<1> QED BY <1>1, <1>2, <1>3, SteadyEditKeeps

LEMMA DestroyKeeps ==
  ASSUME Inv, NEW d \in Devices, NEW n \in Nodes, DestroyNode(d, n)
  PROVE  Inv' /\ Kept
<1>1. /\ n \in Has(ws[d]) /\ Edit(d, Destroyed(ws[d], n), {})
      /\ wrecked' = wrecked \cup Doomed(ws[d], n) /\ made' = made /\ named' = named
  BY DEF DestroyNode
<1>2. Canonical(ws[d]) /\ Known(ws[d], made, wrecked)
  BY InvDevice
<1>3. /\ Follows(ws[d], Destroyed(ws[d], n), made', wrecked')
      /\ Doomed(ws[d], n) \subseteq made
  BY <1>1, <1>2, DestroyedFollows
<1>4. /\ made \subseteq made' /\ wrecked \subseteq wrecked' /\ made' \subseteq Nodes
      /\ wrecked' \subseteq made' /\ named' \subseteq Folders /\ {} \subseteq FolderFields
  BY <1>1, <1>3 DEF Inv, TypeOK
<1> QED BY <1>1, <1>3, <1>4, EditKeeps

\* What a run starts from, written or not, is the device's workspace put in order.
LEMMA PrePullSound ==
  ASSUME NEW D, NEW makes, NEW wrecks, SoundDoc(D, makes, wrecks), NEW c \in Int
  PROVE  LET w == Materialize(D)
             E == PrePull(D, Normalize(w), c)
         IN SoundDoc(E, makes, wrecks) /\ Has(Materialize(E)) = Has(w)
<1> DEFINE w == Materialize(D)
           v == Normalize(w)
           E == PrePull(D, v, c)
<1>1. Canonical(w) /\ Known(w, makes, wrecks)
  BY SoundDocTyped, MaterializeCanonical, MaterializeKnown
<1>2. Steady(w, v)
  BY <1>1, NormalizeSound
<1> HIDE DEF v
<1>3. Follows(w, v, makes, wrecks) /\ Has(v) = Has(w)
  BY <1>1, <1>2, SteadyFollows
<1>4. SoundDoc(Write(D, v, c), makes, wrecks) /\ Materialize(Write(D, v, c)) = v
  BY <1>3, FollowsWritten
<1>5. E = D \/ E = Write(D, v, c)
  BY DEF PrePull
<1> HIDE DEF E
<1> QED BY <1>3, <1>4, <1>5 DEF E, v

LEMMA StartKeeps ==
  ASSUME Inv, NEW d \in Devices, StartRun(d)
  PROVE  Inv' /\ Kept
<1> DEFINE shown == Normalize(ws[d])
           local == PrePull(docs[d], shown, RunClient[d])
           merged == Join(local, server)
           read == Materialize(merged)
           repaired == Normalize(read)
           final == IF repaired = read THEN merged ELSE Write(merged, repaired, RunClient[d])
           news == Join(docs[d], server) # docs[d] \/ read # shown \/ repaired # read
           r == [on |-> TRUE, doc |-> final, ws |-> repaired, stale |-> FALSE,
                 news |-> news, sent |-> edits[d]]
<1>1. /\ run' = [run EXCEPT ![d] = r] /\ edits' = [edits EXCEPT ![d] = {}]
      /\ UNCHANGED <<server, docs, ws, made, wrecked, named, acts>>
  BY DEF StartRun
<1>2. /\ docs \in [Devices -> Registers] /\ ws \in [Devices -> Workspaces]
      /\ edits \in [Devices -> SUBSET FolderFields] /\ acts \in [Devices -> Nat]
      /\ made \subseteq Nodes /\ wrecked \subseteq made /\ named \subseteq Folders
      /\ SoundDoc(server, made, wrecked)
  BY DEF Inv, TypeOK
<1>3. SoundDoc(docs[d], made, wrecked) /\ ws[d] = Materialize(docs[d])
  BY InvDevice
<1>4. RunClient[d] \in Int
  BY ClientsAssumption
<1>5. SoundDoc(local, made, wrecked) /\ Has(Materialize(local)) = Has(ws[d])
  BY <1>3, <1>4, PrePullSound
<1> HIDE DEF local
<1>6. SoundDoc(merged, made, wrecked)
  BY <1>2, <1>5, JoinSound
<1>7. Has(ws[d]) \cap Nodes \subseteq Has(read) \cup wrecked
  BY <1>2, <1>5, JoinKeeps
<1> HIDE DEF merged
<1>8. Canonical(read) /\ Known(read, made, wrecked)
  BY <1>6, SoundDocTyped, MaterializeCanonical, MaterializeKnown
<1>9. Steady(read, repaired) /\ Sound(repaired)
  BY <1>8, NormalizeSound
<1> HIDE DEF repaired
<1>10. Follows(read, repaired, made, wrecked) /\ Has(repaired) = Has(read)
  BY <1>8, <1>9, SteadyFollows
<1>11. SoundDoc(final, made, wrecked) /\ Materialize(final) = repaired
  BY <1>4, <1>6, <1>10, FollowsWritten
<1>12. final \in Registers /\ repaired \in Workspaces
  BY <1>9, <1>11 DEF SoundDoc, Steady, Canonical
<1> HIDE DEF final
<1>13. news \in BOOLEAN
  OBVIOUS
<1> HIDE DEF news
<1>14. /\ r.on /\ r.doc = final /\ r.ws = repaired /\ ~r.stale
       /\ r \in Runs
  BY <1>2, <1>12, <1>13 DEF Runs
<1> HIDE DEF r
<1>15. RunOK(r, ws[d], made, wrecked)
  BY <1>7, <1>9, <1>10, <1>11, <1>14 DEF RunOK
<1>16. docs' = [docs EXCEPT ![d] = docs[d]] /\ ws' = [ws EXCEPT ![d] = ws[d]]
  BY <1>1, <1>2
<1>17. Turns(d, docs[d], ws[d], r, {})
  BY <1>1, <1>2, <1>3, <1>14, <1>15, <1>16 DEF Turns, DeviceOK
<1> QED BY <1>17, Turned

LEMMA FinishKeeps ==
  ASSUME Inv, NEW d \in Devices, FinishRun(d)
  PROVE  Inv' /\ Kept
<1> DEFINE r == run[d]
           doc == IF r.stale THEN Join(docs[d], r.doc) ELSE r.doc
           landed == IF r.stale THEN Materialize(doc) ELSE r.ws
           again == Reasserted(landed, ws[d], edits[d] \cup r.sent)
           D == IF again = landed THEN doc ELSE Write(doc, again, StoreClient[d])
           more == {e \in r.sent : IF e[2] = "name" THEN again.name[e[1]] # landed.name[e[1]]
                                   ELSE (e[1] \in again.trash) # (e[1] \in landed.trash)}
<1>1. /\ docs \in [Devices -> Registers] /\ ws \in [Devices -> Workspaces]
      /\ edits \in [Devices -> SUBSET FolderFields] /\ acts \in [Devices -> Nat]
      /\ made \subseteq Nodes /\ wrecked \subseteq made /\ named \subseteq Folders
      /\ SoundDoc(server, made, wrecked)
  BY DEF Inv, TypeOK
<1>2. /\ SoundDoc(docs[d], made, wrecked) /\ ws[d] = Materialize(docs[d])
      /\ RunOK(r, ws[d], made, wrecked) /\ r \in Runs
  BY InvDevice
<1>3. r.sent \subseteq FolderFields /\ ws[d] \in Workspaces
  BY <1>1, <1>2 DEF Runs
<1>4. /\ r.on /\ server' = Join(server, r.doc) /\ run' = [run EXCEPT ![d] = NoRun]
      /\ UNCHANGED <<made, wrecked, named, acts>>
      /\ r.news => /\ ws' = [ws EXCEPT ![d] = again] /\ docs' = [docs EXCEPT ![d] = D]
                   /\ edits' = [edits EXCEPT ![d] = edits[d] \cup more]
      /\ ~r.news => UNCHANGED <<ws, docs, edits>>
  BY DEF FinishRun
<1>5. /\ SoundDoc(r.doc, made, wrecked) /\ r.ws = Materialize(r.doc)
      /\ ~r.stale => Has(ws[d]) \cap Nodes \subseteq Has(r.ws) \cup wrecked
  BY <1>2, <1>4 DEF RunOK
<1>6. SoundDoc(server', made', wrecked')
  BY <1>1, <1>4, <1>5, JoinSound
<1>7. \A w : NoRun \in Runs /\ RunOK(NoRun, w, made, wrecked)
  BY NoRunOK
<1>8. CASE ~r.news
  <2>1. /\ docs' = [docs EXCEPT ![d] = docs[d]] /\ ws' = [ws EXCEPT ![d] = ws[d]]
        /\ edits' = [edits EXCEPT ![d] = edits[d]] /\ edits[d] \subseteq FolderFields
    BY <1>1, <1>4, <1>8
  <2> HIDE DEF r
  <2>2. Turns(d, docs[d], ws[d], NoRun, edits[d])
    BY <1>1, <1>2, <1>4, <1>6, <1>7, <2>1 DEF Turns, DeviceOK
  <2> QED BY <2>2, Turned
<1>9. CASE r.news
  <2> HIDE DEF r
  <2>1. /\ SoundDoc(doc, made, wrecked) /\ landed = Materialize(doc)
        /\ Has(ws[d]) \cap Nodes \subseteq Has(landed) \cup wrecked
    <3>1. CASE r.stale
      <4>1. SoundDoc(Join(docs[d], r.doc), made, wrecked)
        BY <1>2, <1>5, JoinSound
      <4>2. Has(Materialize(docs[d])) \cap Nodes
              \subseteq Has(Materialize(Join(docs[d], r.doc))) \cup wrecked
        BY <1>2, <1>5, JoinKeeps
      <4> QED BY <1>2, <3>1, <4>1, <4>2
    <3>2. CASE ~r.stale
      BY <1>5, <3>2
    <3> QED BY <3>1, <3>2
  <2> HIDE DEF doc, landed
  <2>2. Canonical(landed) /\ Known(landed, made, wrecked)
    BY <2>1, SoundDocTyped, MaterializeCanonical, MaterializeKnown
  <2>3. Steady(landed, again)
    BY <1>3, <2>2, ReassertedSteady
  <2>4. more \subseteq FolderFields
    BY <1>3
  <2> HIDE DEF again, more
  <2>5. Follows(landed, again, made, wrecked) /\ Has(again) = Has(landed)
    BY <2>2, <2>3, SteadyFollows
  <2>6. StoreClient[d] \in Int
    BY ClientsAssumption
  <2>7. SoundDoc(D, made, wrecked) /\ Materialize(D) = again
    BY <2>1, <2>5, <2>6, FollowsWritten
  <2> HIDE DEF D
  <2>8. edits[d] \cup more \subseteq FolderFields
    BY <1>1, <2>4
  <2>9. Has(ws[d]) \cap Nodes \subseteq Has(again) \cup wrecked
    BY <2>1, <2>5
  <2>10. Turns(d, D, again, NoRun, edits[d] \cup more)
    BY <1>1, <1>4, <1>6, <1>7, <1>9, <2>7, <2>8, <2>9 DEF Turns, DeviceOK
  <2> QED BY <2>10, Turned
<1> QED BY <1>8, <1>9

LEMMA LoseKeeps ==
  ASSUME Inv, NEW d \in Devices, LoseAnswer(d)
  PROVE  Inv' /\ Kept
<1> DEFINE r == run[d]
<1>1. /\ docs \in [Devices -> Registers] /\ ws \in [Devices -> Workspaces]
      /\ edits \in [Devices -> SUBSET FolderFields] /\ acts \in [Devices -> Nat]
      /\ made \subseteq Nodes /\ wrecked \subseteq made /\ named \subseteq Folders
      /\ SoundDoc(server, made, wrecked)
  BY DEF Inv, TypeOK
<1>2. /\ SoundDoc(docs[d], made, wrecked) /\ ws[d] = Materialize(docs[d])
      /\ RunOK(r, ws[d], made, wrecked) /\ r \in Runs
  BY InvDevice
<1>3. /\ acts[d] > 0 /\ acts' = [acts EXCEPT ![d] = acts[d] - 1]
      /\ server' = Join(server, r.doc) /\ edits' = [edits EXCEPT ![d] = edits[d] \cup r.sent]
      /\ run' = [run EXCEPT ![d] = NoRun] /\ UNCHANGED <<docs, ws, made, wrecked, named>>
  BY DEF LoseAnswer
<1> HIDE DEF r
<1>4. acts' \in [Devices -> Nat]
  <2>1. acts[d] \in Nat /\ acts[d] - 1 \in Nat
    BY <1>1, <1>3
  <2> QED BY <1>1, <1>3, <2>1
<1>5. edits[d] \cup r.sent \subseteq FolderFields
  BY <1>1, <1>2 DEF Runs
<1>6. SoundDoc(server', made', wrecked')
  BY <1>1, <1>2, <1>3, JoinSound DEF RunOK
<1>7. NoRun \in Runs /\ RunOK(NoRun, ws[d], made, wrecked)
  BY NoRunOK
<1>8. docs' = [docs EXCEPT ![d] = docs[d]] /\ ws' = [ws EXCEPT ![d] = ws[d]]
  BY <1>1, <1>3
<1>9. Turns(d, docs[d], ws[d], NoRun, edits[d] \cup r.sent)
  BY <1>1, <1>2, <1>3, <1>4, <1>5, <1>6, <1>7, <1>8 DEF Turns, DeviceOK
<1> QED BY <1>9, Turned

\* The workspace a start gives is one a document can stand for.
StartOf(home) ==
  [Bare EXCEPT !.folders = {Root} \cup (Folders \cap DOMAIN home),
               !.schemes = Schemes \cap DOMAIN home,
               !.kid = [n \in Nodes |-> IF n \in DOMAIN home THEN home[n] ELSE Nil],
               !.up = [f \in Folders |-> IF f \in DOMAIN home THEN home[f] ELSE Nil]]

LEMMA StartCanonical ==
  ASSUME NEW home, DOMAIN home \subseteq Nodes,
         \A n \in DOMAIN home : home[n] \in (Folders \cap DOMAIN home) \cup {Root}
  PROVE  /\ Canonical(StartOf(home)) /\ Known(StartOf(home), DOMAIN home, {})
         /\ \A n \in Nodes : StartOf(home).origin[n] = Nil
<1> DEFINE w == StartOf(home)
<1>1. w = [folders |-> {Root} \cup (Folders \cap DOMAIN home),
           schemes |-> Schemes \cap DOMAIN home,
           kid |-> [n \in Nodes |-> IF n \in DOMAIN home THEN home[n] ELSE Nil],
           up |-> [f \in Folders |-> IF f \in DOMAIN home THEN home[f] ELSE Nil],
           name |-> [f \in Folders |-> 0], trash |-> {}, origin |-> [n \in Nodes |-> Nil]]
  <2> DEFINE kid == [n \in Nodes |-> IF n \in DOMAIN home THEN home[n] ELSE Nil]
             up == [f \in Folders |-> IF f \in DOMAIN home THEN home[f] ELSE Nil]
             folders == {Root} \cup (Folders \cap DOMAIN home)
  <2>1. w = [Bare EXCEPT !.folders = folders, !.schemes = Schemes \cap DOMAIN home,
                         !.kid = kid, !.up = up]
    BY DEF StartOf
  <2> HIDE DEF w, kid, up, folders
  <2>2. w = [folders |-> folders, schemes |-> Schemes \cap DOMAIN home, kid |-> kid, up |-> up,
             name |-> [f \in Folders |-> 0], trash |-> {}, origin |-> [n \in Nodes |-> Nil]]
    BY <2>1 DEF Bare
  <2> QED BY <2>2 DEF kid, up, folders
<1> HIDE DEF w
<1>2. /\ w.folders = {Root} \cup (Folders \cap DOMAIN home) /\ w.schemes = Schemes \cap DOMAIN home
      /\ w.trash = {}
      /\ \A n \in Nodes : /\ w.kid[n] = IF n \in DOMAIN home THEN home[n] ELSE Nil
                          /\ w.origin[n] = Nil
      /\ \A f \in Folders : /\ w.up[f] = IF f \in DOMAIN home THEN home[f] ELSE Nil
                            /\ w.name[f] = 0
  BY <1>1
<1>3. w \in Workspaces
  <2>1. [n \in Nodes |-> IF n \in DOMAIN home THEN home[n] ELSE Nil] \in [Nodes -> Dirs \cup {Nil}]
    BY Constants
  <2>2. [f \in Folders |-> IF f \in DOMAIN home THEN home[f] ELSE Nil]
          \in [Folders -> Dirs \cup {Nil}]
    BY Constants
  <2> QED BY <1>1, <2>1, <2>2, Constants DEF Workspaces
<1>4. \A n \in Nodes : n \in Has(w) <=> n \in DOMAIN home
  BY <1>2, Constants DEF Has
<1>5. ASSUME NEW f \in Folders \cap w.folders PROVE FolderSettled(w, f)
  <2>1. f \in Nodes /\ f \in DOMAIN home /\ f \notin w.trash
    BY <1>2, Constants
  <2>2. w.kid[f] = home[f] /\ w.up[f] = home[f] /\ home[f] \in w.folders
    BY <1>2, <2>1
  <2> QED BY <2>1, <2>2 DEF FolderSettled
<1>6. \A s \in w.schemes : SchemeSettled(w, s)
  BY <1>2, Constants DEF SchemeSettled
<1>7. Canonical(w)
  BY <1>2, <1>3, <1>4, <1>5, <1>6, Constants DEF Canonical
<1>8. Known(w, DOMAIN home, {})
  BY <1>2, <1>4, Constants DEF Known
<1> QED BY <1>2, <1>7, <1>8 DEF w

LEMMA InitInv ==
  ASSUME Init
  PROVE  Inv
<1>1. PICK start \in Starts : InitWith(start.home) /\ acts = start.acts
  BY DEF Init
<1> DEFINE home == start.home
           blank == [k \in Keys |-> Unwritten]
           w == StartOf(home)
           D == Write(blank, w, 0)
<1>2. /\ DOMAIN home \subseteq Nodes /\ acts \in [Devices -> Nat]
      /\ \A n \in DOMAIN home : home[n] \in (Folders \cap DOMAIN home) \cup {Root}
  BY <1>1, IdsAssumption
<1>3. /\ server = D /\ docs = [d \in Devices |-> D] /\ ws = [d \in Devices |-> w]
      /\ made = DOMAIN home
  BY <1>1 DEF InitWith, NoRun, StartOf
<1>4. run = [d \in Devices |-> NoRun] /\ edits = [d \in Devices |-> {}]
      /\ wrecked = {} /\ named = {}
  BY DEF Init
<1> HIDE DEF home
<1>5. /\ Canonical(w) /\ Known(w, made, wrecked)
  BY <1>2, <1>3, <1>4, StartCanonical
<1>6. SoundDoc(blank, made, wrecked)
  BY UnwrittenSound
<1>7. /\ \A n \in Nodes : Origin(blank, n) # Gone
      /\ Has(Materialize(blank)) \cap Nodes = {}
  <2>1. \A k \in Keys : ~Held(blank, k)
    BY DEF Held, Unwritten
  <2> HIDE DEF blank
  <2>2. \A n \in Nodes : ~Held(blank, <<"node", n>>) /\ ~Held(blank, <<"origin", n>>)
    BY <2>1, KeyKinds
  <2>3. \A n \in Nodes : Origin(blank, n) = Nil /\ n \notin PresentIn(blank)
    BY <2>2 DEF Origin, PresentIn
  <2> QED BY <2>3, MaterializeHas, Constants
<1> HIDE DEF blank, w
<1>8. 0 \in Int
  OBVIOUS
<1>9. SoundDoc(D, made, wrecked)
  BY <1>5, <1>6, <1>7, <1>8, WriteSound
<1>10. Materialize(D) = w
  BY <1>5, ReadBack
<1> HIDE DEF D
<1>11. D \in Registers /\ w \in Workspaces
  BY <1>5, <1>9 DEF SoundDoc, Canonical
<1>12. NoRun \in Runs /\ RunOK(NoRun, w, made, wrecked)
  BY NoRunOK
<1>13. TypeOK
  BY <1>2, <1>3, <1>4, <1>11, <1>12 DEF TypeOK
<1>14. \A d \in Devices : DeviceOK(docs[d], ws[d], run[d], made, wrecked)
  BY <1>3, <1>4, <1>9, <1>10, <1>12 DEF DeviceOK
<1> QED BY <1>3, <1>9, <1>13, <1>14 DEF Inv

LEMMA NextInv ==
  ASSUME Inv, Next
  PROVE  Inv' /\ Kept
<1>1. PICK d \in Devices :
        \/ \E n \in Nodes, p \in Dirs : Create(d, n, p)
        \/ \E f \in Folders : RenameFolder(d, f)
        \/ \E n \in Nodes, p \in Dirs : MoveNode(d, n, p)
        \/ \E n \in Nodes : ArchiveNode(d, n)
        \/ \E n \in Nodes, p \in Dirs : RestoreNode(d, n, p)
        \/ \E n \in Nodes : DestroyNode(d, n)
        \/ StartRun(d)
        \/ FinishRun(d)
        \/ LoseAnswer(d)
  BY DEF Next
<1>2. CASE \E n \in Nodes, p \in Dirs : Create(d, n, p)
  BY <1>2, CreateKeeps
<1>3. CASE \E f \in Folders : RenameFolder(d, f)
  BY <1>3, RenameKeeps
<1>4. CASE \E n \in Nodes, p \in Dirs : MoveNode(d, n, p)
  BY <1>4, MoveKeeps
<1>5. CASE \E n \in Nodes : ArchiveNode(d, n)
  BY <1>5, ArchiveKeeps
<1>6. CASE \E n \in Nodes, p \in Dirs : RestoreNode(d, n, p)
  BY <1>6, RestoreKeeps
<1>7. CASE \E n \in Nodes : DestroyNode(d, n)
  BY <1>7, DestroyKeeps
<1>8. CASE StartRun(d)
  BY <1>8, StartKeeps
<1>9. CASE FinishRun(d)
  BY <1>9, FinishKeeps
<1>10. CASE LoseAnswer(d)
  BY <1>10, LoseKeeps
<1> QED BY <1>1, <1>2, <1>3, <1>4, <1>5, <1>6, <1>7, <1>8, <1>9, <1>10

LEMMA StutterInv ==
  ASSUME Inv, UNCHANGED vars
  PROVE  Inv' /\ Kept
<1>1. Inv'
  BY DEF vars, Inv, TypeOK
<1>2. Kept
  BY DEF vars, Kept
<1> QED BY <1>1, <1>2

(***************************************************************************)
(* What the invariant says.                                                *)
(***************************************************************************)
\* What every reachable state is.
LEMMA SpecInv == Spec => []Inv
<1>1. Init => Inv
  BY InitInv
<1>2. Inv /\ [Next]_vars => Inv'
  BY NextInv, StutterInv
<1> QED BY <1>1, <1>2, PTL DEF Spec

\* For any devices, folders, schemes and starts the state is what it is taken to be:
\* whatever edits two devices made and in whatever order their runs merged them, a
\* document never holds what the next reader of it cannot read.
THEOREM TypeCorrect == Spec => []TypeOK
<1>1. Inv => TypeOK
  BY DEF Inv
<1> QED BY <1>1, SpecInv, PTL

\* What a device shows, and what a run is about to hand it, is what the document
\* that goes with it stands for: every command and every repair writes all it did,
\* and what it wrote is read again as it was, however the registers were merged.
THEOREM RunsProject == Spec => []Projected
<1>1. Inv => Projected
  BY DEF Inv, DeviceOK, RunOK, Projected
<1> QED BY <1>1, SpecInv, PTL

\* Whatever tree two devices' edits come to when they are merged, cycles of any
\* length and folders inside ones that are in the trash among them, a run's
\* result has every folder under the root or in the trash, and the trash whole.
THEOREM RunsRepaired == Spec => []RunsRepair
<1>1. Inv => RunsRepair
  BY DEF Inv, DeviceOK, RunOK, RunsRepair
<1> QED BY <1>1, SpecInv, PTL

\* No edit, repair or merge writes over a tombstone or takes it away.
THEOREM TombstonesStay == Spec => []TombstonesLast
<1>1. Inv => TombstonesLast
  <2> SUFFICES ASSUME Inv,
                      NEW D \in {server} \cup {docs[d] : d \in Devices}
                                  \cup {run[d].doc : d \in Devices},
                      NEW n \in Nodes
               PROVE  \A i \in 1..Len(D[<<"origin", n>>].at) :
                        D[<<"origin", n>>].at[i][2] = Gone =>
                          i = Len(D[<<"origin", n>>].at) /\ ~D[<<"origin", n>>].gone
    BY DEF TombstonesLast
  <2>1. SoundDoc(D, made, wrecked)
    BY DEF Inv, DeviceOK, RunOK
  <2>2. Marked(<<"origin", n>>, D[<<"origin", n>>])
    BY <2>1, KeyKinds DEF SoundDoc, SoundRegister
  <2> QED BY <2>2 DEF Marked
<1> QED BY <1>1, SpecInv, PTL

\* A folder or a scheme a device shows is there after every step, until some user
\* destroys it for good: no merge, no repair of a tree that was merged, no edit
\* made again after a run and no result of a run that was overtaken drops it.
THEOREM NodesStay == Spec => NothingVanishes
<1>1. ASSUME Inv, Kept
      PROVE  \A d \in Devices : Has(ws[d]) \ {Root} \subseteq Has(ws'[d]) \cup wrecked'
  <2> SUFFICES ASSUME NEW d \in Devices
               PROVE  Has(ws[d]) \ {Root} \subseteq Has(ws'[d]) \cup wrecked'
    OBVIOUS
  <2>1. ws[d] \in Workspaces
    BY <1>1 DEF Inv, TypeOK
  <2>2. Has(ws[d]) \ {Root} \subseteq Nodes
    BY <2>1, WorkspaceFields, Constants DEF Has
  <2> QED BY <1>1, <2>2 DEF Kept
<1>2. Inv /\ [Next]_vars =>
        [\A d \in Devices : Has(ws[d]) \ {Root} \subseteq Has(ws'[d]) \cup wrecked']_vars
  BY <1>1, NextInv
<1> QED BY <1>2, SpecInv, PTL DEF Spec, NothingVanishes

(***************************************************************************)
(* Merging. Of two writes to a key, or of two places among all writes to   *)
(* it, one is later: both orders go by the first difference, and writes to *)
(* one key are of one length.                                              *)
(***************************************************************************)
Writes(n) == {x \in Seq(Int) : Len(x) = n}
Places(n) == {p \in Seq(Seq(Int)) : \A i \in 1..Len(p) : p[i] \in Writes(n)}

LEMMA LaterIs ==
  ASSUME NEW n \in Nat, NEW x \in Writes(n), NEW y \in Writes(n)
  PROVE  Later(x, y) <=>
           \E i \in 1..n : (\A j \in 1..(i - 1) : x[j] = y[j]) /\ x[i] > y[i]
<1>1. x \in Seq(Int) /\ y \in Seq(Int) /\ Len(x) = n /\ Len(y) = n
  BY DEF Writes
<1>2. ASSUME NEW i \in 1..n
      PROVE  SubSeq(x, 1, i - 1) = SubSeq(y, 1, i - 1) <=> \A j \in 1..(i - 1) : x[j] = y[j]
  <2> DEFINE a == SubSeq(x, 1, i - 1)
             b == SubSeq(y, 1, i - 1)
  <2>1. a \in Seq(Int) /\ b \in Seq(Int) /\ Len(a) = i - 1 /\ Len(b) = i - 1
    BY <1>1
  <2>2. \A j \in 1..(i - 1) : a[j] = x[j] /\ b[j] = y[j]
    BY <1>1
  <2> HIDE DEF a, b
  <2>3. a = b <=> \A j \in 1..(i - 1) : a[j] = b[j]
    BY <2>1
  <2> QED BY <2>2, <2>3 DEF a, b
<1> QED BY <1>1, <1>2 DEF Later

LEMMA LaterTotal ==
  ASSUME NEW n \in Nat, NEW x \in Writes(n), NEW y \in Writes(n), x # y
  PROVE  Later(x, y) \/ Later(y, x)
<1>1. x \in Seq(Int) /\ y \in Seq(Int) /\ Len(x) = n /\ Len(y) = n
  BY DEF Writes
<1> DEFINE S == {i \in 1..n : x[i] # y[i]}
<1>2. S \subseteq Nat /\ S # {}
  <2>1. ASSUME \A i \in 1..n : x[i] = y[i] PROVE FALSE
    BY <1>1, <2>1
  <2> QED BY <2>1
<1>3. PICK i \in S : \A j \in S : i <= j
  BY <1>2, LeastExists
<1>4. i \in 1..n /\ x[i] # y[i] /\ \A j \in 1..(i - 1) : x[j] = y[j]
  BY <1>3
<1>5. x[i] \in Int /\ y[i] \in Int
  BY <1>1, <1>4
<1>6. x[i] > y[i] \/ y[i] > x[i]
  BY <1>4, <1>5
<1> HIDE DEF S
<1> QED BY <1>4, <1>6, LaterIs

LEMMA LaterTransitive ==
  ASSUME NEW n \in Nat, NEW x \in Writes(n), NEW y \in Writes(n), NEW z \in Writes(n),
         Later(x, y), Later(y, z)
  PROVE  Later(x, z)
<1>1. /\ \A i \in 1..n : x[i] \in Int /\ y[i] \in Int /\ z[i] \in Int
  BY DEF Writes
<1>2. PICK i \in 1..n : (\A j \in 1..(i - 1) : x[j] = y[j]) /\ x[i] > y[i]
  BY LaterIs
<1>3. PICK k \in 1..n : (\A j \in 1..(k - 1) : y[j] = z[j]) /\ y[k] > z[k]
  BY LaterIs
<1>4. CASE i < k
  <2>1. x[i] > z[i] /\ \A j \in 1..(i - 1) : x[j] = z[j]
    BY <1>2, <1>3, <1>4
  <2> QED BY <2>1, LaterIs
<1>5. CASE i = k
  <2>1. x[i] > z[i] /\ \A j \in 1..(i - 1) : x[j] = z[j]
    BY <1>1, <1>2, <1>3, <1>5
  <2> QED BY <2>1, LaterIs
<1>6. CASE i > k
  <2>1. x[k] > z[k] /\ \A j \in 1..(k - 1) : x[j] = z[j]
    BY <1>2, <1>3, <1>6
  <2> QED BY <2>1, LaterIs
<1> QED BY <1>4, <1>5, <1>6

LEMMA LaterIrreflexive ==
  ASSUME NEW n \in Nat, NEW x \in Writes(n)
  PROVE  ~Later(x, x)
<1>1. \A i \in 1..n : ~(x[i] > x[i])
  BY DEF Writes
<1> QED BY <1>1, LaterIs

LEMMA AfterIs ==
  ASSUME NEW n \in Nat, NEW p \in Places(n), NEW q \in Places(n)
  PROVE  After(p, q) <=>
           \E i \in 1..Len(p) : /\ i <= Len(q) + 1 /\ \A j \in 1..(i - 1) : p[j] = q[j]
                                /\ i > Len(q) \/ Later(p[i], q[i])
<1>1. /\ p \in Seq(Seq(Int)) /\ q \in Seq(Seq(Int)) /\ Len(p) \in Nat /\ Len(q) \in Nat
  BY DEF Places
<1>2. ASSUME NEW i \in 1..Len(p), i <= Len(q) + 1
      PROVE  SubSeq(p, 1, i - 1) = SubSeq(q, 1, i - 1) <=> \A j \in 1..(i - 1) : p[j] = q[j]
  <2> DEFINE a == SubSeq(p, 1, i - 1)
             b == SubSeq(q, 1, i - 1)
  <2>1. a \in Seq(Seq(Int)) /\ b \in Seq(Seq(Int)) /\ Len(a) = i - 1 /\ Len(b) = i - 1
    BY <1>1, <1>2
  <2>2. \A j \in 1..(i - 1) : a[j] = p[j] /\ b[j] = q[j]
    BY <1>1, <1>2
  <2> HIDE DEF a, b
  <2>3. a = b <=> \A j \in 1..(i - 1) : a[j] = b[j]
    BY <2>1
  <2> QED BY <2>2, <2>3 DEF a, b
<1> QED BY <1>1, <1>2 DEF After

LEMMA AfterTotal ==
  ASSUME NEW n \in Nat, NEW p \in Places(n), NEW q \in Places(n), p # q
  PROVE  After(p, q) \/ After(q, p)
<1>1. /\ p \in Seq(Seq(Int)) /\ q \in Seq(Seq(Int)) /\ Len(p) \in Nat /\ Len(q) \in Nat
      /\ \A i \in 1..Len(p) : p[i] \in Writes(n)
      /\ \A i \in 1..Len(q) : q[i] \in Writes(n)
  BY DEF Places
<1> DEFINE S == {i \in Nat \ {0} : i > Len(p) \/ i > Len(q) \/ p[i] # q[i]}
<1>2. S \subseteq Nat /\ Len(p) + 1 \in S
  BY <1>1
<1>3. PICK i \in S : \A j \in S : i <= j
  BY <1>2, LeastExists
<1>4. /\ i \in Nat \ {0} /\ i <= Len(p) + 1 /\ i <= Len(q) + 1
      /\ \A j \in 1..(i - 1) : p[j] = q[j]
      /\ i > Len(p) \/ i > Len(q) \/ p[i] # q[i]
  <2>1. Len(q) + 1 \in S
    BY <1>1
  <2> QED BY <1>1, <1>2, <1>3, <2>1
<1> HIDE DEF S
<1>5. CASE i > Len(p) /\ i > Len(q)
  <2>1. i = Len(p) + 1 /\ i = Len(q) + 1
    BY <1>1, <1>4, <1>5
  <2>2. Len(p) = Len(q) /\ \A j \in 1..Len(p) : p[j] = q[j]
    BY <1>1, <1>4, <2>1
  <2>3. p \in Seq(Seq(Int)) /\ q \in Seq(Seq(Int))
    BY <1>1
  <2>4. p = [j \in 1..Len(p) |-> p[j]] /\ q = [j \in 1..Len(q) |-> q[j]]
    BY <2>3
  <2>5. p = q
    BY <2>2, <2>4
  <2> QED BY <2>5
<1>6. CASE i <= Len(p) /\ i > Len(q)
  BY <1>1, <1>4, <1>6, AfterIs
<1>7. CASE i > Len(p) /\ i <= Len(q)
  BY <1>1, <1>4, <1>7, AfterIs
<1>8. CASE i <= Len(p) /\ i <= Len(q)
  <2>1. i \in 1..Len(p) /\ i \in 1..Len(q) /\ p[i] # q[i]
    BY <1>1, <1>4, <1>8
  <2>2. Later(p[i], q[i]) \/ Later(q[i], p[i])
    BY <1>1, <2>1, LaterTotal
  <2> QED BY <1>4, <2>1, <2>2, AfterIs
<1> QED BY <1>1, <1>4, <1>5, <1>6, <1>7, <1>8

LEMMA AfterTransitive ==
  ASSUME NEW n \in Nat, NEW p \in Places(n), NEW q \in Places(n), NEW s \in Places(n),
         After(p, q), After(q, s)
  PROVE  After(p, s)
<1>1. /\ Len(p) \in Nat /\ Len(q) \in Nat /\ Len(s) \in Nat
      /\ \A i \in 1..Len(p) : p[i] \in Writes(n)
      /\ \A i \in 1..Len(q) : q[i] \in Writes(n)
      /\ \A i \in 1..Len(s) : s[i] \in Writes(n)
  BY DEF Places
<1>2. PICK i \in 1..Len(p) : /\ i <= Len(q) + 1 /\ \A j \in 1..(i - 1) : p[j] = q[j]
                             /\ i > Len(q) \/ Later(p[i], q[i])
  BY AfterIs
<1>3. PICK k \in 1..Len(q) : /\ k <= Len(s) + 1 /\ \A j \in 1..(k - 1) : q[j] = s[j]
                             /\ k > Len(s) \/ Later(q[k], s[k])
  BY AfterIs
<1>4. CASE i < k
  <2>1. i <= Len(s) + 1 /\ (\A j \in 1..(i - 1) : p[j] = s[j]) /\ Later(p[i], s[i])
    BY <1>1, <1>2, <1>3, <1>4
  <2> QED BY <1>2, <2>1, AfterIs
<1>5. CASE i = k
  <2>1. i <= Len(s) + 1 /\ (\A j \in 1..(i - 1) : p[j] = s[j]) /\ Later(p[i], q[i])
        /\ (i > Len(s) \/ Later(q[i], s[i]))
    BY <1>1, <1>2, <1>3, <1>5
  <2>2. i > Len(s) \/ Later(p[i], s[i])
    <3>1. CASE i > Len(s)
      BY <3>1
    <3>2. CASE i <= Len(s)
      <4>1. i \in 1..Len(s) /\ i \in 1..Len(q) /\ Later(q[i], s[i])
        BY <1>1, <1>3, <1>5, <2>1, <3>2
      <4> QED BY <1>1, <2>1, <4>1, LaterTransitive
    <3> QED BY <1>1, <3>1, <3>2
  <2> QED BY <2>1, <2>2, AfterIs
<1>6. CASE i > k
  <2>1. k \in 1..Len(p) /\ (\A j \in 1..(k - 1) : p[j] = s[j]) /\ p[k] = q[k]
    BY <1>1, <1>2, <1>3, <1>6
  <2> QED BY <1>3, <2>1, AfterIs
<1> QED BY <1>4, <1>5, <1>6

LEMMA AfterIrreflexive ==
  ASSUME NEW n \in Nat, NEW p \in Places(n)
  PROVE  ~After(p, p)
<1>1. Len(p) \in Nat /\ \A i \in 1..Len(p) : p[i] \in Writes(n)
  BY DEF Places
<1>2. \A i \in 1..Len(p) : ~(i > Len(p)) /\ ~Later(p[i], p[i])
  BY <1>1, LaterIrreflexive
<1> QED BY <1>2, AfterIs

\* How long the values of a key are: a folder's entry has its folder, its own idea of
\* it and its name.
Width(k) == IF k[1] = "node" /\ k[2] \in Folders THEN 3 ELSE 1

\* A register's value is that of the last of the writes it stands on.
Tracked(k, r) ==
  /\ r \in [at : Seq(Seq(Int)), val : Seq(Int), gone : BOOLEAN]
  /\ r.at \in Places(Width(k) + 1)
  /\ IF r.at = <<>> THEN r.val = <<>>
     ELSE /\ Len(r.val) = Width(k)
          /\ \A j \in 1..Width(k) : r.val[j] = r.at[Len(r.at)][j + 1]
TrackedDoc(D) == D \in Registers /\ \A k \in Keys : Tracked(k, D[k])

LEMMA Widths == \A k : Width(k) \in Nat /\ Width(k) + 1 \in Nat
BY DEF Width

LEMMA SameWrite ==
  ASSUME NEW k, NEW r, NEW s, Tracked(k, r), Tracked(k, s), r.at = s.at
  PROVE  r.val = s.val
<1>1. r.val \in Seq(Int) /\ s.val \in Seq(Int)
  BY DEF Tracked
<1>2. Len(r.val) = Len(s.val) /\ \A j \in 1..Len(r.val) : r.val[j] = s.val[j]
  BY DEF Tracked
<1>3. r.val = [j \in 1..Len(r.val) |-> r.val[j]] /\ s.val = [j \in 1..Len(s.val) |-> s.val[j]]
  BY <1>1
<1> QED BY <1>2, <1>3

\* Which of two registers is merged to which.
LEMMA WinnerCases ==
  ASSUME NEW k, NEW r, NEW s, Tracked(k, r), Tracked(k, s)
  PROVE  /\ r.at = s.at => Winner(r, s) = [at |-> r.at, val |-> r.val, gone |-> r.gone \/ s.gone]
         /\ After(r.at, s.at) => Winner(r, s) = r
         /\ After(s.at, r.at) => Winner(r, s) = s
         /\ r.at = s.at \/ After(r.at, s.at) \/ After(s.at, r.at)
<1> DEFINE n == Width(k) + 1
<1>1. r.at \in Places(n) /\ s.at \in Places(n) /\ n \in Nat
  BY Widths DEF Tracked
<1> HIDE DEF n
<1>2. ~After(r.at, r.at) /\ ~After(s.at, s.at)
  BY <1>1, AfterIrreflexive
<1>3. ASSUME After(s.at, r.at) PROVE ~After(r.at, s.at)
  BY <1>1, <1>2, <1>3, AfterTransitive
<1>4. r.at # s.at => After(r.at, s.at) \/ After(s.at, r.at)
  BY <1>1, AfterTotal
<1>5. ASSUME r.at = s.at
      PROVE  Winner(r, s) = [at |-> r.at, val |-> r.val, gone |-> r.gone \/ s.gone]
  <2>1. Winner(r, s) = [r EXCEPT !.gone = r.gone \/ s.gone]
    BY <1>5 DEF Winner
  <2>2. r = [at |-> r.at, val |-> r.val, gone |-> r.gone]
    BY DEF Tracked
  <2> QED BY <2>1, <2>2
<1>6. ASSUME After(r.at, s.at) PROVE Winner(r, s) = r
  BY <1>2, <1>6 DEF Winner
<1>7. ASSUME After(s.at, r.at) PROVE Winner(r, s) = s
  BY <1>2, <1>3, <1>7 DEF Winner
<1> QED BY <1>4, <1>5, <1>6, <1>7

LEMMA WinnerTracked ==
  ASSUME NEW k, NEW r, NEW s, Tracked(k, r), Tracked(k, s)
  PROVE  Tracked(k, Winner(r, s))
<1>1. /\ r.at = s.at => Winner(r, s) = [at |-> r.at, val |-> r.val, gone |-> r.gone \/ s.gone]
      /\ After(r.at, s.at) => Winner(r, s) = r
      /\ After(s.at, r.at) => Winner(r, s) = s
      /\ r.at = s.at \/ After(r.at, s.at) \/ After(s.at, r.at)
  BY WinnerCases
<1>2. CASE r.at = s.at
  <2> DEFINE q == [at |-> r.at, val |-> r.val, gone |-> r.gone \/ s.gone]
  <2>1. q.at = r.at /\ q.val = r.val
    OBVIOUS
  <2>2. q \in [at : Seq(Seq(Int)), val : Seq(Int), gone : BOOLEAN]
    BY DEF Tracked
  <2> HIDE DEF q
  <2>3. Tracked(k, q)
    BY <2>1, <2>2 DEF Tracked
  <2> QED BY <1>1, <1>2, <2>3 DEF q
<1>3. CASE After(r.at, s.at)
  BY <1>1, <1>3
<1>4. CASE After(s.at, r.at)
  BY <1>1, <1>4
<1> QED BY <1>1, <1>2, <1>3, <1>4

\* Registers form a semilattice.
LEMMA WinnerSymmetric ==
  ASSUME NEW k, NEW r, NEW s, Tracked(k, r), Tracked(k, s)
  PROVE  Winner(r, s) = Winner(s, r)
<1>1. CASE r.at = s.at
  <2>1. r.val = s.val
    BY <1>1, SameWrite
  <2>2. Winner(r, s) = [at |-> r.at, val |-> r.val, gone |-> r.gone \/ s.gone]
    BY <1>1, WinnerCases
  <2>3. Winner(s, r) = [at |-> s.at, val |-> s.val, gone |-> s.gone \/ r.gone]
    BY <1>1, WinnerCases
  <2>4. (r.gone \/ s.gone) = (s.gone \/ r.gone)
    OBVIOUS
  <2> QED BY <1>1, <2>1, <2>2, <2>3, <2>4
<1>2. CASE After(r.at, s.at)
  BY <1>2, WinnerCases
<1>3. CASE After(s.at, r.at)
  BY <1>3, WinnerCases
<1> QED BY <1>1, <1>2, <1>3, WinnerCases

LEMMA WinnerIdempotent ==
  ASSUME NEW k, NEW r, Tracked(k, r)
  PROVE  Winner(r, r) = r
<1>1. Winner(r, r) = [at |-> r.at, val |-> r.val, gone |-> r.gone \/ r.gone]
  BY WinnerCases
<1>2. r = [at |-> r.at, val |-> r.val, gone |-> r.gone] /\ r.gone \in BOOLEAN
  BY DEF Tracked
<1> QED BY <1>1, <1>2

LEMMA WinnerAssociative ==
  ASSUME NEW k, NEW r, NEW s, NEW t, Tracked(k, r), Tracked(k, s), Tracked(k, t)
  PROVE  Winner(r, Winner(s, t)) = Winner(Winner(r, s), t)
<1> DEFINE rs == Winner(r, s)
           st == Winner(s, t)
<1>1. Tracked(k, rs) /\ Tracked(k, st)
  BY WinnerTracked
<1>2. \A x, y, z : Tracked(k, x) /\ Tracked(k, y) /\ Tracked(k, z)
                     /\ After(x.at, y.at) /\ After(y.at, z.at) => After(x.at, z.at)
  <2> TAKE x, y, z
  <2> HAVE Tracked(k, x) /\ Tracked(k, y) /\ Tracked(k, z)
             /\ After(x.at, y.at) /\ After(y.at, z.at)
  <2> DEFINE n == Width(k) + 1
  <2>1. x.at \in Places(n) /\ y.at \in Places(n) /\ z.at \in Places(n) /\ n \in Nat
    BY Widths DEF Tracked
  <2> HIDE DEF n
  <2> QED BY <2>1, AfterTransitive
<1>3. CASE r.at = s.at
  <2>1. rs = [at |-> r.at, val |-> r.val, gone |-> r.gone \/ s.gone] /\ r.val = s.val
    BY <1>3, WinnerCases, SameWrite
  <2>2. CASE s.at = t.at
    <3>1. st = [at |-> s.at, val |-> s.val, gone |-> s.gone \/ t.gone]
      BY <2>2, WinnerCases
    <3>2. Winner(r, st) = [at |-> r.at, val |-> r.val, gone |-> r.gone \/ st.gone]
      BY <1>1, <1>3, <3>1, WinnerCases
    <3>3. Winner(rs, t) = [at |-> rs.at, val |-> rs.val, gone |-> rs.gone \/ t.gone]
      <4>1. rs.at = t.at
        BY <1>3, <2>1, <2>2
      <4> HIDE DEF rs
      <4> QED BY <1>1, <4>1, WinnerCases
    <3> HIDE DEF rs, st
    <3>4. (r.gone \/ st.gone) = (rs.gone \/ t.gone)
      <4>1. rs.gone = (r.gone \/ s.gone) /\ st.gone = (s.gone \/ t.gone)
        BY <2>1, <3>1
      <4>2. r.gone \in BOOLEAN /\ s.gone \in BOOLEAN /\ t.gone \in BOOLEAN
        BY DEF Tracked
      <4> QED BY <4>1, <4>2
    <3> QED BY <2>1, <3>2, <3>3, <3>4 DEF rs, st
  <2>3. CASE After(s.at, t.at)
    <3>1. st = s
      BY <2>3, WinnerCases
    <3>2. Winner(rs, t) = rs
      BY <1>1, <1>3, <2>1, <2>3, WinnerCases
    <3> QED BY <3>1, <3>2
  <2>4. CASE After(t.at, s.at)
    <3>1. st = t
      BY <2>4, WinnerCases
    <3>2. Winner(rs, t) = t /\ Winner(r, t) = t
      BY <1>1, <1>3, <2>1, <2>4, WinnerCases
    <3> QED BY <3>1, <3>2
  <2> QED BY <2>2, <2>3, <2>4, WinnerCases
<1>4. CASE After(r.at, s.at)
  <2>1. rs = r
    BY <1>4, WinnerCases
  <2>2. CASE s.at = t.at
    <3>1. st.at = s.at
      BY <2>2, WinnerCases
    <3>2. Winner(r, st) = r /\ Winner(r, t) = r
      BY <1>1, <1>4, <2>2, <3>1, WinnerCases
    <3> QED BY <2>1, <3>2
  <2>3. CASE After(s.at, t.at)
    <3>1. st = s /\ After(r.at, t.at)
      BY <1>2, <1>4, <2>3, WinnerCases
    <3>2. Winner(r, t) = r
      BY <3>1, WinnerCases
    <3> QED BY <2>1, <3>1, <3>2
  <2>4. CASE After(t.at, s.at)
    <3>1. st = t
      BY <2>4, WinnerCases
    <3> QED BY <2>1, <3>1
  <2> QED BY <2>2, <2>3, <2>4, WinnerCases
<1>5. CASE After(s.at, r.at)
  <2>1. rs = s
    BY <1>5, WinnerCases
  <2>2. CASE s.at = t.at \/ After(s.at, t.at)
    <3>1. st.at = s.at
      BY <2>2, WinnerCases
    <3>2. Winner(r, st) = st
      BY <1>1, <1>5, <3>1, WinnerCases
    <3> QED BY <2>1, <3>2
  <2>3. CASE After(t.at, s.at)
    <3>1. st = t /\ After(t.at, r.at)
      BY <1>2, <1>5, <2>3, WinnerCases
    <3>2. Winner(r, t) = t
      BY <3>1, WinnerCases
    <3> QED BY <2>1, <3>1, <3>2
  <2> QED BY <2>2, <2>3, WinnerCases
<1> QED BY <1>3, <1>4, <1>5, WinnerCases


\* So do documents, key by key.
LEMMA JoinTracked ==
  ASSUME NEW D, NEW E, TrackedDoc(D), TrackedDoc(E)
  PROVE  /\ TrackedDoc(Join(D, E))
         /\ \A k \in Keys : Join(D, E)[k] = Winner(D[k], E[k])
<1> DEFINE J == Join(D, E)
<1>1. J = [k \in Keys |-> Winner(D[k], E[k])]
  BY DEF Join
<1> HIDE DEF J
<1>2. \A k \in Keys : Tracked(k, J[k])
  BY <1>1, WinnerTracked DEF TrackedDoc
<1>3. J \in Registers
  BY <1>1, <1>2 DEF Registers, Tracked
<1> QED BY <1>1, <1>2, <1>3 DEF TrackedDoc, J

\* Two documents with the same registers are the same.
LEMMA SameDoc ==
  ASSUME NEW D, NEW E, TrackedDoc(D), TrackedDoc(E), \A k \in Keys : D[k] = E[k]
  PROVE  D = E
<1>1. D = [k \in Keys |-> D[k]] /\ E = [k \in Keys |-> E[k]]
  BY DEF TrackedDoc, Registers
<1> QED BY <1>1

LEMMA JoinSymmetric ==
  ASSUME NEW D, NEW E, TrackedDoc(D), TrackedDoc(E)
  PROVE  Join(D, E) = Join(E, D)
<1>1. \A k \in Keys : Join(D, E)[k] = Join(E, D)[k]
  BY JoinTracked, WinnerSymmetric DEF TrackedDoc
<1> QED BY <1>1, JoinTracked, SameDoc

LEMMA JoinIdempotent ==
  ASSUME NEW D, TrackedDoc(D)
  PROVE  Join(D, D) = D
<1>1. \A k \in Keys : Join(D, D)[k] = D[k]
  BY JoinTracked, WinnerIdempotent DEF TrackedDoc
<1> QED BY <1>1, JoinTracked, SameDoc

LEMMA JoinAssociative ==
  ASSUME NEW D, NEW E, NEW F, TrackedDoc(D), TrackedDoc(E), TrackedDoc(F)
  PROVE  Join(D, Join(E, F)) = Join(Join(D, E), F)
<1> DEFINE DE == Join(D, E)
           EF == Join(E, F)
<1>1. TrackedDoc(DE) /\ TrackedDoc(EF)
  BY JoinTracked
<1>2. \A k \in Keys : DE[k] = Winner(D[k], E[k]) /\ EF[k] = Winner(E[k], F[k])
  BY JoinTracked
<1> HIDE DEF DE, EF
<1>3. /\ TrackedDoc(Join(D, EF)) /\ TrackedDoc(Join(DE, F))
      /\ \A k \in Keys : /\ Join(D, EF)[k] = Winner(D[k], EF[k])
                         /\ Join(DE, F)[k] = Winner(DE[k], F[k])
  BY <1>1, JoinTracked
<1>4. \A k \in Keys : Join(D, EF)[k] = Join(DE, F)[k]
  BY <1>2, <1>3, WinnerAssociative DEF TrackedDoc
<1> QED BY <1>3, <1>4, SameDoc DEF DE, EF

(***************************************************************************)
(* History. A document is under another when merging it in adds nothing:   *)
(* the winner of every key of it is the other's too, or loses to that.     *)
(***************************************************************************)
Under(D, E) == Join(D, E) = E

LEMMA UnderSelf ==
  ASSUME NEW D, TrackedDoc(D)
  PROVE  Under(D, D)
BY JoinIdempotent DEF Under

LEMMA UnderTransitive ==
  ASSUME NEW D, NEW E, NEW F, TrackedDoc(D), TrackedDoc(E), TrackedDoc(F),
         Under(D, E), Under(E, F)
  PROVE  Under(D, F)
<1>1. Join(D, Join(E, F)) = Join(Join(D, E), F)
  BY JoinAssociative
<1> QED BY <1>1 DEF Under

LEMMA UnderJoin ==
  ASSUME NEW D, NEW E, TrackedDoc(D), TrackedDoc(E)
  PROVE  Under(D, Join(D, E)) /\ Under(E, Join(D, E))
<1>1. Join(D, Join(D, E)) = Join(D, E)
  BY JoinAssociative, JoinIdempotent
<1>2. Join(E, Join(E, D)) = Join(E, D)
  BY JoinAssociative, JoinIdempotent
<1> QED BY <1>1, <1>2, JoinSymmetric DEF Under

\* What should be held under a key is as long as the key's values are.
LEMMA DesiredWidth ==
  ASSUME NEW w \in Workspaces, NEW k \in Keys
  PROVE  LET want == Desired(w)[k] IN want.val \in Seq(Int) /\ Len(want.val) = Width(k)
<1> DEFINE want == Desired(w)
<1>1. PICK n \in Nodes :
        \/ k \in {<<"node", n>>, <<"kid", n>>, <<"trash", n>>, <<"origin", n>>}
        \/ n \in Folders /\ k \in {<<"up", n>>, <<"name", n>>}
  BY DEF Keys, Nodes
<1>2. /\ w.kid[n] \in Int /\ w.origin[n] \in Int
      /\ n \in Folders => w.up[n] \in Int /\ w.name[n] \in Int
  BY WorkspaceFields, Constants
<1>3. n \in Schemes <=> n \notin Folders
  BY Constants DEF Nodes
<1>4. /\ want[<<"node", n>>].val = IF n \in Schemes THEN <<w.kid[n]>>
                                   ELSE <<w.kid[n], w.up[n], w.name[n]>>
      /\ want[<<"kid", n>>].val = <<w.kid[n]>>
      /\ want[<<"trash", n>>].val = <<1>>
      /\ want[<<"origin", n>>].val = <<w.origin[n]>>
      /\ n \in Folders => /\ want[<<"up", n>>].val = <<w.up[n]>>
                          /\ want[<<"name", n>>].val = <<w.name[n]>>
  BY DesiredOf
<1> HIDE DEF want
<1>5. CASE k = <<"node", n>> /\ n \in Folders
  <2>1. want[k].val = <<w.kid[n], w.up[n], w.name[n]>> /\ Width(k) = 3
    BY <1>3, <1>4, <1>5 DEF Width
  <2> QED BY <1>2, <1>5, <2>1 DEF want
<1>6. CASE ~(k = <<"node", n>> /\ n \in Folders)
  <2>1. Width(k) = 1
    <3>1. k = <<k[1], k[2]>> /\ k[2] = n /\ (k[1] = "node" => k = <<"node", n>>)
      BY <1>1
    <3> QED BY <1>6, <3>1 DEF Width
  <2>2. \E x \in Int : want[k].val = <<x>>
    BY <1>1, <1>2, <1>3, <1>4, <1>6
  <2> QED BY <2>1, <2>2 DEF want
<1> QED BY <1>5, <1>6

\* A write goes on top of what it was made over.
LEMMA PutGrows ==
  ASSUME NEW k, NEW r, Tracked(k, r), NEW want, want.on \in BOOLEAN,
         want.val \in Seq(Int), Len(want.val) = Width(k), NEW c \in Int
  PROVE  LET q == Put(r, want, c) IN Tracked(k, q) /\ Winner(r, q) = q
<1> DEFINE q == Put(r, want, c)
           n == Width(k) + 1
<1>1. /\ r \in [at : Seq(Seq(Int)), val : Seq(Int), gone : BOOLEAN] /\ r.at \in Places(n)
      /\ Width(k) \in Nat /\ n \in Nat
  BY Widths DEF Tracked
<1>2. CASE ~want.on
  <2>1. q = [r EXCEPT !.gone = TRUE]
    BY <1>2 DEF Put
  <2> HIDE DEF q, n
  <2>2. /\ q = [at |-> r.at, val |-> r.val, gone |-> TRUE] /\ q.at = r.at /\ q.val = r.val
        /\ q.gone /\ q \in [at : Seq(Seq(Int)), val : Seq(Int), gone : BOOLEAN]
    <3>1. r.at \in Seq(Seq(Int)) /\ r.val \in Seq(Int)
          /\ r = [at |-> r.at, val |-> r.val, gone |-> r.gone]
      BY <1>1
    <3>2. q = [at |-> r.at, val |-> r.val, gone |-> TRUE]
      BY <2>1, <3>1
    <3> QED BY <3>1, <3>2
  <2>3. Tracked(k, q)
    <3>1. q.at = r.at /\ q.val = r.val
          /\ q \in [at : Seq(Seq(Int)), val : Seq(Int), gone : BOOLEAN]
      BY <2>2
    <3> QED BY <3>1 DEF Tracked
  <2>4. Winner(r, q) = [at |-> r.at, val |-> r.val, gone |-> r.gone \/ q.gone]
    BY <2>2, <2>3, WinnerCases
  <2>5. (r.gone \/ q.gone) = TRUE
    BY <2>2
  <2>6. Winner(r, q) = q
    BY <2>2, <2>4, <2>5
  <2> QED BY <2>3, <2>6 DEF q
<1>3. CASE want.on /\ ~r.gone /\ r.val = want.val
  <2>1. q = r
    BY <1>3 DEF Put
  <2> QED BY <2>1, WinnerIdempotent
<1>4. CASE want.on /\ ~(~r.gone /\ r.val = want.val)
  <2> DEFINE e == <<c>> \o want.val
             m == Len(r.at)
  <2>1. q = [at |-> Append(r.at, e), val |-> want.val, gone |-> FALSE]
    BY <1>4 DEF Put
  <2>2. e \in Seq(Int) /\ Len(e) = n /\ \A j \in 1..Width(k) : e[j + 1] = want.val[j]
    BY <1>1
  <2> HIDE DEF e
  <2>3. /\ q.at \in Seq(Seq(Int)) /\ q.at # <<>> /\ Len(q.at) = m + 1 /\ m \in Nat
        /\ q.at[m + 1] = e /\ \A i \in 1..m : q.at[i] = r.at[i]
    <3>1. q.at = Append(r.at, e)
      BY <2>1
    <3> HIDE DEF q
    <3>2. r.at \in Seq(Seq(Int)) /\ e \in Seq(Int)
      BY <1>1, <2>2
    <3> DEFINE b == Append(r.at, e)
    <3>3. /\ b \in Seq(Seq(Int)) /\ b # <<>> /\ Len(b) = m + 1 /\ b[m + 1] = e
          /\ \A i \in 1..m : b[i] = r.at[i]
      BY <3>2, AppendIs
    <3>4. m \in Nat
      BY <3>2
    <3> QED BY <3>1, <3>3, <3>4
  <2>4. /\ q \in [at : Seq(Seq(Int)), val : Seq(Int), gone : BOOLEAN]
        /\ q.val = want.val
    BY <2>1, <2>3
  <2> HIDE DEF q, m
  <2>5. q.at \in Places(n)
    <3> SUFFICES ASSUME NEW i \in 1..Len(q.at) PROVE q.at[i] \in Writes(n)
      BY <2>3 DEF Places
    <3>1. CASE i = m + 1
      BY <2>2, <2>3, <3>1 DEF Writes
    <3>2. CASE i \in 1..m
      BY <1>1, <2>3, <3>2 DEF Places, m
    <3> QED BY <2>3, <3>1, <3>2
  <2>6. Tracked(k, q)
    BY <2>2, <2>3, <2>4, <2>5 DEF Tracked
  <2>7. After(q.at, r.at)
    <3> DEFINE i == m + 1
    <3>1. /\ i \in 1..Len(q.at) /\ i <= Len(r.at) + 1 /\ i > Len(r.at)
          /\ \A j \in 1..(i - 1) : q.at[j] = r.at[j]
      BY <2>3 DEF m
    <3> HIDE DEF n, i
    <3>2. After(q.at, r.at) <=>
            \E x \in 1..Len(q.at) :
               /\ x <= Len(r.at) + 1 /\ \A j \in 1..(x - 1) : q.at[j] = r.at[j]
               /\ x > Len(r.at) \/ Later(q.at[x], r.at[x])
      BY <1>1, <2>5, AfterIs
    <3> QED BY <3>1, <3>2
  <2>8. Winner(r, q) = q
    BY <2>6, <2>7, WinnerCases
  <2> QED BY <2>6, <2>8 DEF q
<1> QED BY <1>2, <1>3, <1>4

\* And so does what a workspace changes in a document.
LEMMA WriteGrows ==
  ASSUME NEW D, TrackedDoc(D), NEW w \in Workspaces, NEW c \in Int
  PROVE  TrackedDoc(Write(D, w, c)) /\ Under(D, Write(D, w, c))
<1> DEFINE E == Write(D, w, c)
<1>1. ASSUME NEW k \in Keys
      PROVE  Tracked(k, E[k]) /\ Winner(D[k], E[k]) = E[k]
  <2> DEFINE want == Desired(w)[k]
  <2>1. E[k] = Put(D[k], want, c)
    BY WriteHolds
  <2>2. want.val \in Seq(Int) /\ Len(want.val) = Width(k)
    BY DesiredWidth
  <2>3. want.on \in BOOLEAN
    BY KeyKinds DEF Desired
  <2>4. Tracked(k, D[k])
    BY DEF TrackedDoc
  <2> HIDE DEF want, E
  <2> QED BY <2>1, <2>2, <2>3, <2>4, PutGrows
<1>2. E = [k \in Keys |-> E[k]]
  BY DEF Write
<1> HIDE DEF E
<1>3. E \in Registers
  BY <1>1, <1>2 DEF Registers, Tracked
<1>4. TrackedDoc(E)
  BY <1>1, <1>3 DEF TrackedDoc
<1>5. \A k \in Keys : Join(D, E)[k] = E[k]
  BY <1>1, <1>4, JoinTracked
<1>6. Join(D, E) = E
  BY <1>4, <1>5, JoinTracked, SameDoc
<1> QED BY <1>4, <1>6 DEF Under, E


\* The documents there are.
Documents == {server} \cup {docs[d] : d \in Devices} \cup {run[d].doc : d \in Devices}

\* Each can be merged with any; and a run that the device would adopt, and not merge,
\* has all that the device's own document has.
Merges ==
  /\ \A D \in Documents : TrackedDoc(D)
  /\ \A d \in Devices : run[d].on /\ ~run[d].stale => Under(docs[d], run[d].doc)

\* What a step may not take from any document.
Grown == Under(server, server') /\ \A d \in Devices : Under(docs[d], docs'[d])

\* It is enough to look at the one device a step is of.
Adds(d, D, r) ==
  /\ docs' = [docs EXCEPT ![d] = D] /\ run' = [run EXCEPT ![d] = r]
  /\ TrackedDoc(server') /\ TrackedDoc(D) /\ TrackedDoc(r.doc)
  /\ Under(server, server') /\ Under(docs[d], D)
  /\ r.on /\ ~r.stale => Under(D, r.doc)

LEMMA Added ==
  ASSUME Inv, Merges, NEW d \in Devices, NEW D, NEW r, Adds(d, D, r)
  PROVE  Merges' /\ Grown
<1>1. docs \in [Devices -> Registers] /\ run \in [Devices -> Runs]
  BY DEF Inv, TypeOK
<1>2. /\ docs' = [docs EXCEPT ![d] = D] /\ run' = [run EXCEPT ![d] = r]
      /\ TrackedDoc(server') /\ TrackedDoc(D) /\ TrackedDoc(r.doc)
      /\ Under(server, server') /\ Under(docs[d], D)
      /\ r.on /\ ~r.stale => Under(D, r.doc)
  BY DEF Adds
<1>3. /\ docs'[d] = D /\ run'[d] = r
      /\ \A x \in Devices : x # d => docs'[x] = docs[x] /\ run'[x] = run[x]
  BY <1>1, <1>2
<1>4. \A x \in Devices : TrackedDoc(docs[x]) /\ TrackedDoc(run[x].doc)
  BY DEF Merges, Documents
<1>5. \A x \in Devices : TrackedDoc(docs'[x]) /\ TrackedDoc(run'[x].doc)
  BY <1>2, <1>3, <1>4
<1>6. \A x \in Devices : run'[x].on /\ ~run'[x].stale => Under(docs'[x], run'[x].doc)
  BY <1>2, <1>3 DEF Merges
<1>7. \A x \in Devices : Under(docs[x], docs'[x])
  BY <1>2, <1>3, <1>4, UnderSelf
<1>8. Merges'
  BY <1>2, <1>5, <1>6 DEF Merges, Documents
<1> QED BY <1>2, <1>7, <1>8 DEF Grown

\* The document nobody wrote, and the run that is none.
LEMMA UnwrittenTracked == TrackedDoc([k \in Keys |-> Unwritten])
<1>1. <<>> \in Seq(Seq(Int)) /\ <<>> \in Seq(Int) /\ \A n : <<>> \in Places(n)
  BY DEF Places
<1>2. \A k : Tracked(k, Unwritten)
  BY <1>1 DEF Tracked, Unwritten
<1> QED BY <1>2 DEF TrackedDoc, Registers, Tracked

LEMMA DeviceMerges ==
  ASSUME Merges, NEW d \in Devices
  PROVE  /\ TrackedDoc(server) /\ TrackedDoc(docs[d]) /\ TrackedDoc(run[d].doc)
         /\ run[d].on /\ ~run[d].stale => Under(docs[d], run[d].doc)
         /\ StoreClient[d] \in Int /\ RunClient[d] \in Int
         /\ TrackedDoc(NoRun.doc) /\ ~NoRun.on
BY UnwrittenTracked, ClientsAssumption DEF Merges, Documents, NoRun

LEMMA EditMerges ==
  ASSUME Inv, Inv', Merges, NEW d \in Devices, NEW w, NEW fields, Edit(d, w, fields)
  PROVE  Merges' /\ Grown
<1> DEFINE r == [run[d] EXCEPT !.stale = run[d].stale \/ run[d].on]
           D == Write(docs[d], w, StoreClient[d])
<1>1. /\ docs' = [docs EXCEPT ![d] = D] /\ ws' = [ws EXCEPT ![d] = w]
      /\ run' = [run EXCEPT ![d] = r] /\ server' = server
  BY DEF Edit
<1>2. ws \in [Devices -> Workspaces] /\ ws' \in [Devices -> Workspaces] /\ run[d] \in Runs
  BY DEF Inv, TypeOK
<1>3. w \in Workspaces
  BY <1>1, <1>2
<1>4. /\ TrackedDoc(server) /\ TrackedDoc(docs[d]) /\ TrackedDoc(run[d].doc)
      /\ StoreClient[d] \in Int
  BY DeviceMerges
<1>5. TrackedDoc(D) /\ Under(docs[d], D)
  BY <1>3, <1>4, WriteGrows
<1>6. r.doc = run[d].doc /\ (r.on => r.stale)
  BY <1>2 DEF Runs
<1> HIDE DEF D, r
<1>7. Adds(d, D, r)
  BY <1>1, <1>4, <1>5, <1>6, UnderSelf DEF Adds
<1> QED BY <1>7, Added

LEMMA StartMerges ==
  ASSUME Inv, Inv', Merges, NEW d \in Devices, StartRun(d)
  PROVE  Merges' /\ Grown
<1> DEFINE shown == Normalize(ws[d])
           local == PrePull(docs[d], shown, RunClient[d])
           merged == Join(local, server)
           read == Materialize(merged)
           repaired == Normalize(read)
           final == IF repaired = read THEN merged ELSE Write(merged, repaired, RunClient[d])
           news == Join(docs[d], server) # docs[d] \/ read # shown \/ repaired # read
           r == [on |-> TRUE, doc |-> final, ws |-> repaired, stale |-> FALSE,
                 news |-> news, sent |-> edits[d]]
<1>1. /\ run' = [run EXCEPT ![d] = r] /\ UNCHANGED <<server, docs>>
  BY DEF StartRun
<1>2. /\ run \in [Devices -> Runs] /\ run' \in [Devices -> Runs]
      /\ docs \in [Devices -> Registers]
  BY DEF Inv, TypeOK
<1>3. r.on /\ r.doc = final /\ r.ws = repaired
  OBVIOUS
<1>4. /\ TrackedDoc(server) /\ TrackedDoc(docs[d]) /\ RunClient[d] \in Int
  BY DeviceMerges
<1>5. shown \in Workspaces
  <2>1. Canonical(ws[d])
    BY InvDevice
  <2> QED BY <2>1, NormalizeSound DEF Steady, Canonical
<1> HIDE DEF shown
<1>6. TrackedDoc(local) /\ Under(docs[d], local)
  <2>1. TrackedDoc(Write(docs[d], shown, RunClient[d]))
        /\ Under(docs[d], Write(docs[d], shown, RunClient[d]))
    BY <1>4, <1>5, WriteGrows
  <2> QED BY <1>4, <2>1, UnderSelf DEF PrePull
<1> HIDE DEF local
<1>7. TrackedDoc(merged) /\ Under(local, merged)
  BY <1>4, <1>6, JoinTracked, UnderJoin
<1> HIDE DEF merged
<1> HIDE DEF repaired, final, news, r
<1>8. repaired \in Workspaces
  <2>1. run'[d] = r
    BY <1>1, <1>2
  <2> QED BY <1>2, <1>3, <2>1 DEF Runs
<1>9. TrackedDoc(final) /\ Under(merged, final)
  <2>1. TrackedDoc(Write(merged, repaired, RunClient[d]))
        /\ Under(merged, Write(merged, repaired, RunClient[d]))
    BY <1>4, <1>7, <1>8, WriteGrows
  <2> QED BY <1>7, <2>1, UnderSelf DEF final
<1>10. Under(docs[d], final)
  BY <1>4, <1>6, <1>7, <1>9, UnderTransitive
<1>11. docs' = [docs EXCEPT ![d] = docs[d]]
  BY <1>1, <1>2
<1>12. Adds(d, docs[d], r)
  BY <1>1, <1>3, <1>4, <1>9, <1>10, <1>11, UnderSelf DEF Adds
<1> QED BY <1>12, Added

LEMMA FinishMerges ==
  ASSUME Inv, Inv', Merges, NEW d \in Devices, FinishRun(d)
  PROVE  Merges' /\ Grown
<1> DEFINE r == run[d]
           doc == IF r.stale THEN Join(docs[d], r.doc) ELSE r.doc
           landed == IF r.stale THEN Materialize(doc) ELSE r.ws
           again == Reasserted(landed, ws[d], edits[d] \cup r.sent)
           D == IF again = landed THEN doc ELSE Write(doc, again, StoreClient[d])
<1>1. /\ r.on /\ server' = Join(server, r.doc) /\ run' = [run EXCEPT ![d] = NoRun]
      /\ r.news => ws' = [ws EXCEPT ![d] = again] /\ docs' = [docs EXCEPT ![d] = D]
      /\ ~r.news => docs' = docs
  BY DEF FinishRun
<1>2. /\ docs \in [Devices -> Registers] /\ ws \in [Devices -> Workspaces]
      /\ ws' \in [Devices -> Workspaces]
  BY DEF Inv, TypeOK
<1>3. /\ TrackedDoc(server) /\ TrackedDoc(docs[d]) /\ TrackedDoc(r.doc)
      /\ ~r.stale => Under(docs[d], r.doc)
      /\ StoreClient[d] \in Int /\ TrackedDoc(NoRun.doc) /\ ~NoRun.on
  BY <1>1, DeviceMerges
<1>4. TrackedDoc(server') /\ Under(server, server')
  BY <1>1, <1>3, JoinTracked, UnderJoin
<1>5. TrackedDoc(doc) /\ Under(docs[d], doc)
  BY <1>3, JoinTracked, UnderJoin
<1> HIDE DEF r, doc, landed, again
<1>6. CASE r.news
  <2>1. again \in Workspaces
    BY <1>1, <1>2, <1>6
  <2>2. TrackedDoc(Write(doc, again, StoreClient[d]))
        /\ Under(doc, Write(doc, again, StoreClient[d]))
    BY <1>3, <1>5, <2>1, WriteGrows
  <2>3. TrackedDoc(D) /\ Under(docs[d], D)
    BY <1>3, <1>5, <2>2, UnderTransitive
  <2> HIDE DEF D
  <2>4. Adds(d, D, NoRun)
    BY <1>1, <1>3, <1>4, <1>6, <2>3 DEF Adds
  <2> QED BY <2>4, Added
<1>7. CASE ~r.news
  <2>1. docs' = [docs EXCEPT ![d] = docs[d]]
    BY <1>1, <1>2, <1>7
  <2>2. Adds(d, docs[d], NoRun)
    BY <1>1, <1>3, <1>4, <2>1, UnderSelf DEF Adds
  <2> QED BY <2>2, Added
<1> QED BY <1>6, <1>7

LEMMA LoseMerges ==
  ASSUME Inv, Merges, NEW d \in Devices, LoseAnswer(d)
  PROVE  Merges' /\ Grown
<1>1. /\ server' = Join(server, run[d].doc) /\ run' = [run EXCEPT ![d] = NoRun]
      /\ docs' = docs
  BY DEF LoseAnswer
<1>2. docs' = [docs EXCEPT ![d] = docs[d]]
  BY <1>1 DEF Inv, TypeOK
<1>3. /\ TrackedDoc(server) /\ TrackedDoc(docs[d]) /\ TrackedDoc(run[d].doc)
      /\ TrackedDoc(NoRun.doc) /\ ~NoRun.on
  BY DeviceMerges
<1>4. TrackedDoc(server') /\ Under(server, server')
  BY <1>1, <1>3, JoinTracked, UnderJoin
<1>5. Adds(d, docs[d], NoRun)
  BY <1>1, <1>2, <1>3, <1>4, UnderSelf DEF Adds
<1> QED BY <1>5, Added

LEMMA InitMerges ==
  ASSUME Init
  PROVE  Merges
<1>1. PICK start \in Starts : InitWith(start.home)
  BY DEF Init
<1> DEFINE w == StartOf(start.home)
           D == Write(NoRun.doc, w, 0)
<1>2. /\ server = D /\ docs = [d \in Devices |-> D] /\ run = [d \in Devices |-> NoRun]
  BY <1>1 DEF Init, InitWith, StartOf
<1>3. Canonical(w)
  BY IdsAssumption, StartCanonical
<1> HIDE DEF w
<1>4. TrackedDoc(NoRun.doc) /\ 0 \in Int /\ ~NoRun.on
  BY UnwrittenTracked DEF NoRun
<1>5. TrackedDoc(D)
  BY <1>3, <1>4, WriteGrows DEF Canonical
<1> HIDE DEF D
<1> QED BY <1>2, <1>4, <1>5 DEF Merges, Documents

LEMMA NextMerges ==
  ASSUME Inv, Merges, Next
  PROVE  Merges' /\ Grown
<1>1. Inv'
  BY NextInv
<1>2. PICK d \in Devices :
        (\E w, fields : Edit(d, w, fields)) \/ StartRun(d) \/ FinishRun(d) \/ LoseAnswer(d)
  BY DEF Next, Create, RenameFolder, MoveNode, ArchiveNode, RestoreNode, DestroyNode
<1> QED BY <1>1, <1>2, EditMerges, StartMerges, FinishMerges, LoseMerges

LEMMA StutterMerges ==
  ASSUME Merges, UNCHANGED vars
  PROVE  Merges' /\ Grown
<1>1. UNCHANGED <<server, docs, run>>
  BY DEF vars
<1>2. Merges'
  BY <1>1 DEF Merges, Documents
<1>3. TrackedDoc(server) /\ \A d \in Devices : TrackedDoc(docs[d])
  BY DEF Merges, Documents
<1> QED BY <1>1, <1>2, <1>3, UnderSelf DEF Grown

LEMMA SpecMerges == Spec => []Merges
<1>1. Init => Merges
  BY InitMerges
<1>2. Inv /\ Merges /\ [Next]_vars => Merges'
  BY NextMerges, StutterMerges
<1> QED BY <1>1, <1>2, SpecInv, PTL DEF Spec

\* However the documents of an account came about, by whatever edits, merges, repairs
\* and lost answers, merging them is a matter of what they hold and not of the order
\* in which, or the number of times, each meets the others: two devices that took in
\* the same documents have the same one.
THEOREM MergesAgree ==
  Spec => [](\A D, E, F \in Documents :
               /\ Join(D, E) = Join(E, D) /\ Join(D, D) = D
               /\ Join(D, Join(E, F)) = Join(Join(D, E), F))
<1>1. Merges => \A D, E, F \in Documents :
                  /\ Join(D, E) = Join(E, D) /\ Join(D, D) = D
                  /\ Join(D, Join(E, F)) = Join(Join(D, E), F)
  BY JoinSymmetric, JoinIdempotent, JoinAssociative DEF Merges
<1> QED BY <1>1, SpecMerges, PTL

\* No step takes a write back, on the server or on a device: what a document was is
\* under what it becomes, also when a run's result replaces it instead of being merged
\* into it, which is done only where nothing was edited since the run read it.
THEOREM HistoryGrows ==
  Spec => [][Under(server, server') /\ \A d \in Devices : Under(docs[d], docs'[d])]_vars
<1>1. Inv /\ Merges /\ [Next]_vars =>
        [Under(server, server') /\ \A d \in Devices : Under(docs[d], docs'[d])]_vars
  BY NextMerges DEF Grown
<1> QED BY <1>1, SpecInv, SpecMerges, PTL DEF Spec
=============================================================================
