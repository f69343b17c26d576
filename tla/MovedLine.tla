------------------------------- MODULE MovedLine -------------------------------
(***************************************************************************)
(* One line on several devices. A scheme is a document of its own, so a    *)
(* move is a removal in one document and an insertion in another, and two  *)
(* devices that move the line at once leave it in two documents. What a    *)
(* device shows is computed from the documents it holds; whoever finds a   *)
(* line in two of them removes the copies it does not show, and a line     *)
(* whose every copy was removed only because another copy existed is shown *)
(* again.                                                                  *)
(*                                                                         *)
(* A document's entry for the line is an observed-remove set of presence   *)
(* tags: `add`, the removed ones `rem`, and why they were removed: `mov`   *)
(* (it lives elsewhere now) or `del` (the user deleted it). Entries only   *)
(* grow and merge by union.                                                *)
(***************************************************************************)
EXTENDS Integers, Sequences, FiniteSetsExt

CONSTANTS
  Devices,    \* the account's devices
  Schemes,    \* the scheme documents, by id
  Home,       \* the scheme the line is in at first
  MaxActs,    \* bound on what users do and on answers lost, together
  MaxOps      \* bound on a device's unacknowledged commands

ASSUME DevicesAssumption == "seed" \notin Devices
ASSUME SchemesAssumption == Schemes \subseteq Nat /\ Home \in Schemes
ASSUME BoundsAssumption == MaxActs \in Nat /\ MaxOps \in Nat

VARIABLES
  server,  \* the server's documents
  docs,    \* each device's live documents
  view,    \* the schemes each device shows the line in
  ops,     \* the commands each device has not seen acknowledged
  undo,    \* the scheme an undo would put a deleted line back into
  run,     \* the sync run in flight on each device
  told,    \* what users asked for, and what each replica knows of it (ghost)
  acts,    \* user actions so far
  lost     \* answers lost so far

vars == <<server, docs, view, ops, undo, run, told, acts, lost>>

\* The tag every device gives a line it creates, and those that bring it back.
Seed == <<"seed", 0>>
Tag == {Seed} \cup (Devices \X Nat)

(***************************************************************************)
(* A document's entry for the line.                                        *)
(***************************************************************************)
Absent == [add |-> {}, rem |-> {}, mov |-> {}, del |-> {}]

Active(e) == e.add \ e.rem
Live(e) == Active(e) # {}

\* removed_only_as_a_placement
Placement(e) == ~Live(e) /\ e.rem # {} /\ e.rem \subseteq e.mov \ e.del

Union(e, f) == [add |-> e.add \cup f.add, rem |-> e.rem \cup f.rem,
                mov |-> e.mov \cup f.mov, del |-> e.del \cup f.del]
Join(D, E) == [s \in Schemes |-> Union(D[s], E[s])]

\* Mutants: every removal is a deletion; a removal is marked and not made.
TakeOutForGood(e, why) ==
  [e EXCEPT !.rem = @ \cup Active(e), !.del = @ \cup Active(e)]
MarkOnly(e, why) == [e EXCEPT !.del = @ \cup Active(e)]

\* tombstone_item
TakeOut(e, why) ==
  [e EXCEPT !.rem = @ \cup Active(e),
            !.mov = IF why = "moved" THEN @ \cup Active(e) ELSE @,
            !.del = IF why = "deleted" THEN @ \cup Active(e) ELSE @]

\* harden_removal
Harden(e) == [e EXCEPT !.del = @ \cup e.rem]

\* ensure_item_presence: the first tag is the same on every device, a tag that
\* brings a removed line back is this device's own.
Present(e, d) ==
  IF e = Absent THEN [e EXCEPT !.add = {Seed}]
  ELSE IF Live(e) THEN e
  ELSE [e EXCEPT !.add = @ \cup {<<d, Cardinality({t \in e.add : t # Seed})>>}]

(***************************************************************************)
(* What a device shows of its documents.                                   *)
(***************************************************************************)
Copies(D) == {s \in Schemes : Live(D[s])}
AnyCopy(D) == Copies(D) \cup {s \in Schemes : Placement(D[s])}

\* restore_lines_removed_only_as_placements
Restored(D) ==
  IF Copies(D) # {} THEN Copies(D)
  ELSE IF AnyCopy(D) = {} THEN {} ELSE {Min(AnyCopy(D))}

\* dedupe_materialized_items: the lowest scheme keeps the line.
Shown(D) == IF Restored(D) = {} THEN {} ELSE {Min(Restored(D))}
Hidden(D) == Restored(D) \ Shown(D)

(***************************************************************************)
(* Writing the documents: each scheme in `touched` is made to match what   *)
(* the device shows, except that a copy it does not show stays unless the  *)
(* command names it in `deleted`; `moved` says which of those are removed  *)
(* because the line lives elsewhere.                                       *)
(***************************************************************************)
\* A copy the device does not show.
Swept(e, s, deleted, moved) ==
  IF s \notin deleted THEN e
  ELSE IF Live(e) THEN TakeOut(e, IF s \in moved THEN "moved" ELSE "deleted")
  ELSE IF s \notin moved THEN Harden(e)
  ELSE e

Write(D, d, shown, touched, deleted, moved) ==
  [s \in Schemes |->
    IF s \notin touched THEN D[s]
    ELSE IF s \in shown THEN Present(D[s], d)
    ELSE Swept(D[s], s, deleted, moved)]

\* reconcile_item_placements: show the documents, remove the hidden copies.
Tidy(D, d) == Write(D, d, Shown(D), Hidden(D), Hidden(D), Hidden(D))

\* The documents and view after a move: an insertion into a scheme whose
\* document may hold the line already asks the documents, and tidies.
AfterMove(D, d, shown, from, to) ==
  LET moved == Write(D, d, shown, {from, to}, {from}, {from}) IN
  IF Cardinality(Copies(moved)) > 1
  THEN [docs |-> Tidy(moved, d), view |-> Shown(moved)]
  ELSE [docs |-> moved, view |-> shown]

(***************************************************************************)
(* The commands a device has not seen acknowledged.                        *)
(***************************************************************************)
Move(from, to) == [kind |-> "move", from |-> from, to |-> to]
Op(kind) == [kind |-> kind, from |-> Home, to |-> Home]

\* collect_move_placements, over the queue: the last move, unless a later command
\* deleted the line.
NoPlacement == Op("none")
Standing(q, after) ==
  {i \in DOMAIN q : /\ q[i].kind = "move"
                    /\ \A j \in DOMAIN q : j > i => q[j].kind \notin after}
Chosen(q, standing) ==
  IF standing = {} THEN NoPlacement ELSE q[CHOOSE i \in standing : TRUE]

\* Mutant: the last move, whatever came after.
PlacedEvenIfDeleted(q) == Chosen(q, Standing(q, {"move"}))

Placed(q) == Chosen(q, Standing(q, {"move", "delete"}))

NoRun == [on |-> FALSE, docs |-> [s \in Schemes |-> Absent], news |-> FALSE,
          sent |-> 0, knows |-> {}]

(***************************************************************************)
(* What users asked for (ghost): `kept` the wishes to have the line,       *)
(* `gone` the deletions, each with the wishes it was aware of, knows[d]    *)
(* what a replica has heard of, and `wrote` the presence tags written for  *)
(* a wish. A deletion that leaves another copy on show answers no wish,    *)
(* and is one to have that copy.                                           *)
(***************************************************************************)
Wrote(w, D, E) ==
  UNION {{w} \X {s} \X (E[s].add \ D[s].add) : s \in Schemes}

Keep(d) ==
  told' = [told EXCEPT !.kept = @ \cup {told.next},
                       !.wrote = @ \cup Wrote(told.next, docs[d], docs'[d]),
                       !.knows[d] = @ \cup {told.next},
                       !.next = @ + 1]
Delete(d, left) ==
  told' = [told EXCEPT !.kept = IF left = {} THEN @ ELSE @ \cup {told.next},
                       !.gone = @ \cup {<<told.next,
                                         IF left = {} THEN told.knows[d] ELSE {}>>},
                       !.wrote = @ \cup Wrote(told.next, docs[d], docs'[d]),
                       !.knows[d] = @ \cup {told.next},
                       !.next = @ + 1]

Act ==
  /\ acts + lost < MaxActs
  /\ acts' = acts + 1

\* A wish to have the line that no deletion known to K was aware of.
Wanted(K) ==
  \E w \in told.kept \cap K :
    \A g \in told.gone : g[1] \in K => w \notin g[2]
Deleted(K) == \E g \in told.gone : g[1] \in K

Init ==
  /\ server = [s \in Schemes |->
                IF s = Home THEN [Absent EXCEPT !.add = {Seed}] ELSE Absent]
  /\ docs = [d \in Devices |-> server]
  /\ view = [d \in Devices |-> {Home}]
  /\ ops = [d \in Devices |-> <<>>]
  /\ undo = [d \in Devices |-> {}]
  /\ run = [d \in Devices |-> NoRun]
  /\ told = [next |-> 1, kept |-> {0}, gone |-> {}, wrote |-> {<<0, Home, Seed>>},
             knows |-> [d \in Devices |-> {0}], server |-> {0}]
  /\ acts = 0
  /\ lost = 0

(***************************************************************************)
(* The users.                                                              *)
(***************************************************************************)
Queue(d, op) ==
  /\ Len(ops[d]) < MaxOps
  /\ ops' = [ops EXCEPT ![d] = Append(@, op)]

\* A batch that deletes the line here and inserts it there.
MoveLine(d, from, to) ==
  /\ from \in view[d]
  /\ to \notin view[d]
  /\ Queue(d, Move(from, to))
  /\ LET r == AfterMove(docs[d], d, (view[d] \ {from}) \cup {to}, from, to) IN
     /\ docs' = [docs EXCEPT ![d] = r.docs]
     /\ view' = [view EXCEPT ![d] = r.view]
  /\ Act /\ Keep(d)
  /\ UNCHANGED <<server, undo, run, lost>>

\* A deletion reaches every copy the device holds.
DeleteLine(d, s) ==
  /\ s \in view[d]
  /\ Queue(d, Op("delete"))
  /\ view' = [view EXCEPT ![d] = @ \ {s}]
  /\ LET all == AnyCopy(docs[d]) \cup {s} IN
     docs' = [docs EXCEPT ![d] = Write(@, d, view[d] \ {s}, all, all, {})]
  /\ undo' = [undo EXCEPT ![d] = {s}]
  /\ Act /\ Delete(d, view'[d])
  /\ UNCHANGED <<server, run, lost>>

UndoDelete(d) ==
  /\ undo[d] # {}
  /\ undo[d] \cap view[d] = {}
  /\ Queue(d, Op("insert"))
  /\ view' = [view EXCEPT ![d] = @ \cup undo[d]]
  /\ docs' = [docs EXCEPT ![d] = Write(@, d, view'[d], undo[d], {}, {})]
  /\ undo' = [undo EXCEPT ![d] = {}]
  /\ Act /\ Keep(d)
  /\ UNCHANGED <<server, run, lost>>

\* Any edit writes its whole scheme: one that shows a line brought back from a
\* removed copy makes that copy live. An edit that does not, and that no run
\* crosses, is left out.
EditScheme(d, s) ==
  /\ Queue(d, Op("edit"))
  /\ docs' = [docs EXCEPT ![d] = Write(@, d, view[d], {s}, {}, {})]
  /\ (run[d].on /\ docs[d][s] # Absent) \/ docs' # docs
  /\ Act
  /\ IF s \in view[d] /\ ~Live(docs[d][s]) THEN Keep(d) ELSE UNCHANGED told
  /\ UNCHANGED <<server, view, undo, run, lost>>

(***************************************************************************)
(* The sync run, on a copy of the documents: pull and merge; then push     *)
(* and, unless the answer was lost, land on the live workspace. Other      *)
(* devices and the user go on between the two; what is pushed was fixed by *)
(* the first, and the landing is local, so a step of somebody else between *)
(* push and landing changes neither. The server may also hand back what    *)
(* the device has sent, which counts as news.                              *)
(***************************************************************************)
Pull(d) ==
  /\ ~run[d].on
  /\ LET pulled == Join(server, docs[d])
         differs == pulled # docs[d] \/ Shown(pulled) # view[d]
     IN
     \E news \in {TRUE, differs} :
       run' = [run EXCEPT ![d] =
         [on |-> TRUE, docs |-> pulled, news |-> news, sent |-> Len(ops[d]),
          knows |-> told.server \cup told.knows[d]]]
  /\ UNCHANGED <<server, docs, view, ops, undo, told, acts, lost>>

\* The server took the push and the device never hears of it.
LoseAnswer(d) ==
  /\ run[d].on
  /\ acts + lost < MaxActs
  /\ lost' = lost + 1
  /\ server' = Join(server, run[d].docs)
  /\ told' = [told EXCEPT !.server = @ \cup run[d].knows]
  /\ run' = [run EXCEPT ![d] = NoRun]
  /\ UNCHANGED <<docs, view, ops, undo, acts>>

\* The commands a push did not carry. Mutant: repairs are never acknowledged.
UnsentAndRepairs(q, n) ==
  SelectSeq(SubSeq(q, 1, n), LAMBDA o : o.kind \in {"tidy", "insert"})
  \o SubSeq(q, n + 1, Len(q))
Unsent(q, n) == SubSeq(q, n + 1, Len(q))

\* reassert_local_item_placements: this device's own move, if the landing undid it.
Reassert(D, shown, d, p) ==
  IF p.kind = "none" \/ p.to \in shown
  THEN [docs |-> D, view |-> shown, ops |-> <<>>]
  ELSE IF p.from \in shown
  THEN LET r == AfterMove(D, d, (shown \ {p.from}) \cup {p.to}, p.from, p.to) IN
       [docs |-> r.docs, view |-> r.view, ops |-> <<p>>]
  ELSE [docs |-> Write(D, d, shown \cup {p.to}, {p.to}, {}, {}),
        view |-> shown \cup {p.to}, ops |-> <<Op("insert")>>]

Reconcile(r, d) ==
  [docs |-> Tidy(r.docs, d), view |-> Shown(r.docs),
   ops |-> IF Hidden(r.docs) = {} THEN r.ops ELSE Append(r.ops, Op("tidy"))]

\* adopt_sync_workspace: the run's documents, merged into the live ones if the
\* user went on editing.
Edited(d) == Len(ops[d]) > run[d].sent
Adopted(d) == IF Edited(d) THEN Join(docs[d], run[d].docs) ELSE run[d].docs

\* Without edits in flight, an undo step is dropped if the landing touched its line.
Invalidated(d, shown) ==
  IF ~Edited(d) /\ shown # view[d] THEN {} ELSE undo[d]

\* A run that brought nothing new leaves the live workspace alone. A landing that
\* makes a move again while the line is still wanted renews the wish.
Land(d) ==
  /\ run[d].on
  /\ LET heard == told.knows[d] \cup run[d].knows
         merged == Adopted(d)
         rest == Unsent(ops[d], run[d].sent)
         fixed == Reassert(merged, Shown(merged), d, Placed(ops[d]))
         changed == Edited(d) \/ Shown(merged) # view[d] \/ fixed.ops # <<>>
         done == IF changed THEN Reconcile(fixed, d) ELSE fixed
         renewed == IF run[d].news /\ fixed.ops # <<>> /\ Wanted(heard)
                    THEN {told.next} ELSE {}
     IN
     /\ \/ /\ run[d].news
           /\ docs' = [docs EXCEPT ![d] = done.docs]
           /\ view' = [view EXCEPT ![d] = done.view]
           /\ ops' = [ops EXCEPT ![d] = rest \o done.ops]
           /\ undo' = [undo EXCEPT ![d] = Invalidated(d, Shown(merged))]
        \/ /\ ~run[d].news
           /\ ops' = [ops EXCEPT ![d] = rest]
           /\ UNCHANGED <<docs, view, undo>>
     /\ told' = [told EXCEPT !.server = @ \cup run[d].knows,
                             !.knows[d] = heard \cup renewed,
                             !.kept = @ \cup renewed,
                             !.wrote = IF renewed = {} THEN @
                                       ELSE @ \cup Wrote(told.next, merged, docs'[d]),
                             !.next = IF renewed = {} THEN @ ELSE @ + 1]
  /\ server' = Join(server, run[d].docs)
  /\ run' = [run EXCEPT ![d] = NoRun]
  /\ UNCHANGED <<acts, lost>>

UserActs(d) ==
  \/ \E s, t \in Schemes : MoveLine(d, s, t)
  \/ \E s \in Schemes : DeleteLine(d, s) \/ EditScheme(d, s)
  \/ UndoDelete(d)
Sync(d) == Pull(d) \/ Land(d) \/ LoseAnswer(d)

Next == \E d \in Devices : UserActs(d) \/ Sync(d)

Spec == Init /\ [][Next]_vars

\* The scheduler starts another run for as long as a device is open, and a run
\* ends: LoseAnswer is the only way it may not land, and bounded.
FairSpec == Spec /\ \A d \in Devices : []<><<run'[d].on # run[d].on>>_vars

(***************************************************************************)
(* Properties.                                                             *)
(***************************************************************************)
Entry == [add : SUBSET Tag, rem : SUBSET Tag, mov : SUBSET Tag, del : SUBSET Tag]
Command == [kind : {"none", "move", "delete", "insert", "edit", "tidy"},
            from : Schemes, to : Schemes]
Run == [on : BOOLEAN, docs : [Schemes -> Entry], news : BOOLEAN, sent : Nat,
        knows : SUBSET Nat]
Told == [next : Nat, kept : SUBSET Nat, gone : SUBSET (Nat \X SUBSET Nat),
         wrote : SUBSET (Nat \X Schemes \X Tag), knows : [Devices -> SUBSET Nat],
         server : SUBSET Nat]

\* Types; and an entry removes only what was added, and says why of nothing else
\* and of all that.
WellFormed(e) == e.rem \subseteq e.add /\ e.mov \cup e.del = e.rem
TypeOK ==
  /\ server \in [Schemes -> Entry]
  /\ docs \in [Devices -> [Schemes -> Entry]]
  /\ \A s \in Schemes : WellFormed(server[s]) /\ \A d \in Devices : WellFormed(docs[d][s])
  /\ view \in [Devices -> SUBSET Schemes]
  /\ ops \in [Devices -> Seq(Command)]
  /\ undo \in [Devices -> SUBSET Schemes]
  /\ run \in [Devices -> Run]
  /\ told \in Told
  /\ acts \in 0..MaxActs /\ lost \in 0..MaxActs

\* A line is shown somewhere for as long as the device knows of no deletion,
\* however many devices move it and wherever the runs cross.
NeverLost ==
  \A d \in Devices : ~Deleted(told.knows[d]) => view[d] # {}

\* A line somebody deleted is shown only if somebody else, not knowing, wanted it:
\* moved it, brought it back, or edited the scheme that showed it; while no answer
\* is lost.
StaysDeleted ==
  lost = 0 => \A d \in Devices : view[d] # {} => Wanted(told.knows[d])

\* The same whatever is lost.
DeletionStands == \A d \in Devices : view[d] # {} => Wanted(told.knows[d])

\* Devices stop correcting each other: in the end nobody owes anything and all
\* show the same.
Settles ==
  <>[](\A d \in Devices :
         docs[d] = server /\ ops[d] = <<>> /\ view[d] = Shown(server))
=============================================================================
