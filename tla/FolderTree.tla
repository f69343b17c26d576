------------------------------ MODULE FolderTree ------------------------------
(***************************************************************************)
(* The workspace index: the account's folders and schemes, where each is   *)
(* and what is in the trash. It is one document, edited offline by every   *)
(* device, one key per field; merging two legal edits can give a tree no   *)
(* device would have made: folders inside each other, a scheme in a folder *)
(* that is in the trash, a child of a folder that was destroyed. What a    *)
(* device shows is read from the document, and every sync run normalises   *)
(* it and writes the repair back, so that a repair is an edit too.         *)
(*                                                                         *)
(* A document maps keys to registers. A register is the winning write:     *)
(* where it stands among all writes (`at`, those it was written on top of, *)
(* each with its client), its value, and whether it was removed since.      *)
(* Values are sequences of numbers.                                        *)
(***************************************************************************)
EXTENDS Integers, Sequences, FiniteSets, SequencesExt, FiniteSetsExt

CONSTANTS
  Devices,      \* the account's devices
  Folders,      \* folder ids, the root excepted
  Schemes,      \* scheme ids
  Renamable,    \* the folders users rename
  StoreClient,  \* the client each device's store writes as
  RunClient,    \* the client each device's sync runs write as
  Starts        \* where it may start: each node's folder, of those that exist, and
                \* how much each device's user may do and how many answers it may miss

Root == 0
Nil == -1   \* no folder, no origin
Gone == -2  \* the origin that records a permanent deletion

Dirs == Folders \cup {Root}
Nodes == Folders \cup Schemes

ASSUME IdsAssumption ==
  /\ Devices \subseteq Nat \ {0}
  /\ Folders \subseteq Nat \ {Root} /\ Schemes \subseteq Nat \ {Root}
  /\ Folders \cap Schemes = {} /\ Folders # {} /\ Renamable \subseteq Folders
  /\ IsFiniteSet(Folders)
  /\ \A start \in Starts :
       /\ DOMAIN start.home \subseteq Nodes
       /\ \A n \in DOMAIN start.home :
            start.home[n] \in (Folders \cap DOMAIN start.home) \cup {Root}
       /\ start.acts \in [Devices -> Nat]
ASSUME ClientsAssumption ==
  /\ StoreClient \in [Devices -> Nat] /\ RunClient \in [Devices -> Nat]

VARIABLES
  server,   \* the server's document
  docs,     \* each device's document
  ws,       \* each device's workspace, what it shows
  run,      \* the sync run in flight on each device
  edits,    \* the folder fields each device has unacknowledged edits of
  made,     \* the nodes users made (ghost)
  wrecked,  \* the nodes users destroyed for good (ghost)
  named,    \* the folders users renamed (ghost)
  acts      \* what each device's user may still do, and lost answers (bound)

vars == <<server, docs, ws, run, edits, made, wrecked, named, acts>>

(***************************************************************************)
(* Documents.                                                              *)
(***************************************************************************)
Keys == ({"node", "kid", "trash", "origin"} \X Nodes) \cup ({"name", "up"} \X Folders)
Unwritten == [at |-> <<>>, val |-> <<>>, gone |-> TRUE]

\* The order of the writes to one key: a client writes on top of the winner it
\* sees, and of two on top of the same one the higher client's is later. Every
\* run writes as a client of its own: of two by runs of one device on top of the
\* same winner one is later, and the two are told apart by their value alone. A write
\* is the client and the value.
Later(x, y) == \E i \in 1..Len(x) : SubSeq(x, 1, i - 1) = SubSeq(y, 1, i - 1) /\ x[i] > y[i]
After(p, q) ==
  \E i \in 1..Len(p) : /\ i <= Len(q) + 1 /\ SubSeq(p, 1, i - 1) = SubSeq(q, 1, i - 1)
                       /\ i > Len(q) \/ Later(p[i], q[i])

Winner(r, s) == IF r.at = s.at THEN [r EXCEPT !.gone = r.gone \/ s.gone]
                ELSE IF After(r.at, s.at) THEN r ELSE s
Join(D, E) == [k \in Keys |-> Winner(D[k], E[k])]

Held(D, k) == ~D[k].gone
Origin(D, n) == IF Held(D, <<"origin", n>>) THEN D[<<"origin", n>>].val[1] ELSE Nil

\* Mutant: the whole node's entry is what counts.
FieldOfNode(D, f, n) ==
  D[<<"node", n>>].val[CASE f = "kid" -> 1 [] f = "up" -> 2 [] f = "name" -> 3]

\* A node's entry holds the whole node too, as older builds read it; its fields'
\* own keys are what counts where there are any.
Field(D, f, n) == IF Held(D, <<f, n>>) THEN D[<<f, n>>].val[1]
                  ELSE D[<<"node", n>>].val[CASE f = "kid" -> 1 [] f = "up" -> 2 [] f = "name" -> 3]

(***************************************************************************)
(* Workspaces. `kid[n]` is the folder that lists n among its children, `up`*)
(* a folder's own idea of its parent.                                      *)
(***************************************************************************)
Has(w) == w.folders \cup w.schemes
Bare == [folders |-> {Root}, schemes |-> {}, kid |-> [n \in Nodes |-> Nil],
         up |-> [f \in Folders |-> Nil], name |-> [f \in Folders |-> 0],
         trash |-> {}, origin |-> [n \in Nodes |-> Nil]]

\* The folders reached from `from` down the child lists that stay in `within`: the
\* least set with `from` in it and every such folder that one of the set lists.
Below(kid, from, within) ==
  LET inside == Folders \cap within
      closed == {S \in SUBSET (from \cup inside) :
                   from \subseteq S /\ \A f \in inside : kid[f] \in S => f \in S}
  IN {n \in from \cup inside : \A S \in closed : n \in S}

\* archived_folder_subtree_ids
Archived(w) == Below(w.kid, w.trash \cap w.folders, w.folders)
\* subtree_folder_ids, subtree_scheme_ids
FoldersIn(w, f) == Below(w.kid, {f}, w.folders)
SchemesIn(w, f) == LET within == FoldersIn(w, f) IN {s \in w.schemes : w.kid[s] \in within}

\* archive_coherence_violations is empty, and nothing is out of reach: every
\* folder hangs from the root or from the trash, and every scheme is in one of
\* these or in the trash by itself.
Sound(w) ==
  LET live == Below(w.kid, {Root}, w.folders \ w.trash)
      binned == Archived(w)
  IN
  /\ Root \in w.folders
  /\ w.folders \subseteq live \cup binned
  /\ \A f \in (w.folders \cap live) \ {Root} : w.up[f] = w.kid[f]
  /\ \A s \in w.schemes :
       IF s \in w.trash THEN w.kid[s] \in binned \cup {Nil} ELSE w.kid[s] \in live
  /\ w.trash \subseteq Has(w)

(***************************************************************************)
(* replace_snapshot: the document is made to hold the workspace and nothing*)
(* else, and only the keys whose value changes are written.                *)
(***************************************************************************)
Desired(w) ==
  [k \in Keys |->
    LET n == k[2]
        kept == n \in Has(w) /\ w.origin[n] # Gone
    IN CASE k[1] = "node"   -> [on |-> kept, val |-> IF n \in Schemes THEN <<w.kid[n]>>
                                                     ELSE <<w.kid[n], w.up[n], w.name[n]>>]
         [] k[1] = "kid"    -> [on |-> kept, val |-> <<w.kid[n]>>]
         [] k[1] = "up"     -> [on |-> kept, val |-> <<w.up[n]>>]
         [] k[1] = "name"   -> [on |-> kept, val |-> <<w.name[n]>>]
         [] k[1] = "trash"  -> [on |-> n \in w.trash /\ w.origin[n] # Gone, val |-> <<1>>]
         [] k[1] = "origin" -> [on |-> w.origin[n] # Nil, val |-> <<w.origin[n]>>]]

\* sync_string_map
Put(r, want, c) ==
  IF ~want.on THEN [r EXCEPT !.gone = TRUE]
  ELSE IF ~r.gone /\ r.val = want.val THEN r
  ELSE [at |-> Append(r.at, <<c>> \o want.val), val |-> want.val, gone |-> FALSE]

Write(D, w, c) == LET want == Desired(w) IN [k \in Keys |-> Put(D[k], want[k], c)]

(***************************************************************************)
(* snapshot: the workspace a document stands for. A node whose folder is   *)
(* not there is the root's; what is in the trash hangs from nothing.       *)
(***************************************************************************)
Materialize(D) ==
  LET dead == {n \in Nodes : Origin(D, n) = Gone}
      present == {n \in Nodes : Held(D, <<"node", n>>)} \ dead
      dirs == (present \cap Folders) \cup {Root}
      binned == {n \in Nodes : Held(D, <<"trash", n>>)}
      parent == [n \in Nodes |-> IF n \in present THEN Field(D, "kid", n) ELSE Nil]
      archived == Below(parent, binned \cap dirs, dirs)
      home(n) == IF parent[n] \in dirs THEN parent[n] ELSE Root
      loose(n) == IF n \in Folders THEN n \in binned
                  ELSE n \in binned /\ parent[n] \notin archived
  IN [folders |-> dirs,
      schemes |-> present \cap Schemes,
      kid |-> [n \in Nodes |-> IF n \notin present \/ loose(n) THEN Nil ELSE home(n)],
      up |-> [f \in Folders |->
               IF f \notin present THEN Nil
               ELSE IF f \in binned THEN Field(D, "up", f) ELSE home(f)],
      name |-> [f \in Folders |-> IF f \in present THEN Field(D, "name", f) ELSE 0],
      trash |-> binned \ dead,
      origin |-> [n \in Nodes |-> Origin(D, n)]]

(***************************************************************************)
(* normalize_one_level_folders.                                            *)
(***************************************************************************)
\* normalize_folder_tree from the root: the folders it visits, and the lists it
\* leaves there: no folder in the trash, no scheme in the trash.
Visited(w) == Below(w.kid, {Root}, w.folders \ w.trash)
Walk(w) ==
  LET visited == Visited(w) IN
  [w EXCEPT !.kid = [n \in Nodes |->
                      IF w.kid[n] \in visited /\ n \notin Has(w) \ w.trash
                      THEN Nil ELSE w.kid[n]],
            !.up = [f \in Folders |-> IF f \in visited THEN w.kid[f] ELSE w.up[f]]]

\* ancestry_cycles: following the parents from f never leads out of the folders
\* there are, the root excepted.
Cycles(w, f) ==
  LET ends == (Dirs \cup {Nil}) \ (w.folders \ {Root})
  IN f \notin Below(w.up, ends, w.folders)

\* Folders that form a cycle out of reach.
Stranded(w) ==
  {f \in w.folders \ (Visited(w) \cup Archived(w)) : Cycles(w, f)}

\* Mutant: folders nothing leads to are dropped.
DropStranded(w) == w

\* One of them is taken to the root, and the walk begins again, while there are any.
ToRoot(w, f) == [w EXCEPT !.kid[f] = Root, !.up[f] = Root]
RescueOne(w) ==
  IF Stranded(w) = {} THEN w ELSE Walk(ToRoot(w, Min(Stranded(w))))
Rescue(w) ==
  LET step[i \in 0..Cardinality(Folders)] == IF i = 0 THEN w ELSE RescueOne(step[i - 1])
  IN step[Cardinality(Folders)]

\* Mutant: the schemes of a folder that another device put in the trash are not
\* put there with it.
SettleFoldersOnly(w) ==
  LET folders == w.folders \cap (Visited(w) \cup Archived(w))
      placed == {s \in w.schemes : w.kid[s] \in Visited(w)}
      trash == (w.trash \cap folders) \cup ((w.trash \cap w.schemes) \ placed)
  IN [w EXCEPT !.folders = folders, !.trash = trash,
               !.kid = [n \in Nodes |-> IF n \in Has(w) /\ w.kid[n] = Nil /\ n \notin trash \cup {Root}
                                        THEN Root ELSE w.kid[n]]]

\* Mutant: what is not in the trash keeps no origin.
SettleClearing(w) ==
  LET binned == Archived(w)
      placed == {s \in w.schemes : w.kid[s] \in Visited(w)}
      archived == {s \in w.schemes : w.kid[s] \in binned}
      trash == (w.trash \cap w.folders) \cup archived \cup ((w.trash \cap w.schemes) \ placed)
  IN [w EXCEPT !.trash = trash,
               !.origin = [n \in Nodes |-> IF n \in trash THEN w.origin[n] ELSE Nil]]

\* What is kept: the folders something leads to, the trash, and at the root
\* every scheme that neither a folder nor the trash holds.
Settle(w) ==
  LET visited == Visited(w)
      binned == Archived(w)
      folders == w.folders \cap (visited \cup binned)
      placed == {s \in w.schemes : w.kid[s] \in visited}
      archived == {s \in w.schemes : w.kid[s] \in binned}
      trash == (w.trash \cap folders) \cup archived \cup ((w.trash \cap w.schemes) \ placed)
      stray == {s \in w.schemes \ (placed \cup trash) : w.origin[s] # Gone}
      held == folders \cup placed \cup trash \cup stray
  IN [w EXCEPT
       !.folders = folders,
       !.schemes = held \cap Schemes,
       !.trash = trash,
       !.kid = [n \in Nodes |-> IF n \in stray THEN Root
                                ELSE IF n \in held /\ w.kid[n] \in folders THEN w.kid[n]
                                ELSE Nil],
       !.origin = [n \in Nodes |->
                    IF n \in trash \/ n \notin Has(w) \/ w.origin[n] = Gone
                    THEN w.origin[n] ELSE Nil]]

Normalize(w) == Settle(Rescue(Walk(w)))

(***************************************************************************)
(* The commands: what each needs, and what it does.                        *)
(***************************************************************************)
\* is_valid_scheme_parent, validate_depth_for_node
ValidParent(w, p) == p \in w.folders \ Archived(w)

\* is_descendant: b is above a.
Above(w, a, b) == a \in Below(w.up, {b}, Folders) \ {b}

Fresh(w, n, p) ==
  LET v == [w EXCEPT !.kid[n] = p] IN
  IF n \in Schemes THEN [v EXCEPT !.schemes = @ \cup {n}]
  ELSE [v EXCEPT !.folders = @ \cup {n}, !.up[n] = p]

\* reconcile_archive_membership: a scheme in a folder is in the trash exactly
\* when the folder is inside one that is.
Reconciled(w) ==
  LET binned == Archived(w)
      inside == {s \in w.schemes : w.kid[s] \in binned}
      outside == {s \in w.schemes : w.kid[s] # Nil} \ inside
  IN [w EXCEPT !.trash = (@ \cup inside) \ outside,
               !.origin = [n \in Nodes |-> IF n \in outside THEN Nil ELSE w.origin[n]]]

\* move_node
Moved(w, n, p) ==
  IF n \in Schemes THEN [w EXCEPT !.kid[n] = p]
  ELSE Reconciled([w EXCEPT !.kid[n] = p, !.up[n] = p])

CanMove(w, n, p) ==
  /\ n \in Has(w) /\ w.kid[n] # Nil /\ ValidParent(w, p)
  /\ IF n \in Schemes THEN n \notin w.trash ELSE p # n /\ ~Above(w, p, n)

\* delete_scheme, delete_folder
CanArchive(w, n) ==
  /\ n \in Has(w) /\ w.kid[n] # Nil
  /\ n \in Folders => w.up[n] = w.kid[n]

\* Mutant: the place a node was in is not read before the node is taken from it.
ArchiveTooLate(w, n) ==
  [w EXCEPT !.kid[n] = Nil, !.origin[n] = n,
            !.trash = @ \cup {n} \cup (IF n \in Folders THEN SchemesIn(w, n) ELSE {})]

Archive(w, n) ==
  [w EXCEPT !.kid[n] = Nil, !.origin[n] = w.kid[n],
            !.trash = @ \cup {n} \cup (IF n \in Folders THEN SchemesIn(w, n) ELSE {})]

\* restore_scheme, restore_folder
CanRestore(w, n, p) ==
  p \in w.folders /\ (n \in Schemes => ValidParent(w, p) /\ n \in w.schemes)
Restore(w, n, p) ==
  LET back == {n} \cup (IF n \in Folders THEN SchemesIn(w, n) ELSE {})
      v == [w EXCEPT !.kid[n] = p, !.trash = @ \ back,
                     !.origin = [m \in Nodes |-> IF m \in back THEN Nil ELSE w.origin[m]]]
  IN IF n \in Schemes THEN v ELSE [v EXCEPT !.up[n] = p]

\* permanently_delete_scheme, permanently_delete_folder: the folder goes with
\* everything below it, and each leaves a tombstone.
Doomed(w, n) == {n} \cup (IF n \in Folders THEN FoldersIn(w, n) \cup SchemesIn(w, n) ELSE {})

Destroyed(w, n) ==
  LET doomed == Doomed(w, n) IN
  [w EXCEPT !.folders = @ \ doomed, !.schemes = @ \ doomed, !.trash = @ \ doomed,
            !.kid = [m \in Nodes |-> IF m \in doomed THEN Nil ELSE w.kid[m]],
            !.up = [f \in Folders |-> IF f \in doomed THEN Nil ELSE w.up[f]],
            !.name = [f \in Folders |-> IF f \in doomed THEN 0 ELSE w.name[f]],
            !.origin = [m \in Nodes |-> IF m \in doomed THEN Gone ELSE w.origin[m]]]

(***************************************************************************)
(* What users do. Each is one command: the workspace changes and the store *)
(* writes it to its document.                                              *)
(***************************************************************************)
NoRun == [on |-> FALSE, doc |-> [k \in Keys |-> Unwritten], ws |-> Bare,
          news |-> FALSE, stale |-> FALSE, sent |-> {}]

Edit(d, w, fields) ==
  /\ acts[d] > 0
  /\ acts' = [acts EXCEPT ![d] = @ - 1]
  /\ ws' = [ws EXCEPT ![d] = w]
  /\ docs' = [docs EXCEPT ![d] = Write(@, w, StoreClient[d])]
  /\ edits' = [edits EXCEPT ![d] = @ \cup fields]
  /\ run' = [run EXCEPT ![d].stale = @ \/ run[d].on]
  /\ UNCHANGED server

\* create_scheme, create_folder
Create(d, n, p) ==
  /\ n \notin made /\ p \in ws[d].folders
  /\ n \in Schemes => ValidParent(ws[d], p)
  /\ Edit(d, Fresh(ws[d], n, p), {})
  /\ made' = made \cup {n}
  /\ UNCHANGED <<wrecked, named>>

\* rename_folder
RenameFolder(d, f) ==
  /\ f \in ws[d].folders \cap Renamable
  /\ Edit(d, [ws[d] EXCEPT !.name[f] = d], {<<f, "name">>})
  /\ named' = named \cup {f}
  /\ UNCHANGED <<made, wrecked>>

\* The sidebar's tree shows nothing that is in the trash.
Listed(w, n) == n \notin w.trash \cup Archived(w)

MoveNode(d, n, p) ==
  /\ Listed(ws[d], n) /\ CanMove(ws[d], n, p)
  /\ Edit(d, Moved(ws[d], n, p), {})
  /\ UNCHANGED <<made, wrecked, named>>

ArchiveNode(d, n) ==
  /\ Listed(ws[d], n) /\ CanArchive(ws[d], n)
  /\ Edit(d, Archive(ws[d], n), IF n \in Folders THEN {<<n, "archived">>} ELSE {})
  /\ UNCHANGED <<made, wrecked, named>>

\* The archive offers its folders, its schemes and those inside its folders.
RestoreNode(d, n, p) ==
  /\ n \in ws[d].trash /\ n \in Has(ws[d])
  /\ ValidParent(ws[d], p)
  /\ Edit(d, Restore(ws[d], n, p), IF n \in Folders THEN {<<n, "archived">>} ELSE {})
  /\ UNCHANGED <<made, wrecked, named>>

DestroyNode(d, n) ==
  /\ n \in ws[d].trash /\ n \in Has(ws[d])
  /\ Edit(d, Destroyed(ws[d], n), {})
  /\ wrecked' = wrecked \cup Doomed(ws[d], n)
  /\ UNCHANGED <<made, named>>

(***************************************************************************)
(* A sync run.                                                             *)
(***************************************************************************)
\* workspace_folder_records_match compares these.
FolderRecords(w) == [folders |-> w.folders, up |-> w.up, name |-> w.name,
                     trash |-> w.trash \cap Folders,
                     origin |-> [f \in Folders |-> w.origin[f]]]

\* queue_local_only_documents_before_pull: the workspace on screen is written first
\* if its folders are not the document's.
PrePull(D, shown, c) ==
  IF FolderRecords(shown) = FolderRecords(Materialize(D)) THEN D ELSE Write(D, shown, c)

\* Mutant: a repair is not written back.
StartRunUnrepaired(d) ==
  LET shown == Normalize(ws[d])
      local == PrePull(docs[d], shown, RunClient[d])
      merged == Join(local, server)
      read == Materialize(merged)
  IN /\ ~run[d].on
     /\ run' = [run EXCEPT ![d] =
                 [on |-> TRUE, doc |-> merged, ws |-> Normalize(read), stale |-> FALSE,
                  news |-> Join(docs[d], server) # docs[d] \/ read # shown \/ Normalize(read) # read,
                  sent |-> edits[d]]]
     /\ edits' = [edits EXCEPT ![d] = {}]
     /\ UNCHANGED <<server, docs, ws, made, wrecked, named, acts>>

\* The pull: the server's document is merged in, the result read, normalised, and
\* written back if that changed it. A run that wrote before it what the server
\* already holds takes the server's for news: it is another client's write.
StartRun(d) ==
  LET shown == Normalize(ws[d])
      local == PrePull(docs[d], shown, RunClient[d])
      merged == Join(local, server)
      read == Materialize(merged)
      repaired == Normalize(read)
      final == IF repaired = read THEN merged ELSE Write(merged, repaired, RunClient[d])
  IN /\ ~run[d].on
     /\ run' = [run EXCEPT ![d] =
                 [on |-> TRUE, doc |-> final, ws |-> repaired, stale |-> FALSE,
                  news |-> Join(docs[d], server) # docs[d] \/ read # shown \/ repaired # read,
                  sent |-> edits[d]]]
     /\ edits' = [edits EXCEPT ![d] = {}]
     /\ UNCHANGED <<server, docs, ws, made, wrecked, named, acts>>

\* reassert_local_folder_edits: what the device had edited and what landed is not
\* the same, so the edit is made again: the name, the folder's being in the trash
\* or not, and, for a folder out of it, its schemes too.
Renamed(w, was, f) == [w EXCEPT !.name[f] = was.name[f]]
Rebinned(w, was, f) ==
  IF f \in was.trash
  THEN IF CanArchive(w, f) THEN Archive(w, f) ELSE w
  ELSE LET p == IF was.up[f] = Nil THEN Root ELSE was.up[f] IN
       IF CanRestore(w, f, p) THEN Restore(w, f, p) ELSE w
\* Its schemes that landed in the trash come out of it and into the folder itself,
\* where a scheme may be in it at all, those its restore has brought back included.
Unbinned(w, landed, was, f) ==
  LET back == SchemesIn(was, f) \cap w.schemes \cap landed.trash
  IN IF ~ValidParent(w, f) THEN w
     ELSE [w EXCEPT !.trash = @ \ back,
                    !.kid = [n \in Nodes |-> IF n \in back THEN f ELSE w.kid[n]],
                    !.origin = [n \in Nodes |-> IF n \in back THEN Nil ELSE w.origin[n]]]

\* Of one folder, against what landed, `landed`; `was` is what the device showed before.
ReassertOne(w, landed, was, fields, f) ==
  LET differs == <<f, "archived">> \in fields /\ (f \in was.trash) # (f \in landed.trash)
      named1 == IF <<f, "name">> \in fields THEN Renamed(w, was, f) ELSE w
      binned == IF differs THEN Rebinned(named1, was, f) ELSE named1
  IN IF <<f, "archived">> \in fields /\ f \notin was.trash
     THEN Unbinned(binned, landed, was, f) ELSE binned

\* Folder after folder, in the order of their ids.
Reasserted(landed, was, fields) ==
  LET step[i \in 0..Max(Folders)] ==
        IF i \notin Folders \cap was.folders \cap landed.folders
        THEN IF i = 0 THEN landed ELSE step[i - 1]
        ELSE ReassertOne(step[i - 1], landed, was, fields, i)
  IN step[Max(Folders)]

\* The push, and the landing right after it. What the device edited during the
\* run is not in its result, so the result is merged; otherwise it is adopted.
FinishRun(d) ==
  LET r == run[d]
      doc == IF r.stale THEN Join(docs[d], r.doc) ELSE r.doc
      landed == IF r.stale THEN Materialize(doc) ELSE r.ws
      again == Reasserted(landed, ws[d], edits[d] \cup r.sent)
  IN /\ r.on
     /\ server' = Join(server, r.doc)
     /\ IF r.news
        THEN /\ ws' = [ws EXCEPT ![d] = again]
             /\ docs' = [docs EXCEPT ![d] =
                          IF again = landed THEN doc ELSE Write(doc, again, StoreClient[d])]
             /\ edits' = [edits EXCEPT ![d] = @ \cup
                  {e \in r.sent : IF e[2] = "name" THEN again.name[e[1]] # landed.name[e[1]]
                                  ELSE (e[1] \in again.trash) # (e[1] \in landed.trash)}]
        ELSE UNCHANGED <<ws, docs, edits>>
     /\ run' = [run EXCEPT ![d] = NoRun]
     /\ UNCHANGED <<made, wrecked, named, acts>>

\* The server has the push, the device never hears of it and will send it again.
LoseAnswer(d) ==
  /\ run[d].on /\ acts[d] > 0
  /\ acts' = [acts EXCEPT ![d] = @ - 1]
  /\ server' = Join(server, run[d].doc)
  /\ edits' = [edits EXCEPT ![d] = @ \cup run[d].sent]
  /\ run' = [run EXCEPT ![d] = NoRun]
  /\ UNCHANGED <<docs, ws, made, wrecked, named>>

(***************************************************************************)
InitWith(home) ==
  LET w == [Bare EXCEPT
             !.folders = {Root} \cup (Folders \cap DOMAIN home),
             !.schemes = Schemes \cap DOMAIN home,
             !.kid = [n \in Nodes |-> IF n \in DOMAIN home THEN home[n] ELSE Nil],
             !.up = [f \in Folders |-> IF f \in DOMAIN home THEN home[f] ELSE Nil]]
      D == Write(NoRun.doc, w, 0)
  IN /\ server = D
     /\ docs = [d \in Devices |-> D]
     /\ ws = [d \in Devices |-> w]
     /\ made = DOMAIN home

Init ==
  /\ \E start \in Starts : InitWith(start.home) /\ acts = start.acts
  /\ run = [d \in Devices |-> NoRun]
  /\ edits = [d \in Devices |-> {}]
  /\ wrecked = {} /\ named = {}

Next ==
  \E d \in Devices :
    \/ \E n \in Nodes, p \in Dirs : Create(d, n, p)
    \/ \E f \in Folders : RenameFolder(d, f)
    \/ \E n \in Nodes, p \in Dirs : MoveNode(d, n, p)
    \/ \E n \in Nodes : ArchiveNode(d, n)
    \/ \E n \in Nodes, p \in Dirs : RestoreNode(d, n, p)
    \/ \E n \in Nodes : DestroyNode(d, n)
    \/ StartRun(d)
    \/ FinishRun(d)
    \/ LoseAnswer(d)

Spec == Init /\ [][Next]_vars

(***************************************************************************)
(* A device keeps running, and its runs end.                               *)
(***************************************************************************)
FairSpec ==
  Spec /\ \A d \in Devices : []<><<run'[d].on # run[d].on>>_vars

(***************************************************************************)
(* Properties.                                                             *)
(***************************************************************************)
Registers == [Keys -> [at : Seq(Seq(Int)), val : Seq(Int), gone : BOOLEAN]]
Workspaces == [folders : SUBSET Dirs, schemes : SUBSET Schemes,
               kid : [Nodes -> Dirs \cup {Nil}], up : [Folders -> Dirs \cup {Nil}],
               name : [Folders -> Int], trash : SUBSET Nodes,
               origin : [Nodes -> Dirs \cup {Nil, Gone}]]
FolderFields == Folders \X {"name", "archived"}
Runs == [on : BOOLEAN, doc : Registers, ws : Workspaces, news : BOOLEAN, stale : BOOLEAN,
         sent : SUBSET FolderFields]

\* Types of the state.
TypeOK ==
  /\ server \in Registers /\ docs \in [Devices -> Registers]
  /\ ws \in [Devices -> Workspaces] /\ run \in [Devices -> Runs]
  /\ edits \in [Devices -> SUBSET FolderFields]
  /\ made \subseteq Nodes /\ wrecked \subseteq made /\ named \subseteq Folders
  /\ acts \in [Devices -> Nat]

\* What a device shows is what its document stands for, and so is what a run is
\* about to hand it: a difference is taken for an edit and written over others'.
Projected ==
  \A d \in Devices : /\ ws[d] = Materialize(docs[d])
                     /\ run[d].on => run[d].ws = Materialize(run[d].doc)

\* Whatever two devices did to the tree, a run's result has every folder under
\* the root or in the trash, every scheme in a folder or in the trash, and the
\* schemes of a folder in the trash with it and no other.
RunsRepair == \A d \in Devices : run[d].on => Sound(run[d].ws)

\* A node a device shows stays until some user destroys it for good.
NothingVanishes ==
  [][\A d \in Devices : Has(ws[d]) \ {Root} \subseteq Has(ws'[d]) \cup wrecked']_vars

\* What users destroyed and a device had, and has no more.
Buried(d) == {n \in wrecked : n \notin Has(ws[d]) /\ docs[d][<<"node", n>>].at # <<>>}

\* Nothing of it is ever seen on that device again.
StaysDestroyed == [][\A d \in Devices : Buried(d) \cap Has(ws'[d]) = {}]_vars

\* No edit and no repair writes over a tombstone or takes it away: the mark of a
\* permanent deletion is the last write to its key wherever it stands, so that
\* only a write made by one who had not seen it can win over it.
TombstonesLast ==
  \A D \in {server} \cup {docs[d] : d \in Devices} \cup {run[d].doc : d \in Devices},
     n \in Nodes :
    LET r == D[<<"origin", n>>] IN
    \A i \in 1..Len(r.at) : r.at[i][2] = Gone => i = Len(r.at) /\ ~r.gone

\* Everything agrees in the end: the documents, and what the devices show, which
\* is a sound tree with every node made and not destroyed in it, and with the
\* name a user gave wherever a user gave one.
Agreed ==
  \A d \in Devices :
    /\ docs[d] = server /\ Sound(ws[d])
    /\ made \ wrecked \subseteq Has(ws[d])
    /\ \A f \in named \ wrecked : ws[d].name[f] # 0
Settles == <>[]Agreed
=============================================================================
