---------------------------- MODULE EditDelivery ----------------------------
(***************************************************************************)
(* What the outbox of a device promises, without runs, queues or documents:*)
(* an edit once made is owed to the server until the server has it, or     *)
(* until its scheme is deleted and there is nothing left to deliver it to. *)
(***************************************************************************)
CONSTANT Edit

VARIABLES
  owed,       \* edits the device still has to deliver
  delivered,  \* edits of this device the server holds
  void        \* edits whose scheme this device knows to be deleted

vars == <<owed, delivered, void>>

Init ==
  /\ owed = {}
  /\ delivered = {}
  /\ void = {}

\* What the device no longer owes is delivered, or has nowhere to go; and it may
\* learn of schemes deleted for good.
Forgets ==
  /\ owed \ owed' \subseteq delivered \cup void
  /\ void' \in SUBSET Edit
  /\ void \subseteq void'
  /\ UNCHANGED delivered

\* An edit is made; it may be the one that deletes a scheme.
Make ==
  /\ \E e \in Edit \ (owed \cup delivered) :
       e \in owed' /\ owed' \subseteq owed \cup {e}
  /\ Forgets

Deliver ==
  /\ delivered' \in SUBSET (delivered \cup owed \cup void)
  /\ delivered \subseteq delivered'
  /\ UNCHANGED <<owed, void>>

Settle ==
  /\ owed' \in SUBSET owed
  /\ Forgets

Next == Make \/ Deliver \/ Settle

\* Every owed edit reaches the server in the end, or has nowhere to go. By Safe it is
\* owed until then, and both are for good: once the last edit of a run is made, there
\* comes a state from which on nothing else is owed.
Promise == <>[](owed \subseteq delivered \cup void)

Safe == Init /\ [][Next]_vars
Spec == Safe /\ Promise
=============================================================================
