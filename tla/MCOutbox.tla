------------------------------ MODULE MCOutbox ------------------------------
(* A scheme with starter content, which every device shows and another may  *)
(* push, two lines of this device, the second on the first, and the index,  *)
(* whose edit `purge` deletes the scheme for good.                          *)
EXTENDS Outbox

CONSTANTS scheme, index, seed, line1, line2, purge

MCDoc == {scheme, index}
MCEdit == {seed, line1, line2, purge}
MCDocOf == [e \in Edit |-> IF e = purge THEN index ELSE scheme]
MCPrior == [e \in Edit |-> IF e = line2 THEN {line1} ELSE {}]
MCUnbinds == [e \in Edit |-> IF e = purge THEN {scheme} ELSE {}]
MCStarter == {seed}
MCRemote == {}
=============================================================================
