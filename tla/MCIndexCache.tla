---------------------------- MODULE MCIndexCache ----------------------------
(* IndexCache on small instances: second versions link to the other notes. *)
EXTENDS IndexCache

MCLinks == [p \in Path |-> [v \in 1..MaxVer |-> IF v = 2 THEN Path \ {p} ELSE {}]]
=============================================================================
