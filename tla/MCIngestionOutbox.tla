-------------------------- MODULE MCIngestionOutbox --------------------------
(* IngestionOutbox on small instances: a publisher's crash, a thrown       *)
(* statement and an overrun lease all fit in two faults, one of them when  *)
(* two rows are staged.                                                    *)
EXTENDS IngestionOutbox

Bounded == faults + Cardinality({i \in Items : row[i].status # "absent"}) <= 3
=============================================================================
