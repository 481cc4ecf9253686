------------------------- MODULE MCPaymentOperations -------------------------
(* Two handlers at a time: over one operation and three events, over two     *)
(* operations of one interval, two events and a fault, or over two           *)
(* operations of two intervals and two events.                               *)
EXTENDS PaymentOperations

CONSTANTS k1, k2, k3

MCKeys == {k1, k2, k3}
MCInterval == [k \in MCKeys |-> IF k = k3 THEN "yearly" ELSE "monthly"]
MCBounds == {[keys |-> {k1}, events |-> 3, faults |-> 0],
             [keys |-> {k1, k2}, events |-> 2, faults |-> 1],
             [keys |-> {k1, k3}, events |-> 2, faults |-> 0]}
=============================================================================
