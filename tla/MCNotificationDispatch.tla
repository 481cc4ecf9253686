----------------------- MODULE MCNotificationDispatch -----------------------
(* NotificationDispatch on small instances. Alone, a row meets every         *)
(* outcome and every fault; two rows meet when the second is staged before   *)
(* the first is claimed, with one fault and the outcomes "success" and       *)
(* "temporary". Every fair action keeps a step in each case.                 *)
EXTENDS NotificationDispatch

First == CHOOSE i \in Items : TRUE

Together == \A i \in Items : row[i].status # "absent"

Bounded ==
  /\ row[First].status = "absent" => row' = row \/ row'[First].status # "absent"
  /\ Together' =>
      /\ ~Together => \A i \in Items : row[i].gen = 0
      /\ faults' <= 1
      /\ \A p \in Dispatchers : call'[p].outcome \in {None, "success", "temporary"}
=============================================================================
