----------------------------- MODULE FencedQueue -----------------------------
(***************************************************************************)
(* What a leased outbox promises whoever stages an item in it: the item is *)
(* handed to one worker at a time, only its latest owner decides what      *)
(* becomes of it, it is reported delivered only if a copy left the system, *)
(* and once closed it is never touched again.  A copy may leave at any     *)
(* time after staging, by a worker that has lost the item too: the promise *)
(* is at-least-once.                                                       *)
(***************************************************************************)
EXTENDS Naturals

CONSTANTS Items, Workers, None

VARIABLES
  phase,  \* absent, waiting, claimed, delivered or abandoned
  owner,  \* the worker an item is handed to
  epoch,  \* how often it has been handed out
  sent    \* items of which a copy has left

qvars == <<phase, owner, epoch, sent>>

Init ==
  /\ phase = [i \in Items |-> "absent"]
  /\ owner = [i \in Items |-> None]
  /\ epoch = [i \in Items |-> 0]
  /\ sent = {}

Add(i) ==
  /\ phase[i] = "absent"
  /\ phase' = [phase EXCEPT ![i] = "waiting"]
  /\ UNCHANGED <<owner, epoch, sent>>

HandOut(w, batch) ==
  /\ \A i \in batch : phase[i] \in {"waiting", "claimed"}
  /\ phase' = [i \in Items |-> IF i \in batch THEN "claimed" ELSE phase[i]]
  /\ owner' = [i \in Items |-> IF i \in batch THEN w ELSE owner[i]]
  /\ epoch' = [i \in Items |-> IF i \in batch THEN epoch[i] + 1 ELSE epoch[i]]
  /\ UNCHANGED sent

Send(i) ==
  /\ phase[i] # "absent"
  /\ sent' = sent \cup {i}
  /\ UNCHANGED <<phase, owner, epoch>>

Settle(w, i, outcome) ==
  /\ phase[i] = "claimed"
  /\ owner[i] = w
  /\ outcome = "delivered" => i \in sent
  /\ phase' = [phase EXCEPT ![i] = outcome]
  /\ owner' = [owner EXCEPT ![i] = None]
  /\ UNCHANGED <<epoch, sent>>

Next ==
  \/ \E i \in Items : Add(i) \/ Send(i)
  \/ \E w \in Workers :
       \/ \E batch \in SUBSET Items : HandOut(w, batch)
       \/ \E i \in Items, outcome \in {"waiting", "delivered", "abandoned"} :
            Settle(w, i, outcome)

Spec == Init /\ [][Next]_qvars
=============================================================================
