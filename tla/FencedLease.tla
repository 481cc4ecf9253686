---------------------------- MODULE FencedLease -----------------------------
(***************************************************************************)
(* What a table of expiring leases promises the workers that use it: a key *)
(* is granted anew only when its lease was given back or has run out, and  *)
(* a worker that lost its lease can neither end nor prolong the next one.  *)
(***************************************************************************)
EXTENDS Integers

CONSTANTS
  Workers,
  Keys,
  Term         \* longest term a lease is granted for

VARIABLES
  now,         \* time
  epoch,       \* per key, the number of grants
  live,        \* per key, whether the latest grant is in force
  until,       \* per key, when the latest grant runs out
  grip         \* grants that some worker still acts on

vars == <<now, epoch, live, until, grip>>

Init ==
  /\ now = 0
  /\ epoch = [k \in Keys |-> 0]
  /\ live = [k \in Keys |-> FALSE]
  /\ until = [k \in Keys |-> 0]
  /\ grip = {}

Grant(w, k) ==
  /\ ~live[k] \/ until[k] <= now
  /\ epoch' = [epoch EXCEPT ![k] = @ + 1]
  /\ live' = [live EXCEPT ![k] = TRUE]
  /\ \E t \in 0 .. now + Term : until' = [until EXCEPT ![k] = t]
  /\ grip' = grip \cup {[by |-> w, key |-> k, epoch |-> epoch[k] + 1]}
  /\ UNCHANGED now

(* A worker stops acting on a grant, and may give it back if it is still   *)
(* the latest one of its key.                                              *)
LetGo(g) ==
  /\ grip' = grip \ {g}
  /\ \/ live' = live
     \/ epoch[g.key] = g.epoch /\ live' = [live EXCEPT ![g.key] = FALSE]
  /\ UNCHANGED <<now, epoch, until>>

Expire ==
  /\ \E gone \in SUBSET {k \in Keys : until[k] <= now} :
       live' = [k \in Keys |-> live[k] /\ k \notin gone]
  /\ UNCHANGED <<now, epoch, until, grip>>

Tick == now' = now + 1 /\ UNCHANGED <<epoch, live, until, grip>>

Next ==
  \/ \E w \in Workers, k \in Keys : Grant(w, k)
  \/ \E g \in grip : LetGo(g)
  \/ Expire
  \/ Tick

Spec == Init /\ [][Next]_vars
=============================================================================
