------------------------ MODULE MCIngestionScheduler ------------------------
(* Two scheduler processes.  The invariants run on one request key with    *)
(* every runtime configuration, crashes and leases that run out within the *)
(* slot; the two plan items make a tick go round its dispatch loop.        *)
EXTENDS IngestionScheduler, TLC

OneItem == {1}
TwoItems == {1, 2}
MCConfigs ==
  {[mode |-> "legacy", fallback |-> FALSE],
   [mode |-> "canonical", fallback |-> TRUE],
   [mode |-> "canonical", fallback |-> FALSE],
   [mode |-> "shadow", fallback |-> TRUE]}
CanonicalOnly == {[mode |-> "canonical", fallback |-> FALSE]}
(* A third tick of the slot runs beside and after two others, with one     *)
(* fault; two ticks have room for both.                                    *)
Bounded == \A n \in Slots : ticks[n] <= 3 /\ ticks[n] + faults <= 4

Symmetry == Permutations(Schedulers)
=============================================================================
