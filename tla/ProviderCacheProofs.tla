------------------------- MODULE ProviderCacheProofs -------------------------
(* Proofs about ProviderCache: that an owner fetches only what is missing,   *)
(* that a stale answer has its excuse, and that nobody touches the flight of *)
(* another, for any set of nodes.                                            *)
EXTENDS ProviderCache, TLAPS

(* A marker lies next to no flight: ACQUIRE deletes it, and only a script    *)
(* that gives the flight back writes one.                                    *)
MarkerIsFree == marker # "none" => flight = "none"

(* Whoever has been refused the flight sees a marker only if the failure it  *)
(* tells of is younger than its request; whoever asks for a stale entry has  *)
(* met a failure.                                                            *)
WaitersKnow ==
  \A n \in Nodes :
    /\ pc[n] \in {"wait", "state"} /\ marker = "failure" => n \in failed
    /\ pc[n] = "verify" => n \in failed

NothingStored == noStore => entry = "none"

IInv ==
  /\ TypeOK
  /\ NothingStored
  /\ MarkerIsFree
  /\ OwnersFetchWhatIsMissing
  /\ WaitersKnow

LEMMA InitHolds == Init => IInv
BY OrphanAssumption
   DEF Init, IInv, TypeOK, NothingStored, MarkerIsFree, OwnersFetchWhatIsMissing,
       WaitersKnow, Owning, Places, Resting

-----------------------------------------------------------------------------
LEMMA BeginPreserves == ASSUME IInv, NEW n \in Nodes, Begin(n) PROVE IInv'
BY OrphanAssumption
   DEF IInv, TypeOK, NothingStored, MarkerIsFree, OwnersFetchWhatIsMissing,
       WaitersKnow, Owning, Places, Resting, store, Begin, Goto

LEMMA ReadPreserves == ASSUME IInv, NEW n \in Nodes, Read(n) PROVE IInv'
BY OrphanAssumption
   DEF IInv, TypeOK, NothingStored, MarkerIsFree, OwnersFetchWhatIsMissing,
       WaitersKnow, Owning, Places, Resting, store, Read, Serve, Misses, Seen, Goto, Head

LEMMA ReadThrowsPreserves == ASSUME IInv, NEW n \in Nodes, ReadThrows(n) PROVE IInv'
BY OrphanAssumption
   DEF IInv, TypeOK, NothingStored, MarkerIsFree, OwnersFetchWhatIsMissing,
       WaitersKnow, Owning, Places, Resting, store, ReadThrows, Goto

LEMMA GiveUpPreserves == ASSUME IInv, NEW n \in Nodes, GiveUp(n) PROVE IInv'
BY OrphanAssumption
   DEF IInv, TypeOK, NothingStored, MarkerIsFree, OwnersFetchWhatIsMissing,
       WaitersKnow, Owning, Places, Resting, store, GiveUp, Goto, Head

LEMMA LookPreserves == ASSUME IInv, NEW n \in Nodes, Look(n) PROVE IInv'
BY OrphanAssumption
   DEF IInv, TypeOK, NothingStored, MarkerIsFree, OwnersFetchWhatIsMissing,
       WaitersKnow, Owning, Places, Resting, store, Look, Goto

LEMMA AcquirePreserves == ASSUME IInv, NEW n \in Nodes, Acquire(n) PROVE IInv'
BY OrphanAssumption
   DEF IInv, TypeOK, NothingStored, MarkerIsFree, OwnersFetchWhatIsMissing,
       WaitersKnow, Owning, Places, Resting, store, Acquire, Acquired, Goto

LEMMA LookOrAcquireThrowsPreserves == ASSUME IInv, NEW n \in Nodes, LookOrAcquireThrows(n) PROVE IInv'
BY OrphanAssumption
   DEF IInv, TypeOK, NothingStored, MarkerIsFree, OwnersFetchWhatIsMissing,
       WaitersKnow, Owning, Places, Resting, store, LookOrAcquireThrows, Acquired, Fails, FailureOrStale, Goto

LEMMA RereadPreserves == ASSUME IInv, NEW n \in Nodes, Reread(n) PROVE IInv'
BY OrphanAssumption
   DEF IInv, TypeOK, NothingStored, MarkerIsFree, OwnersFetchWhatIsMissing,
       WaitersKnow, Owning, Places, Resting, store, Reread, Serve, Misses, Seen, Release, Goto

LEMMA RereadThrowsPreserves == ASSUME IInv, NEW n \in Nodes, RereadThrows(n) PROVE IInv'
BY OrphanAssumption
   DEF IInv, TypeOK, NothingStored, MarkerIsFree, OwnersFetchWhatIsMissing,
       WaitersKnow, Owning, Places, Resting, store, RereadThrows, Release, Fails, FailureOrStale, Goto

LEMMA ConfirmPreserves == ASSUME IInv, NEW n \in Nodes, Confirm(n) PROVE IInv'
BY OrphanAssumption
   DEF IInv, TypeOK, NothingStored, MarkerIsFree, OwnersFetchWhatIsMissing,
       WaitersKnow, Owning, Places, Resting, store, Confirm, Fails, FailureOrStale, Goto

LEMMA ConfirmThrowsPreserves == ASSUME IInv, NEW n \in Nodes, ConfirmThrows(n) PROVE IInv'
BY OrphanAssumption
   DEF IInv, TypeOK, NothingStored, MarkerIsFree, OwnersFetchWhatIsMissing,
       WaitersKnow, Owning, Places, Resting, store, ConfirmThrows, Fails, FailureOrStale, Goto

LEMMA AnsweredPreserves == ASSUME IInv, NEW n \in Nodes, Answered(n) PROVE IInv'
BY OrphanAssumption
   DEF IInv, TypeOK, NothingStored, MarkerIsFree, OwnersFetchWhatIsMissing,
       WaitersKnow, Owning, Places, Resting, store, Answered, Fails, FailureOrStale, Goto

LEMMA PublishPreserves == ASSUME IInv, NEW n \in Nodes, Publish(n) PROVE IInv'
BY OrphanAssumption
   DEF IInv, TypeOK, NothingStored, MarkerIsFree, OwnersFetchWhatIsMissing,
       WaitersKnow, Owning, Places, Resting, store, Publish, Stored, Marked, Unmarked, Holds, Active, FailureOrStale, Goto

LEMMA PublishThrowsPreserves == ASSUME IInv, NEW n \in Nodes, PublishThrows(n) PROVE IInv'
BY OrphanAssumption
   DEF IInv, TypeOK, NothingStored, MarkerIsFree, OwnersFetchWhatIsMissing,
       WaitersKnow, Owning, Places, Resting, store, PublishThrows, Stored, Marked, Unmarked, Holds, Active, Catch, FailureOrStale, Goto

LEMMA ReportPreserves == ASSUME IInv, NEW n \in Nodes, Report(n) PROVE IInv'
BY OrphanAssumption
   DEF IInv, TypeOK, NothingStored, MarkerIsFree, OwnersFetchWhatIsMissing,
       WaitersKnow, Owning, Places, Resting, store, Report, Marked, Unmarked, Holds, Active, Catch, FailureOrStale, Goto

LEMMA VerifyPreserves == ASSUME IInv, NEW n \in Nodes, Verify(n) PROVE IInv'
BY OrphanAssumption
   DEF IInv, TypeOK, NothingStored, MarkerIsFree, OwnersFetchWhatIsMissing,
       WaitersKnow, Owning, Places, Resting, store, Verify, Goto

LEMMA WaitPreserves == ASSUME IInv, NEW n \in Nodes, Wait(n) PROVE IInv'
BY OrphanAssumption
   DEF IInv, TypeOK, NothingStored, MarkerIsFree, OwnersFetchWhatIsMissing,
       WaitersKnow, Owning, Places, Resting, store, Wait, Serve, Misses, Seen, Goto

LEMMA ReadStatePreserves == ASSUME IInv, NEW n \in Nodes, ReadState(n) PROVE IInv'
BY OrphanAssumption
   DEF IInv, TypeOK, NothingStored, MarkerIsFree, OwnersFetchWhatIsMissing,
       WaitersKnow, Owning, Places, Resting, store, ReadState, FailureOrStale, Goto, Head

LEMMA WaitThrowsPreserves == ASSUME IInv, NEW n \in Nodes, WaitThrows(n) PROVE IInv'
BY OrphanAssumption
   DEF IInv, TypeOK, NothingStored, MarkerIsFree, OwnersFetchWhatIsMissing,
       WaitersKnow, Owning, Places, Resting, store, WaitThrows, Fails, FailureOrStale, Goto

LEMMA HeartbeatFailsPreserves == ASSUME IInv, NEW n \in Nodes, HeartbeatFails(n) PROVE IInv'
BY OrphanAssumption
   DEF IInv, TypeOK, NothingStored, MarkerIsFree, OwnersFetchWhatIsMissing,
       WaitersKnow, Owning, Places, Resting, store, HeartbeatFails

LEMMA StopPreserves == ASSUME IInv, NEW n \in Nodes, Stop(n) PROVE IInv'
BY OrphanAssumption
   DEF IInv, TypeOK, NothingStored, MarkerIsFree, OwnersFetchWhatIsMissing,
       WaitersKnow, Owning, Places, Resting, store, Stop, Goto

(* What Redis expires is neither a new entry nor a new marker. *)
LEMMA ExpiryPreserves ==
  ASSUME IInv, FlightLapses \/ MarkerExpires \/ EntryAges PROVE IInv'
<1>1. CASE FlightLapses
  BY <1>1, OrphanAssumption
  DEF IInv, TypeOK, NothingStored, MarkerIsFree, OwnersFetchWhatIsMissing,
      WaitersKnow, Owning, FlightLapses
<1>2. CASE MarkerExpires
  BY <1>2
  DEF IInv, TypeOK, NothingStored, MarkerIsFree, OwnersFetchWhatIsMissing,
      WaitersKnow, Owning, MarkerExpires
<1>3. CASE EntryAges
  BY <1>3
  DEF IInv, TypeOK, NothingStored, MarkerIsFree, OwnersFetchWhatIsMissing,
      WaitersKnow, Owning, EntryAges
<1> QED
  BY <1>1, <1>2, <1>3

LEMMA StepHolds == IInv /\ [Next]_vars => IInv'
<1> SUFFICES ASSUME IInv, [Next]_vars PROVE IInv'
  OBVIOUS
<1>1. CASE UNCHANGED vars
  BY <1>1
  DEF vars, store, IInv, TypeOK, NothingStored, MarkerIsFree,
      OwnersFetchWhatIsMissing, WaitersKnow
<1>2. CASE FlightLapses \/ MarkerExpires \/ EntryAges
  BY <1>2, ExpiryPreserves
<1>3. ASSUME NEW n \in Nodes, Begin(n) \/ Step(n) \/ HeartbeatFails(n) \/ Stop(n)
      PROVE  IInv'
  <2>1. CASE Begin(n) \/ HeartbeatFails(n) \/ Stop(n)
    BY <2>1, BeginPreserves, HeartbeatFailsPreserves, StopPreserves
  <2>2. CASE Step(n)
    BY <2>2, ReadPreserves, ReadThrowsPreserves, GiveUpPreserves, LookPreserves, AcquirePreserves, LookOrAcquireThrowsPreserves, RereadPreserves, RereadThrowsPreserves, ConfirmPreserves, ConfirmThrowsPreserves, AnsweredPreserves, PublishPreserves, PublishThrowsPreserves, ReportPreserves, VerifyPreserves, WaitPreserves, ReadStatePreserves, WaitThrowsPreserves
    DEF Step
  <2> QED
    BY <1>3, <2>1, <2>2
<1> QED
  BY <1>1, <1>2, <1>3 DEF Next

THEOREM Inductive == Spec => []IInv
BY InitHolds, StepHolds, PTL DEF Spec

(* An owner with the flight never calls the provider for an entry that is    *)
(* fresh: the read after ACQUIRE and the token of SUCCESS are enough,        *)
(* whatever expires, stops or throws.                                        *)
THEOREM NoFetchOfFresh == Spec => []OwnersFetchWhatIsMissing
<1>1. IInv => OwnersFetchWhatIsMissing
  BY DEF IInv
<1> QED
  BY <1>1, Inductive, PTL

-----------------------------------------------------------------------------
(* Only the read before a stale answer serves one. *)
LEMMA OnlyVerifyServesStale ==
  ASSUME IInv, [Next]_vars, NEW n \in Nodes, pc'[n] = "stale", pc[n] # "stale"
  PROVE  Verify(n) /\ entry = "stale"
<1>1. PICK m \in Nodes : Begin(m) \/ Step(m) \/ HeartbeatFails(m) \/ Stop(m)
  BY DEF Next, vars, FlightLapses, MarkerExpires, EntryAges
<1>2. pc \in [Nodes -> Places]
  BY DEF IInv, TypeOK
<1>3. ASSUME NEW p, Goto(m, p) PROVE m = n /\ p = "stale"
  BY <1>2, <1>3 DEF Goto
<1>4. ~(Begin(m) \/ HeartbeatFails(m) \/ Stop(m))
  BY <1>3 DEF Begin, HeartbeatFails, Stop
<1>5. ~FailureOrStale(m) /\ ~Catch(m)
  BY <1>3 DEF FailureOrStale, Catch
<1>6. ~Serve(m)
  BY <1>3 DEF Serve
<1>7. \A p : p # "stale" => ~Misses(m, p)
  BY <1>3 DEF Misses
<1>8. Head # "stale"
  BY DEF Head
<1>9. ~(Read(m) \/ ReadThrows(m) \/ GiveUp(m) \/ Look(m) \/ Acquire(m))
  BY <1>3, <1>6, <1>7, <1>8 DEF Read, ReadThrows, GiveUp, Look, Acquire
<1>10. ~(LookOrAcquireThrows(m) \/ Reread(m) \/ RereadThrows(m) \/ Confirm(m)
          \/ ConfirmThrows(m))
  BY <1>3, <1>5, <1>6, <1>7
  DEF LookOrAcquireThrows, Reread, RereadThrows, Confirm, ConfirmThrows, Fails
<1>11. ~(Answered(m) \/ Publish(m) \/ PublishThrows(m) \/ Report(m))
  BY <1>3, <1>5 DEF Answered, Publish, PublishThrows, Report, Fails
<1>12. ~(Wait(m) \/ ReadState(m) \/ WaitThrows(m))
  BY <1>3, <1>5, <1>6, <1>7, <1>8 DEF Wait, ReadState, WaitThrows, Fails
<1>13. Verify(m)
  BY <1>1, <1>4, <1>9, <1>10, <1>11, <1>12 DEF Step
<1> QED
  BY <1>3, <1>13 DEF Verify

(* A stale answer is never given on a deadline, nor on the marker of a       *)
(* failure that is older than the request.                                   *)
THEOREM StaleHasExcuse == Spec => StaleIsExcused
<1>1. IInv /\ [Next]_vars =>
        \A n \in Nodes : pc'[n] = "stale" /\ pc[n] # "stale"
          => entry = "stale" /\ n \in failed
  BY OnlyVerifyServesStale DEF Verify, IInv, WaitersKnow
<1>2. IInv /\ [Next]_vars =>
        [\A n \in Nodes : pc'[n] = "stale" /\ pc[n] # "stale"
           => entry = "stale" /\ n \in failed]_vars
  BY <1>1
<1> QED
  BY <1>2, Inductive, PTL DEF Spec, StaleIsExcused

-----------------------------------------------------------------------------
(* A step of another node than the one that has the flight, and one of its   *)
(* own at which it stays where it is, leave what it has to expire.           *)
Untouched(n) ==
  /\ flight' = n /\ marker' = marker
  /\ entry' = entry

LEMMA OthersAreFenced ==
  ASSUME TypeOK, NEW n \in Nodes, flight = n, NEW m \in Nodes, m # n, Step(m)
  PROVE  Untouched(n)
<1>1. flight # "none" /\ flight # m /\ ~Holds(m)
  BY OrphanAssumption DEF Holds
<1>2. ~Acquired(m) /\ ~Stored(m) /\ ~Marked(m)
  BY <1>1 DEF Acquired, Stored, Marked
<1>3. Release(m) => flight' = flight
  BY <1>1 DEF Release
<1>4. Unmarked(m) => UNCHANGED store
  BY DEF Unmarked
<1>5. CASE Read(m) \/ ReadThrows(m) \/ GiveUp(m) \/ Look(m) \/ Confirm(m)
             \/ ConfirmThrows(m) \/ Answered(m) \/ Verify(m) \/ Wait(m)
             \/ ReadState(m) \/ WaitThrows(m)
  BY <1>5 DEF Untouched, store, Read, ReadThrows, GiveUp, Look, Confirm,
     ConfirmThrows, Answered, Verify, Wait, ReadState, WaitThrows
<1>6. CASE Acquire(m) \/ LookOrAcquireThrows(m)
  BY <1>2, <1>6 DEF Untouched, Acquire, LookOrAcquireThrows
<1>7. CASE Reread(m) \/ RereadThrows(m)
  BY <1>3, <1>7 DEF Untouched, Reread, RereadThrows
<1>8. CASE Publish(m) \/ PublishThrows(m) \/ Report(m)
  BY <1>2, <1>4, <1>8 DEF Untouched, store, Publish, PublishThrows, Report
<1> QED
  BY <1>5, <1>6, <1>7, <1>8 DEF Step

(* A script that ends the flight of its owner moves the owner on.            *)
LEMMA OwnersMoveOn ==
  ASSUME TypeOK, NEW n \in Nodes, flight = n, Step(n), pc'[n] = pc[n]
  PROVE  Untouched(n)
<1>1. pc \in [Nodes -> Places] /\ flight # "none"
  BY OrphanAssumption DEF TypeOK
<1>2. ASSUME NEW p, Goto(n, p) PROVE p = pc[n]
  BY <1>1, <1>2 DEF Goto
<1>3. FailureOrStale(n) \/ Fails(n) => pc[n] \in {"verify", "idle"}
  BY <1>2 DEF FailureOrStale, Fails
<1>4. Catch(n) => pc[n] \in {"again", "verify", "idle"}
  BY <1>2, <1>3 DEF Catch
<1>5. ~(Reread(n) \/ RereadThrows(n) \/ Publish(n) \/ PublishThrows(n))
  BY <1>2, <1>3, <1>4
  DEF Reread, Serve, Misses, RereadThrows, Publish, PublishThrows
<1>6. ~Report(n)
  BY <1>3, <1>4 DEF Report, Catch, FailureOrStale
<1>7. ~Acquired(n)
  BY <1>1 DEF Acquired
<1>8. CASE Acquire(n) \/ LookOrAcquireThrows(n)
  BY <1>7, <1>8 DEF Untouched, Acquire, LookOrAcquireThrows
<1>9. CASE Read(n) \/ ReadThrows(n) \/ GiveUp(n) \/ Look(n) \/ Confirm(n)
             \/ ConfirmThrows(n) \/ Answered(n) \/ Verify(n) \/ Wait(n)
             \/ ReadState(n) \/ WaitThrows(n)
  BY <1>9 DEF Untouched, store, Read, ReadThrows, GiveUp, Look, Confirm,
     ConfirmThrows, Answered, Verify, Wait, ReadState, WaitThrows
<1> QED
  BY <1>5, <1>6, <1>8, <1>9 DEF Step

(* However late an owner learns that its flight has run out, it cannot end   *)
(* the next one, nor publish or mark anything under it.                      *)
THEOREM FlightsAreFenced == Spec => FlightIsFenced
<1> DEFINE Fenced(n) ==
      flight = n /\ pc'[n] = pc[n] =>
        /\ flight' = n \/ (flight' = "none" /\ UNCHANGED <<entry, marker, pc>>)
        /\ entry' = "fresh" => entry = "fresh"
        /\ marker' = "none"
<1>1. ASSUME IInv, [Next]_vars, NEW n \in Nodes, flight = n, pc'[n] = pc[n]
      PROVE  Fenced(n)
  <2>1. TypeOK /\ marker = "none" /\ flight # "none"
    BY <1>1, OrphanAssumption DEF IInv, MarkerIsFree
  <2>2. CASE UNCHANGED vars
    BY <2>1, <2>2 DEF vars, store
  <2>3. CASE FlightLapses \/ MarkerExpires \/ EntryAges
    BY <2>1, <2>3, <1>1 DEF FlightLapses, MarkerExpires, EntryAges
  <2>4. ASSUME NEW m \in Nodes, Step(m) PROVE Fenced(n)
    <3>1. Untouched(n)
      BY <1>1, <2>1, <2>4, OthersAreFenced, OwnersMoveOn
    <3> QED
      BY <2>1, <3>1 DEF Untouched
  <2>5. ASSUME NEW m \in Nodes, Begin(m) PROVE Fenced(n)
    <3>1. m # n
      BY <1>1, <2>1, <2>5 DEF Begin, Goto, TypeOK, Resting
    <3> QED
      BY <1>1, <2>1, <2>5, <3>1 DEF Begin
  <2>6. ASSUME NEW m \in Nodes, HeartbeatFails(m) \/ Stop(m) PROVE Fenced(n)
    BY <1>1, <2>1, <2>6 DEF HeartbeatFails, Stop, store
  <2> QED
    BY <1>1, <2>2, <2>3, <2>4, <2>5, <2>6 DEF Next
<1>2. IInv /\ [Next]_vars => [\A n \in Nodes : Fenced(n)]_vars
  BY <1>1
<1> QED
  BY <1>2, Inductive, PTL DEF Spec, FlightIsFenced
=============================================================================
