---------------------- MODULE IngestionSchedulerProofs ----------------------
(***************************************************************************)
(* Theorems about IngestionScheduler for every plan, any number of         *)
(* scheduler processes, every period and lease term, and any number of     *)
(* faults.                                                                 *)
(***************************************************************************)
EXTENDS IngestionScheduler, TLAPS, WellFoundedInduction, FiniteSetTheorems

-----------------------------------------------------------------------------
(* The inductive invariant, in named parts.                                *)

(* No tick started in the future. *)
Started == \A s \in Schedulers : tick[s].at <= now

(* What a tick that acts on a grant knows of the lease: while no other     *)
(* grant followed, the lease is live or has run out; once another did, the *)
(* tick's own term is over.                                                *)
HoldsGrant(s) ==
  LET l == lease[Key(s)] IN
  /\ tick[s].gen <= l.gen
  /\ tick[s].gen = l.gen =>
       /\ l.expiresAt = tick[s].at + LeaseTerm
       /\ l.status = "acquired" \/ l.expiresAt <= now
  /\ tick[s].gen < l.gen => tick[s].at + LeaseTerm <= now

Grants == \A s \in Schedulers : Holding(s) => HoldsGrant(s)

(* No two ticks act on the same grant. *)
DistinctGrants ==
  \A s, t \in Schedulers :
    Holding(s) /\ Holding(t) /\ Key(s) = Key(t) /\ tick[s].gen = tick[t].gen
      => s = t

IndInv == TypeOK /\ Started /\ Grants /\ DistinctGrants

USE ItemsAssumption, PeriodAssumption, ConfigsAssumption, SchedulerBounds

-----------------------------------------------------------------------------
(* A non-empty set of items has a first one, since items are numbers.      *)
LEMMA FirstItem ==
  ASSUME NEW due \in SUBSET Items, due # {}
  PROVE  Min(due) \in due
<1>1. due \subseteq Nat
  BY ItemsAssumption
<1>2. PICK x \in due : \A y \in due : ~ (<<y, x>> \in OpToRel(<, Nat))
  BY <1>1, WFMin, NatLessThanWellFounded
<1>3. \A y \in due : x =< y
  <2> TAKE y \in due
  <2>1. ~(y < x)
    BY <1>1, <1>2 DEF OpToRel
  <2> QED  BY <1>1, <2>1
<1> QED  BY <1>3 DEF Min

(* An instant of the model lies in a slot of the model. *)
LEMMA SlotType ==
  ASSUME NEW t \in 0 .. MaxTime
  PROVE  Slot(t) \in Slots
  BY DEF Slots

(* A tick past its planning works on a request key. *)
LEMMA KeyType ==
  ASSUME TypeOK, NEW s \in Schedulers, tick[s].step \notin {"idle", "plan"}
  PROVE  Item(s) \in tick[s].due /\ Key(s) \in Keys
<1>1. tick[s].due # {} /\ tick[s].due \in SUBSET Items /\ tick[s].at \in 0 .. MaxTime
  BY DEF TypeOK, Tick
<1>2. Item(s) \in tick[s].due
  BY <1>1, FirstItem DEF Item
<1> QED  BY <1>1, <1>2, SlotType DEF Key, Keys

(* The state of a process between ticks is a tick. *)
LEMMA IdleTickType == IdleTick \in Tick
  BY DEF IdleTick, NoResult, Tick, Steps, Outcomes, Done

(* The dispatch loop goes on with an item at hand, or ends. *)
LEMMA DispatchingType ==
  ASSUME NEW t \in Tick, NEW due \in SUBSET Items
  PROVE  /\ Dispatching(t, due) \in Tick
         /\ Dispatching(t, due).step \in {"idle", "acquire"}
         /\ Dispatching(t, due).step # "idle" => Dispatching(t, due).due # {}
         /\ Dispatching(t, due).at \in {0, t.at}
<1>1. CASE due = {}
  BY <1>1, IdleTickType DEF Dispatching, IdleTick
<1>2. CASE due # {}
  <2>1. Dispatching(t, due) =
          [step |-> "acquire", at |-> t.at, unread |-> {}, due |-> due,
           gen |-> 0, run |-> NoResult, report |-> "failed"]
    BY <1>2 DEF Dispatching, IdleTick
  <2> QED  BY <1>2, <2>1 DEF NoResult, Tick, Steps, Outcomes, Done
<1> QED  BY <1>1, <1>2

-----------------------------------------------------------------------------
(* Type correctness.                                                       *)

(* What a step of one tick has to establish for the type of all ticks. *)
Fits(t) == t \in Tick /\ (t.step \notin {"idle", "plan"} => t.due # {})

TicksFit ==
  /\ tick \in [Schedulers -> Tick]
  /\ \A s \in Schedulers : tick[s].step \notin {"idle", "plan"} =>
       tick[s].due # {}

(* A step that leaves one tick fitting leaves all of them fitting. *)
LEMMA OneTickFits ==
  ASSUME TypeOK, NEW s \in Schedulers, NEW t, Fits(t),
         tick' = [tick EXCEPT ![s] = t]
  PROVE  TicksFit'
  BY DEF TypeOK, TicksFit, Fits

(* A tick that moves to another step of the same item still fits. *)
LEMMA WorkingFits ==
  ASSUME TypeOK, NEW s \in Schedulers, Holding(s) \/ At(s, "acquire"),
         NEW t \in Tick, t.due = tick[s].due
  PROVE  Fits(t)
<1>1. tick[s].due # {}
  BY DEF TypeOK, Holding, At
<1> QED  BY <1>1 DEF Fits

(* The three fields that the steps of a tick write keep their types. *)
LEMMA TickFields ==
  ASSUME NEW t \in Tick, NEW step \in Steps, NEW n \in Nat,
         NEW r \in [status : Outcomes, events : BOOLEAN],
         NEW report \in Outcomes
  PROVE  /\ [t EXCEPT !.step = step] \in Tick
         /\ [t EXCEPT !.step = step, !.gen = n] \in Tick
         /\ [t EXCEPT !.step = step, !.report = report] \in Tick
         /\ [t EXCEPT !.step = step, !.run = r, !.report = report] \in Tick
  BY DEF Tick

(* A tick begins with all its items unread. *)
LEMMA PlanningType ==
  ASSUME NEW n \in 0 .. MaxTime
  PROVE  LET t == [IdleTick EXCEPT !.step = "plan", !.at = n, !.unread = Items]
         IN  t \in Tick /\ t.step = "plan" /\ t.at = n
<1>1. [IdleTick EXCEPT !.step = "plan"] \in Tick
  BY IdleTickType DEF Tick, Steps
<1>2. \A t \in Tick : [t EXCEPT !.at = n, !.unread = Items] \in Tick
  BY DEF Tick
<1>3. [IdleTick EXCEPT !.step = "plan", !.at = n, !.unread = Items] =
        [[IdleTick EXCEPT !.step = "plan"] EXCEPT !.at = n, !.unread = Items]
  OBVIOUS
<1>4. [IdleTick EXCEPT !.step = "plan", !.at = n, !.unread = Items] \in Tick
  BY <1>1, <1>2, <1>3
<1> QED  BY <1>4, IdleTickType DEF Tick

(* Start leaves a typed state.                                             *)
LEMMA StartType ==
  ASSUME TypeOK, NEW s \in Schedulers, Start(s)
  PROVE  TypeOK'
<1>1. lease' \in [Keys -> Lease]
  BY DEF Start, TypeOK, Lease
<1> DEFINE t == [IdleTick EXCEPT !.step = "plan", !.at = now, !.unread = Items]
<1>2. now \in 0 .. MaxTime
  BY DEF TypeOK
<1>3. Fits(t)
  BY <1>2, PlanningType DEF Fits
<1> HIDE DEF t
<1>4. tick' = [tick EXCEPT ![s] = t]
  BY DEF Start, t
<1>5. TicksFit'
  BY <1>3, <1>4, OneTickFits
<1>6. ticks' \in [Slots -> Nat]
  <2>1. Slot(now) \in Slots /\ ticks \in [Slots -> Nat]
    BY <1>2 DEF Slots, TypeOK
  <2>2. ticks' = [ticks EXCEPT ![Slot(now)] = @ + 1]
    BY DEF Start
  <2> QED  BY <2>1, <2>2
<1> QED  BY <1>1, <1>5, <1>6 DEF Start, TypeOK, TicksFit

(* PlanItem leaves a typed state.                                          *)
LEMMA PlanItemType ==
  ASSUME TypeOK, NEW s \in Schedulers, NEW i \in Items, PlanItem(s, i)
  PROVE  TypeOK'
<1> DEFINE t == tick[s]
           due == IF Satisfied(i, t.at) THEN t.due ELSE t.due \cup {i}
           u == IF t.unread = {i} THEN Dispatching(t, due)
                ELSE [t EXCEPT !.due = due, !.unread = @ \ {i}]
<1>1. t \in Tick /\ t.step = "plan"
  BY DEF TypeOK, PlanItem, At
<1>2. due \in SUBSET Items
  BY <1>1 DEF Tick
<1>3. tick' = [tick EXCEPT ![s] = u]
  BY DEF PlanItem
<1> HIDE DEF t, due
<1>4. [t EXCEPT !.due = due, !.unread = @ \ {i}] \in Tick
      /\ [t EXCEPT !.due = due, !.unread = @ \ {i}].step = "plan"
  BY <1>1, <1>2 DEF Tick
<1>5. Fits(u)
  BY <1>1, <1>2, <1>4, DispatchingType DEF Fits
<1>6. TicksFit'
  BY <1>3, <1>5, OneTickFits
<1> QED  BY <1>6 DEF PlanItem, TypeOK, TicksFit

(* Going on to the next item leaves fitting ticks. *)
LEMMA NextDispatchType ==
  ASSUME TypeOK, NEW s \in Schedulers, NextDispatch(s)
  PROVE  TicksFit'
<1> DEFINE t == Dispatching(tick[s], tick[s].due \ {Item(s)})
<1>1. tick[s] \in Tick /\ tick[s].due \ {Item(s)} \in SUBSET Items
  BY DEF TypeOK, Tick
<1>2. Fits(t)
  BY <1>1, DispatchingType DEF Fits
<1>3. tick' = [tick EXCEPT ![s] = t]
  BY DEF NextDispatch
<1> HIDE DEF t
<1> QED  BY <1>2, <1>3, OneTickFits

(* Acquire leaves a typed state.                                           *)
LEMMA AcquireType ==
  ASSUME TypeOK, NEW s \in Schedulers, Acquire(s)
  PROVE  TypeOK'
<1> DEFINE k == Key(s)
<1>1. k \in Keys /\ tick[s] \in Tick /\ lease[k] \in Lease
  BY KeyType DEF Acquire, At, TypeOK
<1>2. CASE Free(k, tick[s].at)
  <2>1. lease[k].gen + 1 \in Nat /\ tick[s].at + LeaseTerm \in Nat
    BY <1>1 DEF Lease, Tick
  <2> DEFINE l == [status |-> "acquired", gen |-> lease[k].gen + 1,
                   expiresAt |-> tick[s].at + LeaseTerm]
             t == [tick[s] EXCEPT !.step = "guard", !.gen = lease[k].gen + 1]
  <2>2. l \in Lease
    BY <2>1 DEF Lease
  <2>3. lease' = [lease EXCEPT ![k] = l] /\ tick' = [tick EXCEPT ![s] = t]
    BY <1>1, <1>2 DEF Acquire, TypeOK
  <2>4. t \in Tick /\ t.due = tick[s].due
    BY <1>1, <2>1 DEF Tick, Steps
  <2>5. TicksFit'
    BY <2>3, <2>4, OneTickFits, WorkingFits DEF Acquire
  <2>6. lease' \in [Keys -> Lease]
    BY <1>1, <2>2, <2>3 DEF TypeOK
  <2> QED  BY <2>5, <2>6 DEF Acquire, TypeOK, TicksFit
<1>3. CASE ~Free(k, tick[s].at)
  BY <1>3, NextDispatchType DEF Acquire, TypeOK, TicksFit
<1> QED  BY <1>2, <1>3

(* A tick that enters another statement still fits.                        *)
LEMMA EnterType ==
  ASSUME TypeOK, NEW s \in Schedulers, Holding(s), NEW step \in Steps,
         Enter(s, step)
  PROVE  TicksFit'
<1>1. tick[s] \in Tick
  BY DEF TypeOK
<1> DEFINE t == [tick[s] EXCEPT !.step = step]
<1>2. t \in Tick /\ t.due = tick[s].due
  BY <1>1 DEF Tick
<1>3. tick' = [tick EXCEPT ![s] = t]
  BY DEF Enter, TypeOK
<1> QED  BY <1>2, <1>3, OneTickFits, WorkingFits

(* So does one that also changes what it will report.                      *)
LEMMA ReportType ==
  ASSUME TypeOK, NEW s \in Schedulers, Holding(s), NEW step \in Steps,
         NEW report \in Outcomes,
         tick' = [tick EXCEPT ![s].step = step, ![s].report = report]
  PROVE  TicksFit'
<1>1. tick[s] \in Tick
  BY DEF TypeOK
<1> DEFINE t == [tick[s] EXCEPT !.step = step, !.report = report]
<1>2. t \in Tick /\ t.due = tick[s].due
  BY <1>1 DEF Tick
<1>3. tick' = [tick EXCEPT ![s] = t]
  BY DEF TypeOK
<1> QED  BY <1>2, <1>3, OneTickFits, WorkingFits

(* Whatever the collectors come back with makes a typed result. *)
LEMMA CollectedType ==
  ASSUME NEW c \in Canonical, NEW l \in Legacy,
         config.mode \in {"legacy", "canonical", "shadow"}
  PROVE  Collected(c, l) \in [status : Outcomes, events : BOOLEAN]
<1>1. c.failed \in BOOLEAN /\ c.events \in BOOLEAN /\ l.events \in BOOLEAN
  <2>1. c \in [failed : {FALSE}, events : BOOLEAN]
           => c.failed \in BOOLEAN /\ c.events \in BOOLEAN
    OBVIOUS
  <2>2. c = [failed |-> TRUE, events |-> FALSE]
           => c.failed \in BOOLEAN /\ c.events \in BOOLEAN
    OBVIOUS
  <2>3. l \in [threw : {FALSE}, complete : BOOLEAN, events : BOOLEAN]
           => l.events \in BOOLEAN
    OBVIOUS
  <2>4. l = [threw |-> TRUE, complete |-> FALSE, events |-> FALSE]
           => l.events \in BOOLEAN
    OBVIOUS
  <2> QED  BY <2>1, <2>2, <2>3, <2>4 DEF Canonical, Legacy
<1>2. Boundary(c) \in {"legacy", "canonical", "none"}
  BY <1>1 DEF Boundary
<1>3. Collected(c, l).status \in Outcomes
  BY <1>2 DEF Collected, Outcomes, Done
<1>4. Collected(c, l).events \in BOOLEAN
  BY <1>1, <1>2 DEF Collected
<1> QED  BY <1>3, <1>4 DEF Collected

(* A fault stays within its bound.                                         *)
LEMMA FaultType ==
  ASSUME TypeOK, Fault
  PROVE  faults' \in 0 .. MaxFaults
  BY DEF TypeOK, Fault

(* Collect leaves a typed state.                                           *)
LEMMA CollectType ==
  ASSUME TypeOK, NEW s \in Schedulers, Collect(s)
  PROVE  TypeOK'
<1>0. Holding(s) /\ tick[s] \in Tick
  BY DEF Collect, At, Holding, TypeOK
<1>1. CASE Enter(s, "release") /\ (faults' = faults \/ Fault)
  <2>1. TicksFit'
    BY <1>0, <1>1, EnterType DEF Steps
  <2> QED  BY <1>1, <2>1, FaultType DEF Collect, TypeOK, TicksFit
<1>2. ASSUME NEW c \in Canonical, NEW l \in Legacy,
             tick' = [tick EXCEPT ![s].step = "saveRun",
                                  ![s].run = Collected(c, l),
                                  ![s].report = Collected(c, l).status],
             faults' = faults \/ Fault
      PROVE  TypeOK'
  <2>1. config.mode \in {"legacy", "canonical", "shadow"}
    BY DEF TypeOK
  <2>2. Collected(c, l) \in [status : Outcomes, events : BOOLEAN]
    BY <2>1, CollectedType
  <2> DEFINE run == Collected(c, l)
             t == [tick[s] EXCEPT !.step = "saveRun", !.run = run,
                                  !.report = run.status]
  <2>3. run \in [status : Outcomes, events : BOOLEAN] /\ run.status \in Outcomes
    BY <2>2
  <2>4. tick' = [tick EXCEPT ![s].step = "saveRun", ![s].run = run,
                             ![s].report = run.status]
    BY <1>2
  <2> HIDE DEF run
  <2>5. t \in Tick /\ t.due = tick[s].due
    BY <1>0, <2>3 DEF Tick, Steps
  <2>6. tick' = [tick EXCEPT ![s] = t]
    BY <2>4 DEF TypeOK
  <2>7. TicksFit'
    BY <1>0, <2>5, <2>6, OneTickFits, WorkingFits
  <2> QED  BY <1>2, <2>7, FaultType DEF Collect, TypeOK, TicksFit
<1> QED  BY <1>1, <1>2 DEF Collect

(* The rows that a tick writes are typed.                                  *)
LEMMA RowsType ==
  ASSUME TypeOK, NEW s \in Schedulers, Holding(s)
  PROVE  /\ RunSaved(s) \subseteq Run
         /\ tick[s].step \in {"saveRun", "saveEvents", "stageOutcome",
                             "stageSnapshot"} => Keeps(s) \subseteq Kept
<1>1. Key(s) \in Keys /\ tick[s].gen \in Nat /\ tick[s].run.status \in Outcomes
  BY KeyType DEF Holding, TypeOK, Tick
<1>2. RunSaved(s) \subseteq Run
  BY <1>1 DEF RunSaved, Run, TypeOK
<1>3. \A what \in {"events", "completed", "failed", "snapshot"} :
        Row(s, what) \in Kept
  BY <1>1 DEF Row, Kept
<1>4. Notice(s) \in {"completed", "failed"}
  BY DEF Notice
<1> QED  BY <1>2, <1>3, <1>4 DEF Keeps, At

(* SaveRun leaves a typed state.                                           *)
LEMMA SaveRunType ==
  ASSUME TypeOK, NEW s \in Schedulers, SaveRun(s)
  PROVE  TypeOK'
<1>1. Holding(s) /\ TicksFit'
  BY EnterType DEF SaveRun, At, Holding, Steps
<1> QED  BY <1>1, RowsType DEF SaveRun, TypeOK, TicksFit

(* Keep leaves a typed state.                                              *)
LEMMA KeepType ==
  ASSUME TypeOK, NEW s \in Schedulers, Keep(s)
  PROVE  TypeOK'
<1>1. Holding(s) /\ After(s) \in Steps
  BY DEF Keep, At, Holding, After, Steps
<1>2. TicksFit'
  BY <1>1, EnterType DEF Keep
<1> QED  BY <1>1, <1>2, RowsType DEF Keep, TypeOK, TicksFit

(* PersistThrows leaves a typed state.                                     *)
LEMMA PersistThrowsType ==
  ASSUME TypeOK, NEW s \in Schedulers, PersistThrows(s)
  PROVE  TypeOK'
<1>1. Holding(s)
  BY DEF PersistThrows, Holding
<1>2. TicksFit'
  BY <1>1, ReportType DEF PersistThrows, Steps, Outcomes, Done
<1>3. runs' \subseteq Run /\ kept' \subseteq Kept
  BY <1>1, RowsType DEF PersistThrows, TypeOK
<1> QED  BY <1>2, <1>3, FaultType DEF PersistThrows, TypeOK, TicksFit

(* Finalize leaves a typed state.                                          *)
LEMMA FinalizeType ==
  ASSUME TypeOK, NEW s \in Schedulers, Finalize(s)
  PROVE  TypeOK'
<1> DEFINE report == IF CurrentOwner(s) THEN tick[s].report ELSE "failed"
<1>1. Holding(s) /\ report \in Outcomes
  BY DEF Finalize, At, Holding, TypeOK, Tick, Outcomes
<1>2. tick' = [tick EXCEPT ![s].step = "release", ![s].report = report]
  BY DEF Finalize, TypeOK, Tick
<1> HIDE DEF report
<1>3. TicksFit'
  BY <1>1, <1>2, ReportType DEF Steps
<1> QED  BY <1>3 DEF Finalize, TypeOK, TicksFit

(* GuardThrows leaves a typed state.                                       *)
LEMMA GuardThrowsType ==
  ASSUME TypeOK, NEW s \in Schedulers, GuardThrows(s)
  PROVE  TypeOK'
<1>1. Holding(s)
  BY DEF GuardThrows, At, Holding
<1>2. TicksFit'
  BY <1>1, ReportType DEF GuardThrows, Steps, Outcomes
<1> QED  BY <1>2, FaultType DEF GuardThrows, TypeOK, TicksFit

(* Release leaves a typed state.                                           *)
LEMMA ReleaseType ==
  ASSUME TypeOK, NEW s \in Schedulers, Release(s)
  PROVE  TypeOK'
<1>1. Key(s) \in Keys
  BY KeyType DEF Release, At
<1>2. lease' \in [Keys -> Lease]
  BY <1>1 DEF Release, TypeOK, Lease
<1>3. TicksFit'
  BY NextDispatchType DEF Release
<1> QED  BY <1>2, <1>3 DEF Release, TypeOK, TicksFit

(* A tick that is cut short leaves a typed state.                          *)
LEMMA AbortType ==
  ASSUME TypeOK, NEW s \in Schedulers, Abort(s)
  PROVE  TypeOK'
<1>1. Fits(IdleTick)
  BY IdleTickType DEF Fits, IdleTick
<1>2. TicksFit'
  BY <1>1, OneTickFits DEF Abort
<1> QED  BY <1>2, FaultType DEF Abort, TypeOK, TicksFit

(* The initial state is typed.                                             *)
LEMMA InitType == Init => TypeOK
  BY IdleTickType DEF Init, TypeOK, IdleTick, NoLease, Lease

(* Every step preserves types.                                             *)
LEMMA NextType == TypeOK /\ [Next]_vars => TypeOK'
<1> SUFFICES ASSUME TypeOK, [Next]_vars PROVE TypeOK'
  OBVIOUS
<1>1. ASSUME NEW s \in Schedulers, Work(s) PROVE TypeOK'
  BY <1>1, StartType, PlanItemType, AcquireType, CollectType, SaveRunType,
     KeepType, FinalizeType, ReleaseType DEF Work
<1>2. CASE Pass
  BY <1>2 DEF Pass, TypeOK, Keys, Slots
<1>3. CASE UNCHANGED vars
  BY <1>3 DEF vars, TypeOK
<1> QED  BY <1>1, <1>2, <1>3, PersistThrowsType, GuardThrowsType, AbortType
         DEF Next

(* Every reachable state is well typed.                                    *)
THEOREM TypeCorrect == Spec => []TypeOK
  BY InitType, NextType, PTL DEF Spec

-----------------------------------------------------------------------------
(* The leases exclude.  Of a step only this matters: which ticks keep      *)
(* acting on their grants, and what becomes of the leases.                 *)

(* The ticks that hold a grant after the step held it before. *)
Carried ==
  \A s \in Schedulers : Holding(s)' =>
    /\ Holding(s)
    /\ Key(s)' = Key(s)
    /\ tick'[s].gen = tick[s].gen
    /\ tick'[s].at = tick[s].at

(* No lease is granted, and one that ends has run out or ends by a tick    *)
(* that acts on it no more.                                                *)
NoGrant ==
  \A k \in Keys :
    /\ lease'[k].gen = lease[k].gen
    /\ lease'[k].expiresAt = lease[k].expiresAt
    /\ \/ lease'[k].status = lease[k].status
       \/ lease[k].expiresAt <= now'
       \/ \A s \in Schedulers : Holding(s)' =>
            ~(Key(s)' = k /\ tick'[s].gen = lease[k].gen)

(* A step of one tick that takes no grant. *)
Moves(s) ==
  /\ \A u \in Schedulers \ {s} : tick'[u] = tick[u]
  /\ Holding(s)' => /\ Holding(s)
                    /\ tick'[s].due = tick[s].due
                    /\ tick'[s].at = tick[s].at
                    /\ tick'[s].gen = tick[s].gen
  /\ tick'[s].at <= now

(* Such a step carries all grants. *)
LEMMA MoveCarries ==
  ASSUME NEW s \in Schedulers, Moves(s)
  PROVE  Carried
<1> SUFFICES ASSUME NEW u \in Schedulers, Holding(u)'
             PROVE  Holding(u) /\ Key(u)' = Key(u) /\ tick'[u].gen = tick[u].gen
                    /\ tick'[u].at = tick[u].at
  BY DEF Carried
<1>1. CASE u = s
  BY <1>1 DEF Moves, Key, Item
<1>2. CASE u # s
  BY <1>2 DEF Moves, Holding, Key, Item
<1> QED  BY <1>1, <1>2

(* Grants that are carried through a step without a new one stay sound.    *)
LEMMA GrantsCarried ==
  ASSUME IndInv, TypeOK', Carried, NoGrant, now' \in Nat, now <= now'
  PROVE  Grants' /\ DistinctGrants'
<1>1. ASSUME NEW s \in Schedulers, Holding(s)'
      PROVE  HoldsGrant(s)'
  <2> DEFINE k == Key(s)
  <2>1. /\ Holding(s) /\ HoldsGrant(s) /\ k \in Keys
        /\ Key(s)' = k /\ tick'[s].gen = tick[s].gen /\ tick'[s].at = tick[s].at
    BY <1>1, KeyType DEF Carried, IndInv, Grants, Holding
  <2>2. /\ lease'[k].gen = lease[k].gen
        /\ lease'[k].expiresAt = lease[k].expiresAt
        /\ \/ lease'[k].status = lease[k].status
           \/ lease[k].expiresAt <= now'
           \/ tick[s].gen # lease[k].gen
    BY <1>1, <2>1 DEF NoGrant
  <2>3. /\ tick[s].gen \in Nat /\ tick[s].at \in Nat /\ now \in Nat
        /\ lease[k].gen \in Nat /\ lease[k].expiresAt \in Nat
        /\ LeaseTerm \in Nat
    BY <2>1 DEF IndInv, TypeOK, Tick, Lease
  <2> HIDE DEF k
  <2> QED  BY <2>1, <2>2, <2>3 DEF HoldsGrant, k
<1>2. DistinctGrants'
  BY DEF IndInv, DistinctGrants, Carried
<1> QED  BY <1>1, <1>2 DEF Grants

(* A step of one tick that takes no grant preserves the invariant.         *)
LEMMA MoveInv ==
  ASSUME IndInv, TypeOK', NEW s \in Schedulers, Moves(s), NoGrant, now' = now
  PROVE  IndInv'
<1>1. Started'
  BY DEF IndInv, Started, Moves
<1>2. now' \in Nat /\ now <= now'
  BY DEF TypeOK, IndInv
<1>3. Grants' /\ DistinctGrants'
  BY <1>2, MoveCarries, GrantsCarried
<1> QED  BY <1>1, <1>3 DEF IndInv

(* The statements of a tick between its lease and its release.             *)
LEMMA WorkingInv ==
  ASSUME IndInv, NEW s \in Schedulers,
         \/ Collect(s) \/ SaveRun(s) \/ Keep(s) \/ Finalize(s)
         \/ PersistThrows(s) \/ GuardThrows(s)
  PROVE  IndInv' /\ Holding(s)' /\ Moves(s) /\ UNCHANGED <<now, lease>>
<1>0. TypeOK /\ Started
  BY DEF IndInv
<1>1. TypeOK'
  BY <1>0, CollectType, SaveRunType, KeepType, FinalizeType,
     PersistThrowsType, GuardThrowsType
<1>2. UNCHANGED <<now, lease>>
  BY DEF Collect, SaveRun, Keep, Finalize, PersistThrows, GuardThrows
<1>3. NoGrant
  BY <1>2 DEF NoGrant
<1>4. tick[s] \in Tick /\ tick' \in [Schedulers -> Tick]
  BY <1>0, <1>1 DEF TypeOK
<1>5. Holding(s) /\ tick[s].at <= now
  BY <1>0 DEF Collect, SaveRun, Keep, Finalize, PersistThrows, GuardThrows,
              At, Holding, Started
<1>6. /\ \A u \in Schedulers \ {s} : tick'[u] = tick[u]
      /\ tick'[s].due = tick[s].due
      /\ tick'[s].at = tick[s].at
      /\ tick'[s].gen = tick[s].gen
      /\ tick'[s].step \notin {"idle", "plan", "acquire"}
  <2>1. ASSUME NEW step \in Steps \ {"idle", "plan", "acquire"}, Enter(s, step)
        PROVE  <1>6
    BY <1>0, <1>4, <2>1 DEF Enter, TypeOK, Tick
  <2>2. CASE Collect(s)
    <3>1. ASSUME NEW c \in Canonical, NEW l \in Legacy,
                 tick' = [tick EXCEPT ![s].step = "saveRun",
                                      ![s].run = Collected(c, l),
                                      ![s].report = Collected(c, l).status]
          PROVE  <1>6
      BY <1>0, <1>4, <3>1 DEF TypeOK, Tick
    <3>2. CASE Enter(s, "release")
      BY <2>1, <3>2 DEF Steps
    <3> QED  BY <2>2, <3>1, <3>2 DEF Collect
  <2>3. CASE SaveRun(s)
    BY <2>1, <2>3 DEF SaveRun, Steps
  <2>4. CASE Keep(s)
    <3>1. After(s) \in Steps \ {"idle", "plan", "acquire"}
      BY <2>4 DEF Keep, After, At, Steps
    <3> QED  BY <2>1, <2>4, <3>1 DEF Keep
  <2>5. CASE Finalize(s)
    BY <1>0, <1>4, <2>5 DEF Finalize, TypeOK, Tick
  <2>6. CASE PersistThrows(s)
    BY <1>0, <1>4, <2>6 DEF PersistThrows, TypeOK, Tick
  <2>7. CASE GuardThrows(s)
    BY <1>0, <1>4, <2>7 DEF GuardThrows, TypeOK, Tick
  <2> QED  BY <2>2, <2>3, <2>4, <2>5, <2>6, <2>7
<1>7. Moves(s) /\ Holding(s)'
  BY <1>5, <1>6 DEF Moves, Holding
<1> QED  BY <1>1, <1>2, <1>3, <1>7, MoveInv

(* Start expires only leases that have run out.                            *)
LEMMA StartInv ==
  ASSUME IndInv, NEW s \in Schedulers, Start(s)
  PROVE  IndInv' /\ Moves(s) /\ ~Holding(s) /\ ~Holding(s)'
<1>0. TypeOK /\ TypeOK'
  BY StartType DEF IndInv
<1>1. NoGrant
  BY <1>0 DEF Start, NoGrant, TypeOK, Lease
<1> DEFINE t == [IdleTick EXCEPT !.step = "plan", !.at = now, !.unread = Items]
<1>2. t.step = "plan" /\ t.at = now
  BY <1>0, PlanningType DEF TypeOK
<1>3. tick' = [tick EXCEPT ![s] = t]
  BY DEF Start
<1> HIDE DEF t
<1>4. tick'[s] = t /\ \A u \in Schedulers \ {s} : tick'[u] = tick[u]
  BY <1>0, <1>3 DEF TypeOK
<1>5. now \in Nat /\ now' = now
  BY <1>0 DEF TypeOK, Start
<1>6. Moves(s) /\ ~Holding(s) /\ ~Holding(s)'
  BY <1>2, <1>4, <1>5 DEF Moves, Holding, Start, At
<1> QED  BY <1>0, <1>1, <1>5, <1>6, MoveInv

(* A tick that goes on to an item, or ends, holds nothing.                 *)
LEMMA DispatchMoves ==
  ASSUME TypeOK, Started, NEW s \in Schedulers, NEW due \in SUBSET Items,
         tick' = [tick EXCEPT ![s] = Dispatching(tick[s], due)]
  PROVE  Moves(s) /\ ~Holding(s)'
<1> DEFINE t == Dispatching(tick[s], due)
<1>0. tick[s] \in Tick /\ now \in Nat /\ tick[s].at <= now
  BY DEF TypeOK, Started
<1>1. t.step \in {"idle", "acquire"} /\ t.at <= now
  BY <1>0, DispatchingType
<1>2. tick' = [tick EXCEPT ![s] = t]
  OBVIOUS
<1> HIDE DEF t
<1>3. tick'[s] = t /\ \A u \in Schedulers \ {s} : tick'[u] = tick[u]
  BY <1>2 DEF TypeOK
<1> QED  BY <1>1, <1>3 DEF Moves, Holding

(* So does a tick that leaves the item at hand for the next one.           *)
LEMMA NextDispatchMoves ==
  ASSUME TypeOK, Started, NEW s \in Schedulers, NextDispatch(s)
  PROVE  Moves(s) /\ ~Holding(s)'
<1>1. tick[s].due \ {Item(s)} \in SUBSET Items
  BY DEF TypeOK, Tick
<1>2. tick' = [tick EXCEPT ![s] = Dispatching(tick[s], tick[s].due \ {Item(s)})]
  BY DEF NextDispatch
<1> QED  BY <1>1, <1>2, DispatchMoves

(* Planning an item touches no lease.                                      *)
LEMMA PlanItemInv ==
  ASSUME IndInv, NEW s \in Schedulers, NEW i \in Items, PlanItem(s, i)
  PROVE  IndInv' /\ Moves(s) /\ ~Holding(s) /\ ~Holding(s)'
<1>0. TypeOK /\ Started /\ TypeOK'
  BY PlanItemType DEF IndInv
<1>1. NoGrant /\ now' = now /\ ~Holding(s)
  BY DEF NoGrant, PlanItem, Holding, At
<1> DEFINE t == tick[s]
           due == IF Satisfied(i, t.at) THEN t.due ELSE t.due \cup {i}
           more == [t EXCEPT !.due = due, !.unread = @ \ {i}]
<1>2. tick' = [tick EXCEPT ![s] =
        IF t.unread = {i} THEN Dispatching(t, due) ELSE more]
  BY DEF PlanItem
<1>3. t \in Tick /\ due \in SUBSET Items /\ t.step = "plan" /\ t.at <= now
  BY <1>0 DEF TypeOK, Tick, PlanItem, At, Started
<1>4. Moves(s) /\ ~Holding(s)'
  <2>1. CASE t.unread = {i}
    <3>1. tick' = [tick EXCEPT ![s] = Dispatching(tick[s], due)]
      BY <1>2, <2>1
    <3> HIDE DEF due
    <3> QED  BY <1>0, <1>3, <3>1, DispatchMoves
  <2>2. CASE t.unread # {i}
    <3> HIDE DEF t, due
    <3>1. more.step = "plan" /\ more.at = t.at
      BY <1>3 DEF Tick
    <3> HIDE DEF more
    <3>2. tick' = [tick EXCEPT ![s] = more]
      BY <1>2, <2>2
    <3>3. tick'[s] = more /\ \A u \in Schedulers \ {s} : tick'[u] = tick[u]
      BY <1>0, <3>2 DEF TypeOK
    <3> QED  BY <1>3, <3>1, <3>3 DEF Moves, Holding
  <2> QED  BY <2>1, <2>2
<1> QED  BY <1>0, <1>1, <1>4, MoveInv

(* A tick that is cut short keeps no grant and touches no lease.           *)
LEMMA AbortInv ==
  ASSUME IndInv, NEW s \in Schedulers, Abort(s)
  PROVE  IndInv' /\ Moves(s) /\ ~Holding(s)'
<1>0. TypeOK /\ TypeOK'
  BY AbortType DEF IndInv
<1>1. NoGrant /\ now' = now /\ now \in Nat
  BY <1>0 DEF NoGrant, Abort, TypeOK
<1>2. tick'[s] = IdleTick /\ \A u \in Schedulers \ {s} : tick'[u] = tick[u]
  BY <1>0 DEF Abort, TypeOK
<1>3. Moves(s) /\ ~Holding(s)'
  BY <1>1, <1>2 DEF Moves, Holding, IdleTick
<1> QED  BY <1>0, <1>1, <1>3, MoveInv

(* The clock only takes leases towards their end.                          *)
LEMMA PassInv ==
  ASSUME IndInv, Pass
  PROVE  IndInv'
<1>1. TypeOK /\ TypeOK'
  BY NextType DEF IndInv, Next
<1>2. now \in Nat /\ now' = now + 1
  BY <1>1 DEF TypeOK, Pass
<1>3. Started'
  BY <1>1, <1>2 DEF IndInv, Started, Pass, TypeOK, Tick
<1>4. NoGrant /\ Carried
  BY DEF NoGrant, Carried, Pass, Holding, Key, Item
<1> QED  BY <1>1, <1>2, <1>3, <1>4, GrantsCarried DEF IndInv

(* A release ends only the lease of the tick that gives it back: every     *)
(* other tick at the same key acts on another grant.                       *)
LEMMA ReleaseInv ==
  ASSUME IndInv, NEW s \in Schedulers, Release(s)
  PROVE  IndInv' /\ Moves(s) /\ Holding(s) /\ ~Holding(s)'
<1>0. TypeOK /\ Started /\ TypeOK'
  BY ReleaseType DEF IndInv
<1>1. Moves(s) /\ ~Holding(s)' /\ Holding(s) /\ now' = now
  BY <1>0, NextDispatchMoves DEF Release, At, Holding
<1>2. Carried
  BY <1>1, MoveCarries
<1>3. NoGrant
  <2>1. CASE ~Owns(s)
    BY <2>1 DEF Release, NoGrant
  <2>2. CASE Owns(s)
    <3>1. Key(s) \in Keys /\ lease[Key(s)].gen = tick[s].gen
      BY <1>0, <1>1, <2>2, KeyType DEF Holding, Owns
    <3>2. \A u \in Schedulers : Holding(u)' =>
            ~(Key(u)' = Key(s) /\ tick'[u].gen = lease[Key(s)].gen)
      BY <1>1, <1>2, <3>1 DEF Carried, IndInv, DistinctGrants
    <3>3. lease' = [lease EXCEPT ![Key(s)].status = "released"]
      BY <2>2 DEF Release
    <3>4. \A k \in Keys :
            /\ lease'[k].gen = lease[k].gen
            /\ lease'[k].expiresAt = lease[k].expiresAt
            /\ k # Key(s) => lease'[k].status = lease[k].status
      BY <1>0, <3>1, <3>3 DEF TypeOK, Lease
    <3> QED  BY <3>2, <3>4 DEF NoGrant
  <2> QED  BY <2>1, <2>2
<1> QED  BY <1>0, <1>1, <1>3, MoveInv

(* What a tick leaves behind that is granted a lease. *)
Granted(s) ==
  LET k == Key(s) IN
  /\ k \in Keys
  /\ lease[k].status # "acquired" \/ lease[k].expiresAt <= now
  /\ lease' = [lease EXCEPT ![k] =
       [status |-> "acquired", gen |-> lease[k].gen + 1,
        expiresAt |-> tick[s].at + LeaseTerm]]
  /\ \A u \in Schedulers \ {s} : tick'[u] = tick[u]
  /\ ~Holding(s) /\ Holding(s)'
  /\ Key(s)' = k
  /\ tick'[s].gen = lease[k].gen + 1
  /\ tick'[s].at = tick[s].at

(* Acquire either finds a lease that is free by the clock, or goes on.     *)
LEMMA AcquireCases ==
  ASSUME IndInv, NEW s \in Schedulers, Acquire(s)
  PROVE  \/ Granted(s)
         \/ lease' = lease /\ Moves(s) /\ ~Holding(s) /\ ~Holding(s)'
<1> DEFINE k == Key(s)
<1>0. TypeOK /\ Started
  BY DEF IndInv
<1>1. k \in Keys /\ tick[s] \in Tick /\ lease[k] \in Lease /\ tick[s].at <= now
  BY <1>0, KeyType DEF Acquire, At, TypeOK, Started
<1>2. ~Holding(s)
  BY DEF Acquire, At, Holding
<1>3. CASE Free(k, tick[s].at)
  <2>1. lease[k].status # "acquired" \/ lease[k].expiresAt <= now
    BY <1>0, <1>1, <1>3 DEF Free, Lease, Tick, TypeOK
  <2>2. /\ lease' = [lease EXCEPT ![k] =
              [status |-> "acquired", gen |-> lease[k].gen + 1,
               expiresAt |-> tick[s].at + LeaseTerm]]
        /\ tick' = [tick EXCEPT ![s].step = "guard",
                                ![s].gen = lease[k].gen + 1]
    BY <1>0, <1>1, <1>3 DEF Acquire, TypeOK
  <2> HIDE DEF k
  <2>3. /\ \A u \in Schedulers \ {s} : tick'[u] = tick[u]
        /\ tick'[s].step = "guard"
        /\ tick'[s].due = tick[s].due
        /\ tick'[s].gen = lease[k].gen + 1
        /\ tick'[s].at = tick[s].at
    BY <1>0, <1>1, <2>2 DEF TypeOK, Tick
  <2>4. Key(s)' = Key(s)
    BY <2>3 DEF Key, Item
  <2> QED  BY <1>1, <1>2, <2>1, <2>2, <2>3, <2>4 DEF Granted, Holding, k
<1>4. CASE ~Free(k, tick[s].at)
  BY <1>0, <1>2, <1>4, NextDispatchMoves DEF Acquire
<1> QED  BY <1>3, <1>4

(* A grant starts a new generation, above that of every tick that still    *)
(* acts on the key, and their terms are over.                              *)
LEMMA AcquireInv ==
  ASSUME IndInv, NEW s \in Schedulers, Acquire(s)
  PROVE  IndInv'
<1>0. TypeOK /\ Started /\ TypeOK' /\ now' = now
  BY AcquireType DEF IndInv, Acquire
<1>1. CASE lease' = lease /\ Moves(s)
  BY <1>0, <1>1, MoveInv DEF NoGrant
<1>2. CASE Granted(s)
  <2> DEFINE k == Key(s)
  <2>1. Started'
    BY <1>0, <1>2 DEF Granted, Started
  <2>2. k \in Keys /\ lease[k] \in Lease /\ tick[s] \in Tick
    BY <1>0, <1>2 DEF Granted, TypeOK
  <2>3. /\ lease'[k].status = "acquired"
        /\ lease'[k].gen = lease[k].gen + 1
        /\ lease'[k].expiresAt = tick[s].at + LeaseTerm
        /\ \A j \in Keys \ {k} : lease'[j] = lease[j]
    BY <1>0, <1>2, <2>2 DEF Granted, TypeOK
  <2>4. HoldsGrant(s)'
    BY <1>2, <2>2, <2>3 DEF Granted, HoldsGrant, Lease
  <2>5. ASSUME NEW u \in Schedulers \ {s}, Holding(u)'
        PROVE  /\ Holding(u) /\ HoldsGrant(u) /\ HoldsGrant(u)'
               /\ Key(u)' = Key(u) /\ tick'[u].gen = tick[u].gen
               /\ Key(u) = k => tick[u].gen < lease[k].gen + 1
    <3>1. tick'[u] = tick[u] /\ Key(u)' = Key(u) /\ Holding(u)
      BY <1>2, <2>5 DEF Granted, Key, Item, Holding
    <3>2. HoldsGrant(u) /\ Key(u) \in Keys /\ tick[u] \in Tick
      BY <1>0, <3>1, KeyType DEF IndInv, Grants, Holding, TypeOK
    <3>3. CASE Key(u) # k
      BY <1>0, <2>3, <3>1, <3>2, <3>3 DEF HoldsGrant
    <3>4. CASE Key(u) = k
      <4>1. tick[u].gen \in Nat /\ tick[u].at \in Nat /\ now \in Nat
            /\ lease[k].gen \in Nat /\ lease[k].expiresAt \in Nat
            /\ LeaseTerm \in Nat
        BY <1>0, <2>2, <3>2 DEF Tick, Lease, TypeOK
      <4>2. tick[u].gen <= lease[k].gen /\ tick[u].at + LeaseTerm <= now
        BY <1>2, <3>2, <3>4, <4>1 DEF HoldsGrant, Granted
      <4> HIDE DEF k
      <4> QED  BY <1>0, <2>3, <3>1, <3>2, <3>4, <4>1, <4>2 DEF HoldsGrant
    <3> QED  BY <3>1, <3>2, <3>3, <3>4
  <2>6. Grants'
    BY <2>4, <2>5 DEF Grants
  <2>7. DistinctGrants'
    <3> SUFFICES ASSUME NEW u \in Schedulers, NEW v \in Schedulers,
                        Holding(u)', Holding(v)', Key(u)' = Key(v)',
                        tick'[u].gen = tick'[v].gen
                 PROVE  u = v
      BY DEF DistinctGrants
    <3>1. \A w \in Schedulers \ {s} : Holding(w)' /\ Key(w)' = Key(s)' =>
            tick'[w].gen # tick'[s].gen
      <4> TAKE w \in Schedulers \ {s}
      <4> HAVE Holding(w)' /\ Key(w)' = Key(s)'
      <4>1. tick'[w].gen < lease[k].gen + 1 /\ tick'[s].gen = lease[k].gen + 1
        BY <1>2, <2>5 DEF Granted
      <4> QED  BY <2>2, <4>1 DEF Lease
    <3>2. CASE u # s /\ v # s
      BY <2>5, <3>2 DEF IndInv, DistinctGrants
    <3> QED  BY <3>1, <3>2
  <2> QED  BY <1>0, <2>1, <2>6, <2>7 DEF IndInv
<1> QED  BY <1>1, <1>2, AcquireCases

(* The initial state satisfies the invariant: nobody holds anything.       *)
LEMMA InitInv == Init => IndInv
  BY InitType DEF Init, IndInv, Started, Grants, DistinctGrants, IdleTick,
     Holding

(* Every step preserves the invariant.                                     *)
LEMMA NextInv == IndInv /\ [Next]_vars => IndInv'
<1> SUFFICES ASSUME IndInv, [Next]_vars PROVE IndInv'
  OBVIOUS
<1>1. ASSUME NEW s \in Schedulers, Work(s) PROVE IndInv'
  BY <1>1, StartInv, PlanItemInv, AcquireInv, WorkingInv, ReleaseInv DEF Work
<1>2. CASE UNCHANGED vars
  BY <1>2 DEF vars, IndInv, TypeOK, Started, Grants, DistinctGrants,
     HoldsGrant, Holding, Key, Item
<1> QED  BY <1>1, <1>2, WorkingInv, AbortInv, PassInv DEF Next

(* Two ticks act on one slot only after the term of the older has passed.  *)
THEOREM Exclusion == Spec => []OverlapNeedsExpiry
<1>1. IndInv => OverlapNeedsExpiry
  <2> SUFFICES ASSUME IndInv, NEW s \in Schedulers, NEW t \in Schedulers,
                      Holding(s), Holding(t), Key(s) = Key(t),
                      tick[s].gen < tick[t].gen
               PROVE  now >= tick[s].at + LeaseTerm
    BY DEF OverlapNeedsExpiry
  <2>1. HoldsGrant(s) /\ HoldsGrant(t) /\ Key(s) \in Keys
    BY KeyType DEF IndInv, Grants, Holding
  <2>2. lease[Key(s)].gen \in Nat /\ tick[s].gen \in Nat /\ tick[t].gen \in Nat
        /\ tick[s].at \in Nat /\ now \in Nat /\ LeaseTerm \in Nat
    BY <2>1 DEF IndInv, TypeOK, Tick, Lease
  <2> QED  BY <2>1, <2>2 DEF HoldsGrant
<1> QED  BY <1>1, InitInv, NextInv, PTL DEF Spec

-----------------------------------------------------------------------------
(* The lease table implements the fenced lease.                            *)

(* A step that changes no tick's hold changes no grip. *)
LEMMA GripUnchanged ==
  ASSUME NEW s \in Schedulers, Moves(s), Holding(s)' <=> Holding(s)
  PROVE  Grip' = Grip
<1>1. \A u \in Schedulers : Holding(u)' <=> Holding(u)
  BY DEF Moves, Holding
<1>2. \A u \in Schedulers : Holding(u)' => Hold(u)' = Hold(u)
  BY MoveCarries DEF Carried, Hold
<1> QED  BY <1>1, <1>2 DEF Grip

(* A tick that stops acting on its grant takes its hold out of the grip.   *)
LEMMA GripLoses ==
  ASSUME NEW s \in Schedulers, Moves(s), Holding(s), ~Holding(s)'
  PROVE  Hold(s) \in Grip /\ Grip' = Grip \ {Hold(s)}
<1>1. \A u \in Schedulers : Holding(u)' <=> Holding(u) /\ u # s
  BY DEF Moves, Holding
<1>2. \A u \in Schedulers : Holding(u)' => Hold(u)' = Hold(u)
  BY MoveCarries DEF Carried, Hold
<1>3. \A u \in Schedulers : Hold(u) = Hold(s) => u = s
  BY DEF Hold
<1> QED  BY <1>1, <1>2, <1>3 DEF Grip

(* The tick that is granted a lease adds its hold.                         *)
LEMMA GripGains ==
  ASSUME NEW s \in Schedulers, Granted(s)
  PROVE  Grip' = Grip \cup {[by |-> s, key |-> Key(s),
                             epoch |-> lease[Key(s)].gen + 1]}
<1>1. \A u \in Schedulers : Holding(u)' <=> Holding(u) \/ u = s
  BY DEF Granted, Holding
<1>2. \A u \in Schedulers \ {s} : Hold(u)' = Hold(u)
  BY DEF Granted, Hold, Key, Item
<1>3. Hold(s)' = [by |-> s, key |-> Key(s), epoch |-> lease[Key(s)].gen + 1]
  BY DEF Granted, Hold
<1>4. ~Holding(s)
  BY DEF Granted
<1> QED  BY <1>1, <1>2, <1>3, <1>4 DEF Grip

(* The mapped tables after a step are those of the leases after it.        *)
LEMMA MappedTables ==
  /\ Epoch' = [k \in Keys |-> lease'[k].gen]
  /\ Until' = [k \in Keys |-> lease'[k].expiresAt]
  /\ Live' = [k \in Keys |-> lease'[k].status = "acquired"]
  BY DEF Epoch, Until, Live, Keys, Slots

(* The first state of the leases is the abstract one.                      *)
LEMMA InitRefines == Init => Leases!Init
<1> SUFFICES ASSUME Init PROVE Leases!Init
  OBVIOUS
<1>1. \A k \in Keys : /\ lease[k].gen = 0
                      /\ lease[k].expiresAt = 0
                      /\ (lease[k].status = "acquired") = FALSE
  BY DEF Init, NoLease
<1>2. Epoch = [k \in Keys |-> 0] /\ Until = [k \in Keys |-> 0]
  BY <1>1 DEF Epoch, Until
<1>3. Live = [k \in Keys |-> FALSE]
  BY <1>1, Zenon DEF Live
<1>4. Grip = {}
  BY DEF Init, Grip, Holding, IdleTick
<1> QED  BY <1>2, <1>3, <1>4 DEF Init, Leases!Init

(* A step that leaves clock, leases and holds alone stutters.              *)
LEMMA StutterRefines ==
  ASSUME UNCHANGED <<now, lease>>, Grip' = Grip
  PROVE  UNCHANGED Leases!vars
  BY DEF Leases!vars, Epoch, Live, Until

(* The cleanup of a tick's start expires what has run out.                 *)
LEMMA StartRefines ==
  ASSUME IndInv, NEW s \in Schedulers, Start(s)
  PROVE  Leases!Next
<1> DEFINE gone == {k \in Keys : lease[k].status = "acquired"
                                 /\ lease[k].expiresAt <= now}
<1>0. TypeOK
  BY DEF IndInv
<1>1. Grip' = Grip
  BY StartInv, GripUnchanged
<1>2. \A k \in Keys :
        /\ lease'[k].gen = lease[k].gen
        /\ lease'[k].expiresAt = lease[k].expiresAt
        /\ (lease'[k].status = "acquired")
             <=> (lease[k].status = "acquired" /\ k \notin gone)
  BY <1>0 DEF Start, TypeOK, Lease
<1>3. Epoch' = Epoch /\ Until' = Until
  BY <1>2, MappedTables DEF Epoch, Until
<1>4. Live' = [k \in Keys |-> Live[k] /\ k \notin gone]
  BY <1>2, MappedTables, Zenon DEF Live
<1>5. gone \in SUBSET {k \in Keys : Until[k] <= now}
  BY DEF Until
<1>6. now' = now
  BY DEF Start
<1>7. Leases!Expire
  BY <1>1, <1>3, <1>4, <1>5, <1>6 DEF Leases!Expire
<1> QED  BY <1>7 DEF Leases!Next

(* An acquisition is a grant of a key whose lease is over.                 *)
LEMMA GrantRefines ==
  ASSUME IndInv, NEW s \in Schedulers, Acquire(s), Granted(s)
  PROVE  Leases!Next
<1> DEFINE k == Key(s)
<1>0. TypeOK /\ k \in Keys /\ lease[k] \in Lease /\ tick[s] \in Tick
      /\ tick[s].at <= now
  BY DEF IndInv, TypeOK, Granted, Started
<1>1. \A j \in Keys : lease'[j] = IF j = k
        THEN [status |-> "acquired", gen |-> lease[k].gen + 1,
              expiresAt |-> tick[s].at + LeaseTerm]
        ELSE lease[j]
  BY <1>0 DEF Granted, TypeOK
<1> HIDE DEF k
<1>2. ~Live[k] \/ Until[k] <= now
  BY <1>0 DEF Granted, Live, Until, k
<1>3. Epoch' = [Epoch EXCEPT ![k] = @ + 1]
  <2>1. \A j \in Keys : lease'[j].gen =
          IF j = k THEN lease[k].gen + 1 ELSE lease[j].gen
    BY <1>1
  <2> QED  BY <2>1, MappedTables DEF Epoch
<1>4. Live' = [Live EXCEPT ![k] = TRUE]
  <2>1. lease'[k].status = "acquired" /\ \A j \in Keys \ {k} : lease'[j] = lease[j]
    BY <1>0, <1>1 DEF k
  <2>2. \A j \in Keys : (lease'[j].status = "acquired") =
          IF j = k THEN TRUE ELSE (lease[j].status = "acquired")
    BY <2>1, Zenon
  <2> QED  BY <2>2, MappedTables, Zenon DEF Live
<1>5. tick[s].at + LeaseTerm \in 0 .. now + LeaseTerm
  BY <1>0 DEF Tick, TypeOK
<1>6. Until' = [Until EXCEPT ![k] = tick[s].at + LeaseTerm]
  <2>1. \A j \in Keys : lease'[j].expiresAt =
          IF j = k THEN tick[s].at + LeaseTerm ELSE lease[j].expiresAt
    BY <1>1
  <2> QED  BY <2>1, MappedTables DEF Until
<1>7. Grip' = Grip \cup {[by |-> s, key |-> k, epoch |-> Epoch[k] + 1]}
  BY <1>0, GripGains DEF Epoch, k
<1>8. now' = now
  BY DEF Acquire
<1>9. Leases!Grant(s, k)
  BY <1>2, <1>3, <1>4, <1>5, <1>6, <1>7, <1>8 DEF Leases!Grant
<1> QED  BY <1>0, <1>9 DEF Leases!Next

(* A release lets go of a hold, and of the lease if it is still the own.   *)
LEMMA ReleaseRefines ==
  ASSUME IndInv, NEW s \in Schedulers, Release(s)
  PROVE  Leases!Next
<1> DEFINE k == Key(s)
<1>0. TypeOK /\ k \in Keys /\ lease[k] \in Lease
  BY KeyType DEF IndInv, TypeOK, Release, At
<1>1. Hold(s) \in Grip /\ Grip' = Grip \ {Hold(s)}
  BY ReleaseInv, GripLoses
<1>2. now' = now
  BY DEF Release
<1>3. CASE ~Owns(s)
  <2>1. lease' = lease
    BY <1>3 DEF Release
  <2>2. Leases!LetGo(Hold(s))
    BY <1>1, <1>2, <2>1 DEF Leases!LetGo, Epoch, Live, Until
  <2> QED  BY <1>1, <2>2 DEF Leases!Next
<1>4. CASE Owns(s)
  <2>1. lease' = [lease EXCEPT ![k].status = "released"]
    BY <1>4 DEF Release
  <2> HIDE DEF k
  <2>2. \A j \in Keys :
          /\ lease'[j].gen = lease[j].gen
          /\ lease'[j].expiresAt = lease[j].expiresAt
          /\ (lease'[j].status = "acquired")
               = (IF j = k THEN FALSE ELSE lease[j].status = "acquired")
    BY <1>0, <2>1 DEF TypeOK, Lease
  <2>3. Epoch' = Epoch /\ Until' = Until
    BY <2>2, MappedTables DEF Epoch, Until
  <2>4. Live' = [Live EXCEPT ![k] = FALSE]
    BY <2>2, MappedTables, Zenon DEF Live
  <2>5. Hold(s).key = k /\ Epoch[k] = Hold(s).epoch
    BY <1>0, <1>4 DEF Hold, Owns, Epoch, k
  <2>6. Leases!LetGo(Hold(s))
    BY <1>1, <1>2, <2>3, <2>4, <2>5 DEF Leases!LetGo
  <2> QED  BY <1>1, <2>6 DEF Leases!Next
<1> QED  BY <1>3, <1>4

(* A tick that is cut short lets go of its hold; its lease runs on.        *)
LEMMA AbortRefines ==
  ASSUME IndInv, NEW s \in Schedulers, Abort(s)
  PROVE  Leases!Next \/ UNCHANGED Leases!vars
<1>1. UNCHANGED <<now, lease>>
  BY DEF Abort
<1>2. CASE Holding(s)
  <2>1. Hold(s) \in Grip /\ Grip' = Grip \ {Hold(s)}
    BY <1>2, AbortInv, GripLoses
  <2>2. Leases!LetGo(Hold(s))
    BY <1>1, <2>1 DEF Leases!LetGo, Epoch, Live, Until
  <2> QED  BY <2>1, <2>2 DEF Leases!Next
<1>3. CASE ~Holding(s)
  BY <1>1, <1>3, AbortInv, GripUnchanged, StutterRefines
<1> QED  BY <1>2, <1>3

(* The clocks agree.                                                       *)
LEMMA PassRefines ==
  ASSUME Pass
  PROVE  Leases!Next
<1>1. Grip' = Grip
  BY DEF Pass, Grip, Hold, Holding, Key, Item
<1>2. Leases!Tick
  BY <1>1 DEF Pass, Leases!Tick, Epoch, Live, Until
<1> QED  BY <1>2 DEF Leases!Next

(* Every step of the schedulers is one of the fenced lease or a stutter.   *)
LEMMA NextRefines ==
  IndInv /\ [Next]_vars => [Leases!Next]_(Leases!vars)
<1> SUFFICES ASSUME IndInv, [Next]_vars
             PROVE  Leases!Next \/ UNCHANGED Leases!vars
  OBVIOUS
<1>1. ASSUME NEW s \in Schedulers,
             \/ Collect(s) \/ SaveRun(s) \/ Keep(s) \/ Finalize(s)
             \/ PersistThrows(s) \/ GuardThrows(s)
      PROVE  UNCHANGED Leases!vars
  <2>1. Moves(s) /\ Holding(s)' /\ UNCHANGED <<now, lease>>
    BY <1>1, WorkingInv
  <2>2. Holding(s)
    BY <2>1 DEF Moves
  <2> QED  BY <2>1, <2>2, GripUnchanged, StutterRefines
<1>2. ASSUME NEW s \in Schedulers, NEW i \in Items, PlanItem(s, i)
      PROVE  UNCHANGED Leases!vars
  BY <1>2, PlanItemInv, GripUnchanged, StutterRefines DEF PlanItem
<1>3. ASSUME NEW s \in Schedulers, Acquire(s)
      PROVE  Leases!Next \/ UNCHANGED Leases!vars
  <2>1. CASE Granted(s)
    BY <1>3, <2>1, GrantRefines
  <2>2. CASE lease' = lease /\ Moves(s) /\ ~Holding(s) /\ ~Holding(s)'
    BY <1>3, <2>2, GripUnchanged, StutterRefines DEF Acquire
  <2> QED  BY <1>3, <2>1, <2>2, AcquireCases
<1>4. ASSUME NEW s \in Schedulers, Work(s)
      PROVE  Leases!Next \/ UNCHANGED Leases!vars
  BY <1>1, <1>2, <1>3, <1>4, StartRefines, ReleaseRefines DEF Work
<1>5. CASE UNCHANGED vars
  BY <1>5, StutterRefines DEF vars, Grip, Hold, Holding, Key, Item
<1> QED  BY <1>1, <1>4, <1>5, AbortRefines, PassRefines DEF Next

(* The schedulers' lease table implements a table of fenced leases.        *)
THEOREM Refinement == Spec => ImplementsFencedLease
  BY InitInv, NextInv, InitRefines, NextRefines, PTL
  DEF Spec, ImplementsFencedLease, Leases!Spec

-----------------------------------------------------------------------------
(* What the dispatches leave behind: the reports, the publications and the *)
(* number of runs of a slot.                                               *)

RunRow(s) == [key |-> Key(s), gen |-> tick[s].gen, status |-> tick[s].run.status]

(* The statements a dispatch has behind it have left their rows, and its   *)
(* report is worse than its run only if one of them did not get through.   *)
Reported(s) ==
  LET did == tick[s].step
      saved == RunRow(s) \in runs
      events == Row(s, "events") \in kept
  IN
  /\ did \in {"acquire", "guard"} => tick[s].report = "failed"
  /\ did \in {"saveRun", "saveEvents", "stageOutcome", "stageSnapshot"} =>
       tick[s].report = tick[s].run.status
  /\ did \in {"saveEvents", "stageOutcome", "stageSnapshot"} => saved
  /\ did \in {"stageOutcome", "stageSnapshot"} => events
  /\ did = "stageSnapshot" => Row(s, Notice(s)) \in kept /\ tick[s].run.events
  /\ did \in {"finalize", "release"} /\ tick[s].report = "success" =>
       /\ tick[s].run.status = "success" /\ saved /\ events
       /\ Row(s, "completed") \in kept
       /\ tick[s].run.events => Row(s, "snapshot") \in kept

Reports == \A s \in Schedulers : Reported(s)

(* A run belongs to a grant of its key, and to one dispatch. *)
RunsGranted == \A r \in runs : r.gen <= lease[r.key].gen

Wrote(s, r) == Holding(s) /\ Key(s) = r.key /\ tick[s].gen = r.gen

OwnRuns ==
  \A s \in Schedulers : \A r \in runs : Wrote(s, r) =>
    tick[s].step \notin {"guard", "saveRun"} /\ r.status = tick[s].run.status

(* The runs that nobody is about to publish any more. *)
NoticeOf(r) ==
  [key |-> r.key, gen |-> r.gen,
   what |-> IF r.status = "failed" THEN "failed" ELSE "completed"]

Publishing(s) == tick[s].step \in {"saveEvents", "stageOutcome"}

Doomed ==
  {r \in runs : /\ NoticeOf(r) \notin kept
                /\ \A s \in Schedulers : Publishing(s) => ~Wrote(s, r)}

Mourned == IsFiniteSet(Doomed) /\ Cardinality(Doomed) <= faults

(* The ticks that may still save a run of a request key. *)
Pending(k) ==
  {s \in Schedulers :
     /\ k[1] \in tick[s].due \cup tick[s].unread
     /\ k[2] = Slot(tick[s].at)
     /\ Holding(s) /\ k[1] = Item(s) => tick[s].step \in {"guard", "saveRun"}}

RunsOf(k) == {r \in runs : r.key = k}

(* A tick of the slot has saved its run of the key, or may still save it,  *)
(* or has given it up.                                                     *)
Counted(k) ==
  /\ IsFiniteSet(RunsOf(k))
  /\ Cardinality(RunsOf(k)) + Cardinality(Pending(k)) <= ticks[k[2]]

Rationed == \A k \in Keys : Counted(k)

DispatchInv == Reports /\ RunsGranted /\ OwnRuns /\ Mourned /\ Rationed

-----------------------------------------------------------------------------
(* The steps of a tick, as they matter here.                               *)

(* The tick goes on with the item at hand.                                 *)
Goes(s, step, report) ==
  /\ \A u \in Schedulers \ {s} : tick'[u] = tick[u]
  /\ tick'[s].step = step /\ tick'[s].report = report
  /\ tick'[s].due = tick[s].due /\ tick'[s].at = tick[s].at
  /\ tick'[s].unread = tick[s].unread
  /\ tick'[s].gen = tick[s].gen /\ tick'[s].run = tick[s].run

(* The tick is between items.                                              *)
Plans(s) ==
  /\ \A u \in Schedulers \ {s} : tick'[u] = tick[u]
  /\ tick'[s].step \in {"idle", "plan", "acquire"}
  /\ tick'[s].step = "acquire" => tick'[s].report = "failed"

(* What it has in hand is left of its plan, without the item it is done    *)
(* with.                                                                   *)
KeepsPlan(s) ==
  \A i \in tick'[s].due \cup tick'[s].unread :
    /\ tick'[s].at = tick[s].at
    /\ i \in tick[s].due \cup tick[s].unread
    /\ Holding(s) => i # Item(s)

(* Entering a statement goes on with the item.                             *)
LEMMA EnterGoes ==
  ASSUME TypeOK, NEW s \in Schedulers, NEW step, Enter(s, step)
  PROVE  Goes(s, step, tick[s].report)
<1>1. tick[s] \in Tick /\ tick' = [tick EXCEPT ![s] = [tick[s] EXCEPT !.step = step]]
  BY DEF TypeOK, Enter
<1>2. tick'[s] = [tick[s] EXCEPT !.step = step]
      /\ \A u \in Schedulers \ {s} : tick'[u] = tick[u]
  BY <1>1 DEF TypeOK
<1> QED  BY <1>1, <1>2 DEF Goes, Tick

(* So does entering it with another report.                                *)
LEMMA ReportGoes ==
  ASSUME TypeOK, NEW s \in Schedulers, NEW step, NEW report,
         tick' = [tick EXCEPT ![s].step = step, ![s].report = report]
  PROVE  Goes(s, step, report)
<1> DEFINE t == [tick[s] EXCEPT !.step = step, !.report = report]
<1>1. tick[s] \in Tick /\ tick' = [tick EXCEPT ![s] = t]
  BY DEF TypeOK
<1>2. /\ t.step = step /\ t.report = report
      /\ t.due = tick[s].due /\ t.at = tick[s].at
      /\ t.unread = tick[s].unread
      /\ t.gen = tick[s].gen /\ t.run = tick[s].run
  BY <1>1 DEF Tick
<1> HIDE DEF t
<1>3. tick'[s] = t /\ \A u \in Schedulers \ {s} : tick'[u] = tick[u]
  BY <1>1 DEF TypeOK
<1> QED  BY <1>2, <1>3 DEF Goes

(* The collection ends in a release, or in a run that is to be saved.      *)
LEMMA CollectGoes ==
  ASSUME TypeOK, NEW s \in Schedulers, Collect(s)
  PROVE  \/ Goes(s, "release", tick[s].report)
         \/ /\ \A u \in Schedulers \ {s} : tick'[u] = tick[u]
            /\ tick'[s].step = "saveRun" /\ tick'[s].report = tick'[s].run.status
            /\ tick'[s].due = tick[s].due /\ tick'[s].at = tick[s].at
            /\ tick'[s].unread = tick[s].unread
            /\ tick'[s].gen = tick[s].gen
<1>1. CASE Enter(s, "release")
  BY <1>1, EnterGoes
<1>2. ASSUME NEW run,
             tick' = [tick EXCEPT ![s].step = "saveRun", ![s].run = run,
                                  ![s].report = run.status]
      PROVE  /\ \A u \in Schedulers \ {s} : tick'[u] = tick[u]
             /\ tick'[s].step = "saveRun" /\ tick'[s].report = tick'[s].run.status
             /\ tick'[s].due = tick[s].due /\ tick'[s].at = tick[s].at
             /\ tick'[s].unread = tick[s].unread
             /\ tick'[s].gen = tick[s].gen
  <2> DEFINE t == [tick[s] EXCEPT !.step = "saveRun", !.run = run,
                                  !.report = run.status]
  <2>1. tick[s] \in Tick /\ tick' = [tick EXCEPT ![s] = t]
    BY <1>2 DEF TypeOK
  <2>2. /\ t.step = "saveRun" /\ t.report = t.run.status
        /\ t.due = tick[s].due /\ t.at = tick[s].at
        /\ t.unread = tick[s].unread /\ t.gen = tick[s].gen
    BY <2>1 DEF Tick
  <2> HIDE DEF t
  <2>3. tick'[s] = t /\ \A u \in Schedulers \ {s} : tick'[u] = tick[u]
    BY <2>1 DEF TypeOK
  <2> QED  BY <2>2, <2>3
<1> QED  BY <1>1, <1>2 DEF Collect

(* The dispatch loop takes up nothing that was not due.                    *)
LEMMA DispatchPlans ==
  ASSUME TypeOK, NEW s \in Schedulers, NEW due,
         tick' = [tick EXCEPT ![s] = Dispatching(tick[s], due)],
         \A i \in due : /\ i \in tick[s].due \cup tick[s].unread
                        /\ Holding(s) => i # Item(s)
  PROVE  Plans(s) /\ KeepsPlan(s)
<1> DEFINE t == Dispatching(tick[s], due)
<1>1. /\ t.step \in {"idle", "plan", "acquire"} /\ t.report = "failed"
      /\ \A i \in t.due \cup t.unread : i \in due /\ t.at = tick[s].at
  BY DEF Dispatching, IdleTick
<1> HIDE DEF t
<1>2. tick'[s] = t /\ \A u \in Schedulers \ {s} : tick'[u] = tick[u]
  BY DEF TypeOK, t
<1> QED  BY <1>1, <1>2 DEF Plans, KeepsPlan

(* The steps of a tick between two items.                                  *)
LEMMA BetweenItems ==
  ASSUME TypeOK, NEW s \in Schedulers,
         \/ Start(s) \/ (\E i \in Items : PlanItem(s, i))
         \/ NextDispatch(s) \/ tick' = [tick EXCEPT ![s] = IdleTick]
  PROVE  Plans(s) /\ (Start(s) \/ KeepsPlan(s))
<1>0. tick[s] \in Tick
  BY DEF TypeOK
<1>1. CASE Start(s) \/ tick' = [tick EXCEPT ![s] = IdleTick]
  <2> DEFINE fresh == [IdleTick EXCEPT !.step = "plan", !.at = now, !.unread = Items]
  <2>1. /\ fresh.step = "plan" /\ IdleTick.step = "idle"
        /\ IdleTick.due = {} /\ IdleTick.unread = {}
    BY DEF IdleTick
  <2>2. \/ Start(s) /\ tick' = [tick EXCEPT ![s] = fresh]
        \/ tick' = [tick EXCEPT ![s] = IdleTick]
    BY <1>1 DEF Start
  <2> HIDE DEF fresh
  <2>3. /\ (Start(s) /\ tick'[s] = fresh) \/ tick'[s] = IdleTick
        /\ \A u \in Schedulers \ {s} : tick'[u] = tick[u]
    BY <2>2 DEF TypeOK
  <2> QED  BY <2>1, <2>3 DEF Plans, KeepsPlan
<1>2. ASSUME NEW i \in Items, PlanItem(s, i)
      PROVE  Plans(s) /\ KeepsPlan(s)
  <2> DEFINE t == tick[s]
             due == IF Satisfied(i, t.at) THEN t.due ELSE t.due \cup {i}
             more == [t EXCEPT !.due = due, !.unread = @ \ {i}]
  <2>1. tick' = [tick EXCEPT ![s] =
          IF t.unread = {i} THEN Dispatching(t, due) ELSE more]
        /\ tick[s].step = "plan" /\ i \in t.unread
    BY <1>2 DEF PlanItem, At
  <2>2. \A j \in due : /\ j \in t.due \cup t.unread
                       /\ Holding(s) => j # Item(s)
    BY <2>1 DEF Holding
  <2> HIDE DEF due
  <2>3. CASE t.unread = {i}
    BY <2>1, <2>2, <2>3, DispatchPlans
  <2>4. CASE t.unread # {i}
    <3>1. /\ more.step = "plan" /\ more.due = due /\ more.at = tick[s].at
          /\ more.unread \subseteq tick[s].unread /\ ~Holding(s)
      BY <1>0, <2>1 DEF Tick, Holding
    <3> HIDE DEF more, t
    <3>2. tick' = [tick EXCEPT ![s] = more]
      BY <2>1, <2>4
    <3>3. tick'[s] = more /\ \A u \in Schedulers \ {s} : tick'[u] = tick[u]
      BY <3>2 DEF TypeOK
    <3> QED  BY <2>2, <3>1, <3>3 DEF Plans, KeepsPlan, t
  <2> QED  BY <2>3, <2>4
<1>3. CASE NextDispatch(s)
  <2> DEFINE due == tick[s].due \ {Item(s)}
  <2>1. tick' = [tick EXCEPT ![s] = Dispatching(tick[s], due)]
    BY <1>3 DEF NextDispatch
  <2>2. \A j \in due : /\ j \in tick[s].due \cup tick[s].unread
                       /\ Holding(s) => j # Item(s)
    OBVIOUS
  <2> HIDE DEF due
  <2> QED  BY <2>1, <2>2, DispatchPlans
<1> QED  BY <1>1, <1>2, <1>3

(* A tick that is granted a lease begins with the item, and nothing else   *)
(* of it changes.                                                          *)
LEMMA AcquirePlans ==
  ASSUME TypeOK, NEW s \in Schedulers, Acquire(s)
  PROVE  \/ Plans(s) /\ KeepsPlan(s) /\ lease' = lease
         \/ /\ \A u \in Schedulers \ {s} : tick'[u] = tick[u]
            /\ tick'[s].step = "guard" /\ tick'[s].report = tick[s].report
            /\ tick'[s].due = tick[s].due /\ tick'[s].at = tick[s].at
            /\ tick'[s].unread = tick[s].unread
            /\ tick'[s].gen = lease[Key(s)].gen + 1
            /\ lease'[Key(s)].gen = lease[Key(s)].gen + 1
            /\ \A k \in Keys \ {Key(s)} : lease'[k] = lease[k]
<1> DEFINE k == Key(s)
           l == [status |-> "acquired", gen |-> lease[k].gen + 1,
                 expiresAt |-> tick[s].at + LeaseTerm]
           t == [tick[s] EXCEPT !.step = "guard", !.gen = lease[k].gen + 1]
<1>0. k \in Keys /\ tick[s] \in Tick
  BY KeyType DEF Acquire, At, TypeOK
<1>1. CASE Free(k, tick[s].at)
  <2>1. lease' = [lease EXCEPT ![k] = l] /\ tick' = [tick EXCEPT ![s] = t]
    BY <1>0, <1>1 DEF Acquire, TypeOK
  <2>2. /\ t.step = "guard" /\ t.report = tick[s].report
        /\ t.due = tick[s].due /\ t.at = tick[s].at
        /\ t.unread = tick[s].unread
        /\ t.gen = lease[k].gen + 1 /\ l.gen = lease[k].gen + 1
    BY <1>0 DEF Tick
  <2> HIDE DEF t, l
  <2>3. /\ tick'[s] = t /\ \A u \in Schedulers \ {s} : tick'[u] = tick[u]
        /\ lease'[k] = l /\ \A j \in Keys \ {k} : lease'[j] = lease[j]
    BY <1>0, <2>1 DEF TypeOK
  <2> QED  BY <2>2, <2>3
<1>2. CASE ~Free(k, tick[s].at)
  <2>1. NextDispatch(s) /\ lease' = lease /\ tick[s].step = "acquire"
    BY <1>2 DEF Acquire, At
  <2>2. ~Start(s)
    BY <2>1 DEF Start, At
  <2> QED  BY <2>1, <2>2, BetweenItems
<1> QED  BY <1>1, <1>2

-----------------------------------------------------------------------------
(* A report of success is worth what it says.                              *)

(* Rows are never taken back, so a tick that does not move stays as good   *)
(* as it was. *)
LEMMA OthersReported ==
  ASSUME NEW s \in Schedulers, Reported(s), tick'[s] = tick[s],
         runs \subseteq runs', kept \subseteq kept'
  PROVE  Reported(s)'
<1>1. Key(s)' = Key(s)
  BY DEF Key, Item
<1>2. /\ RunRow(s)' = RunRow(s) /\ Notice(s)' = Notice(s)
      /\ \A what : Row(s, what)' = Row(s, what)
  BY <1>1 DEF RunRow, Notice, Row
<1> QED  BY <1>2 DEF Reported

(* A tick that stays with its item names the same rows.                    *)
LEMMA SameRows ==
  ASSUME NEW s \in Schedulers, NEW step, NEW report, Goes(s, step, report)
  PROVE  /\ Key(s)' = Key(s) /\ RunRow(s)' = RunRow(s) /\ Notice(s)' = Notice(s)
         /\ \A what : Row(s, what)' = Row(s, what)
         /\ tick'[s].gen = tick[s].gen
<1>1. Key(s)' = Key(s) /\ tick'[s].gen = tick[s].gen
  BY DEF Goes, Key, Item
<1> QED  BY <1>1 DEF Goes, RunRow, Notice, Row

(* A step of a tick that keeps its own promise keeps everybody's.          *)
LEMMA OneReported ==
  ASSUME Reports, NEW s \in Schedulers, Reported(s)',
         \A u \in Schedulers \ {s} : tick'[u] = tick[u],
         runs \subseteq runs', kept \subseteq kept'
  PROVE  Reports'
<1> SUFFICES ASSUME NEW u \in Schedulers
             PROVE  Reported(u)'
  BY DEF Reports
<1>1. CASE u # s
  BY <1>1, OthersReported DEF Reports
<1> QED  BY <1>1

(* The persistence, statement by statement.                                *)
LEMMA PersistReports ==
  ASSUME TypeOK, Reports, NEW s \in Schedulers,
         SaveRun(s) \/ Keep(s) \/ PersistThrows(s)
  PROVE  Reports'
<1>0. Reported(s)
  BY DEF Reports
<1>1. CASE SaveRun(s)
  <2>1. Goes(s, "saveEvents", tick[s].report) /\ tick[s].step = "saveRun"
    BY <1>1, EnterGoes DEF SaveRun, At
  <2>2. runs' = runs \cup {RunRow(s)} /\ kept' = kept
    BY <1>1 DEF SaveRun, RunSaved, RunRow
  <2>3. RunRow(s)' = RunRow(s)
    BY <2>1, SameRows
  <2>4. Reported(s)'
    BY <1>0, <2>1, <2>2, <2>3 DEF Goes, Reported
  <2> QED  BY <2>1, <2>2, <2>4, OneReported DEF Goes
<1>2. CASE Keep(s)
  <2>1. /\ tick[s].step \in {"saveEvents", "stageOutcome", "stageSnapshot"}
        /\ Goes(s, After(s), tick[s].report)
        /\ runs' = runs /\ kept' = kept \cup Keeps(s)
    BY <1>2, EnterGoes DEF Keep
  <2>2. /\ RunRow(s)' = RunRow(s) /\ Notice(s)' = Notice(s)
        /\ \A what : Row(s, what)' = Row(s, what)
    BY <2>1, SameRows
  <2>3. tick'[s].step = After(s) /\ tick'[s].report = tick[s].report
        /\ tick'[s].run = tick[s].run
    BY <2>1 DEF Goes
  <2>4. CASE tick[s].step = "saveEvents"
    <3>1. After(s) = "stageOutcome" /\ Keeps(s) = {Row(s, "events")}
      BY <2>4 DEF After, Keeps, At
    <3>2. Reported(s)'
      BY <1>0, <2>1, <2>2, <2>3, <2>4, <3>1 DEF Reported
    <3> QED  BY <2>1, <3>2, OneReported DEF Goes
  <2>5. CASE tick[s].step = "stageOutcome"
    <3>1. /\ After(s) = IF tick[s].run.events THEN "stageSnapshot" ELSE "finalize"
          /\ Keeps(s) = {Row(s, Notice(s))}
      BY <2>5 DEF After, Keeps, At
    <3>2. tick[s].run.status = "success" => Notice(s) = "completed"
      BY DEF Notice
    <3>3. Reported(s)'
      BY <1>0, <2>1, <2>2, <2>3, <2>5, <3>1, <3>2 DEF Reported
    <3> QED  BY <2>1, <3>3, OneReported DEF Goes
  <2>6. CASE tick[s].step = "stageSnapshot"
    <3>1. After(s) = "finalize" /\ Keeps(s) = {Row(s, "snapshot")}
      BY <2>6 DEF After, Keeps, At
    <3>2. tick[s].run.status = "success" => Notice(s) = "completed"
      BY DEF Notice
    <3>3. Reported(s)'
      BY <1>0, <2>1, <2>2, <2>3, <2>6, <3>1, <3>2 DEF Reported
    <3> QED  BY <2>1, <3>3, OneReported DEF Goes
  <2> QED  BY <2>1, <2>4, <2>5, <2>6
<1>3. CASE PersistThrows(s)
  <2>1. Goes(s, "finalize", "partial_success")
    BY <1>3, ReportGoes DEF PersistThrows
  <2>2. runs \subseteq runs' /\ kept \subseteq kept'
    BY <1>3 DEF PersistThrows, RunSaved
  <2>3. Reported(s)'
    BY <2>1 DEF Goes, Reported
  <2> QED  BY <2>1, <2>2, <2>3, OneReported DEF Goes
<1> QED  BY <1>1, <1>2, <1>3

(* Every step keeps the promises of the reports.                           *)
LEMMA ReportsStep ==
  ASSUME IndInv, Reports, [Next]_vars
  PROVE  Reports'
<1>0. TypeOK
  BY DEF IndInv
<1>1. ASSUME NEW s \in Schedulers, Plans(s), runs' = runs, kept' = kept
      PROVE  Reports'
  <2>1. Reported(s)'
    BY <1>1 DEF Plans, Reported
  <2> QED  BY <1>1, <2>1, OneReported DEF Plans
<1>2. ASSUME NEW s \in Schedulers,
             Start(s) \/ (\E i \in Items : PlanItem(s, i)) \/ Release(s) \/ Abort(s)
      PROVE  Reports'
  <2>1. Plans(s)
    BY <1>0, <1>2, BetweenItems DEF Release, Abort
  <2>2. runs' = runs /\ kept' = kept
    BY <1>2 DEF Start, PlanItem, Release, Abort
  <2> QED  BY <1>1, <2>1, <2>2
<1>3. ASSUME NEW s \in Schedulers, Acquire(s)
      PROVE  Reports'
  <2>1. runs' = runs /\ kept' = kept /\ tick[s].step = "acquire"
    BY <1>3 DEF Acquire, At
  <2>2. CASE Plans(s)
    BY <1>1, <2>1, <2>2
  <2>3. CASE ~Plans(s)
    <3>1. /\ \A u \in Schedulers \ {s} : tick'[u] = tick[u]
          /\ tick'[s].step = "guard" /\ tick'[s].report = tick[s].report
      BY <1>0, <1>3, <2>3, AcquirePlans
    <3>2. Reported(s)'
      BY <2>1, <3>1 DEF Reports, Reported
    <3> QED  BY <2>1, <3>1, <3>2, OneReported
  <2> QED  BY <2>2, <2>3
<1>4. ASSUME NEW s \in Schedulers, Collect(s)
      PROVE  Reports'
  <2>1. runs' = runs /\ kept' = kept /\ tick[s].step = "guard"
    BY <1>4 DEF Collect, At
  <2>2. /\ \A u \in Schedulers \ {s} : tick'[u] = tick[u]
        /\ \/ tick'[s].step = "release" /\ tick'[s].report = tick[s].report
           \/ tick'[s].step = "saveRun" /\ tick'[s].report = tick'[s].run.status
    BY <1>0, <1>4, CollectGoes DEF Goes
  <2>3. tick[s].report = "failed"
    BY <2>1 DEF Reports, Reported
  <2>4. Reported(s)'
    BY <2>1, <2>2, <2>3 DEF Reported
  <2> QED  BY <2>1, <2>2, <2>4, OneReported
<1>5. ASSUME NEW s \in Schedulers, Finalize(s) \/ GuardThrows(s)
      PROVE  Reports'
  <2>1. runs' = runs /\ kept' = kept
    BY <1>5 DEF Finalize, GuardThrows
  <2>2. PICK report : /\ Goes(s, "release", report)
                      /\ \/ report = "failed"
                         \/ tick[s].step = "finalize" /\ report = tick[s].report
    <3>1. PICK report :
            /\ tick' = [tick EXCEPT ![s].step = "release", ![s].report = report]
            /\ \/ report = "failed"
               \/ tick[s].step = "finalize" /\ report = tick[s].report
      <4>1. CASE GuardThrows(s)
        BY <4>1 DEF GuardThrows
      <4>2. CASE Finalize(s)
        <5> DEFINE report == IF CurrentOwner(s) THEN tick[s].report ELSE "failed"
        <5>1. tick' = [tick EXCEPT ![s].step = "release", ![s].report = report]
          BY <1>0, <4>2 DEF Finalize, TypeOK, Tick
        <5>2. \/ report = "failed"
              \/ tick[s].step = "finalize" /\ report = tick[s].report
          BY <4>2 DEF Finalize, At
        <5> HIDE DEF report
        <5> QED  BY <5>1, <5>2
      <4> QED  BY <1>5, <4>1, <4>2
    <3> QED  BY <1>0, <3>1, ReportGoes
  <2>3. /\ RunRow(s)' = RunRow(s)
        /\ \A what : Row(s, what)' = Row(s, what)
    BY <2>2, SameRows
  <2>4. Reported(s)
    BY DEF Reports
  <2>5. Reported(s)'
    BY <2>1, <2>2, <2>3, <2>4 DEF Goes, Reported
  <2> QED  BY <2>1, <2>2, <2>5, OneReported DEF Goes
<1>6. CASE Pass \/ UNCHANGED vars
  BY <1>6, OthersReported DEF Reports, Pass, vars
<1> QED
  BY <1>0, <1>2, <1>3, <1>4, <1>5, <1>6, PersistReports DEF Next, Work

(* A dispatch that ends in a report of success left everything behind that *)
(* the success stands for: a statement that threw on the way is seen in    *)
(* the report, whatever threw, and whoever else ran the same slot.         *)
THEOREM SuccessIsDurable == Spec => []ReportedSuccessIsDurable
<1>1. Init => Reports
  BY DEF Init, Reports, Reported, IdleTick
<1>2. Reports => ReportedSuccessIsDurable
  <2> SUFFICES ASSUME Reports, NEW s \in Schedulers, At(s, "release"),
                      tick[s].report = "success"
               PROVE  /\ RunSaved(s) = runs /\ tick[s].run.status = "success"
                      /\ {Row(s, "events"), Row(s, "completed")} \subseteq kept
                      /\ tick[s].run.events => Row(s, "snapshot") \in kept
    BY DEF ReportedSuccessIsDurable
  <2>1. /\ tick[s].run.status = "success" /\ RunRow(s) \in runs
        /\ Row(s, "events") \in kept /\ Row(s, "completed") \in kept
        /\ tick[s].run.events => Row(s, "snapshot") \in kept
    BY DEF Reports, Reported, At
  <2>2. RunSaved(s) = runs
    BY <2>1 DEF RunSaved, RunRow
  <2> QED  BY <2>1, <2>2
<1>3. IndInv /\ Reports /\ [Next]_vars => Reports'
  BY ReportsStep
<1> QED  BY <1>1, <1>2, <1>3, InitInv, NextInv, PTL DEF Spec

-----------------------------------------------------------------------------
(* Runs and the grants they belong to.                                     *)

(* What a statement of the dispatch makes of the run table.                *)
Saves(s) ==
  /\ Goes(s, tick'[s].step, tick'[s].report)
  /\ Holding(s)
  /\ tick'[s].step \notin {"idle", "plan", "acquire", "guard", "saveRun"}
  /\ runs \subseteq runs' /\ runs' \subseteq runs \cup {RunRow(s)}
  /\ At(s, "saveRun") \/ runs' = runs
  /\ kept \subseteq kept'
  /\ lease' = lease /\ ticks' = ticks

(* Every statement after the collection is one that may save.              *)
LEMMA StatementsSave ==
  ASSUME TypeOK, NEW s \in Schedulers,
         \/ SaveRun(s) \/ Keep(s) \/ PersistThrows(s)
         \/ Finalize(s) \/ GuardThrows(s)
  PROVE  Saves(s)
<1>1. CASE SaveRun(s)
  <2>1. Goes(s, "saveEvents", tick[s].report)
    BY <1>1, EnterGoes DEF SaveRun
  <2>2. tick'[s].step = "saveEvents" /\ tick'[s].report = tick[s].report
    BY <2>1 DEF Goes
  <2> QED  BY <1>1, <2>1, <2>2 DEF Saves, SaveRun, RunSaved, RunRow, At, Holding
<1>2. CASE Keep(s)
  <2>1. Goes(s, After(s), tick[s].report)
    BY <1>2, EnterGoes DEF Keep
  <2>2. tick'[s].step = After(s) /\ tick'[s].report = tick[s].report
    BY <2>1 DEF Goes
  <2>3. After(s) \in {"stageOutcome", "stageSnapshot", "finalize"}
    BY <1>2 DEF Keep, After, At
  <2> QED  BY <1>2, <2>1, <2>2, <2>3 DEF Saves, Keep, Holding
<1>3. CASE PersistThrows(s)
  <2>1. Goes(s, "finalize", "partial_success")
    BY <1>3, ReportGoes DEF PersistThrows
  <2>2. tick'[s].step = "finalize" /\ tick'[s].report = "partial_success"
    BY <2>1 DEF Goes
  <2>3. /\ runs \subseteq runs' /\ runs' \subseteq runs \cup {RunRow(s)}
        /\ At(s, "saveRun") \/ runs' = runs
        /\ kept \subseteq kept' /\ lease' = lease /\ ticks' = ticks
    BY <1>3 DEF PersistThrows, RunSaved, RunRow
  <2> QED  BY <1>3, <2>1, <2>2, <2>3 DEF Saves, PersistThrows, Holding
<1>4. CASE Finalize(s) \/ GuardThrows(s)
  <2> DEFINE report == IF Finalize(s) /\ CurrentOwner(s) THEN tick[s].report
                       ELSE "failed"
  <2>1. tick' = [tick EXCEPT ![s].step = "release", ![s].report = "failed"]
        \/ tick' = [tick EXCEPT ![s].step = "release", ![s].report = tick[s].report]
    <3>1. GuardThrows(s) =>
            tick' = [tick EXCEPT ![s].step = "release", ![s].report = "failed"]
      BY DEF GuardThrows
    <3>2. Finalize(s) /\ ~CurrentOwner(s) =>
            tick' = [tick EXCEPT ![s].step = "release", ![s].report = "failed"]
      BY DEF Finalize, TypeOK, Tick
    <3>3. Finalize(s) /\ CurrentOwner(s) =>
            tick' = [tick EXCEPT ![s].step = "release", ![s].report = tick[s].report]
      BY DEF Finalize, TypeOK, Tick
    <3> QED  BY <1>4, <3>1, <3>2, <3>3
  <2>2. Goes(s, "release", "failed") \/ Goes(s, "release", tick[s].report)
    BY <2>1, ReportGoes
  <2>3. tick'[s].step = "release" /\ Goes(s, tick'[s].step, tick'[s].report)
    BY <2>2 DEF Goes
  <2>4. Holding(s) /\ UNCHANGED <<runs, kept, lease, ticks>>
    BY <1>4 DEF Finalize, GuardThrows, At, Holding
  <2> QED  BY <2>3, <2>4 DEF Saves
<1> QED  BY <1>1, <1>2, <1>3, <1>4

(* No step takes a generation back.                                        *)
LEMMA GenerationsGrow ==
  ASSUME TypeOK, [Next]_vars
  PROVE  \A k \in Keys : lease'[k].gen \in Nat /\ lease[k].gen \in Nat
                         /\ lease[k].gen <= lease'[k].gen
<1>1. TypeOK'
  BY NextType
<1>2. \A k \in Keys : /\ lease[k] \in Lease /\ lease[k].gen \in Nat
                      /\ lease'[k].gen \in Nat
  BY <1>1 DEF TypeOK, Lease
<1>3. ASSUME NEW k \in Keys
      PROVE  lease[k].gen <= lease'[k].gen
  <2>2. ASSUME NEW s \in Schedulers, Start(s)
        PROVE  lease'[k].gen = lease[k].gen
    BY <1>2, <2>2 DEF Start, Lease
  <2>3. ASSUME NEW s \in Schedulers, Release(s)
        PROVE  lease'[k].gen = lease[k].gen
    BY <1>2, <2>3 DEF Release, TypeOK, Lease
  <2>4. ASSUME NEW s \in Schedulers, Acquire(s)
        PROVE  lease'[k].gen \in {lease[k].gen, lease[k].gen + 1}
    BY <2>4, AcquirePlans
  <2>5. \/ lease' = lease
        \/ \E s \in Schedulers : Start(s) \/ Release(s) \/ Acquire(s)
    BY DEF Next, Work, PlanItem, Collect, SaveRun, Keep, Finalize,
           PersistThrows, GuardThrows, Abort, Pass, vars
  <2>6. lease'[k].gen \in {lease[k].gen, lease[k].gen + 1}
    BY <2>2, <2>3, <2>4, <2>5
  <2> QED  BY <1>2, <2>6
<1> QED  BY <1>2, <1>3

(* Runs belong to grants that were made.                                   *)
LEMMA RunsGrantedStep ==
  ASSUME IndInv, RunsGranted, [Next]_vars
  PROVE  RunsGranted'
<1>0. TypeOK
  BY DEF IndInv
<1>1. CASE runs' = runs
  <2> SUFFICES ASSUME NEW r \in runs
               PROVE  r.gen <= lease'[r.key].gen
    BY <1>1 DEF RunsGranted
  <2>1. r.key \in Keys /\ r.gen \in Nat /\ r.gen <= lease[r.key].gen
    BY <1>0 DEF RunsGranted, TypeOK, Run
  <2> QED  BY <1>0, <2>1, GenerationsGrow
<1>2. ASSUME NEW s \in Schedulers, Saves(s)
      PROVE  RunsGranted'
  <2>1. RunRow(s).gen <= lease[RunRow(s).key].gen
    BY <1>2 DEF IndInv, Grants, HoldsGrant, Saves, RunRow
  <2> QED  BY <1>2, <2>1 DEF RunsGranted, Saves
<1> QED
  BY <1>0, <1>1, <1>2, StatementsSave
     DEF Next, Work, Start, PlanItem, Acquire, Collect, Release, Abort, Pass, vars

(* A dispatch writes one run, and nobody else writes in its name.          *)
LEMMA OwnRunsStep ==
  ASSUME IndInv, RunsGranted, OwnRuns, [Next]_vars
  PROVE  OwnRuns'
<1>0. TypeOK
  BY DEF IndInv
<1>other. \A u \in Schedulers : tick'[u] = tick[u] =>
            /\ Holding(u)' <=> Holding(u)
            /\ \A r : Wrote(u, r)' <=> Wrote(u, r)
  BY DEF Wrote, Holding, Key, Item
<1>1. ASSUME NEW s \in Schedulers, Plans(s), runs' = runs
      PROVE  OwnRuns'
  <2>1. ~Holding(s)'
    BY <1>1 DEF Plans, Holding
  <2> QED  BY <1>1, <1>other, <2>1 DEF OwnRuns, Wrote, Plans
<1>2. ASSUME NEW s \in Schedulers, Acquire(s)
      PROVE  OwnRuns'
  <2>1. runs' = runs
    BY <1>2 DEF Acquire
  <2>2. CASE ~Plans(s)
    <3>1. /\ \A u \in Schedulers \ {s} : tick'[u] = tick[u]
          /\ tick'[s].due = tick[s].due /\ tick'[s].at = tick[s].at
          /\ tick'[s].gen = lease[Key(s)].gen + 1
      BY <1>0, <1>2, <2>2, AcquirePlans
    <3>2. Key(s)' = Key(s)
      BY <3>1 DEF Key, Item
    <3>3. \A r \in runs : ~Wrote(s, r)'
      <4> SUFFICES ASSUME NEW r \in runs, Key(s) = r.key,
                          r.gen = lease[Key(s)].gen + 1
                   PROVE  FALSE
        BY <3>1, <3>2 DEF Wrote
      <4>1. r.gen \in Nat /\ r.gen <= lease[r.key].gen /\ r.key \in Keys
        BY <1>0 DEF RunsGranted, TypeOK, Run
      <4>2. lease[r.key].gen \in Nat
        BY <1>0, <4>1 DEF TypeOK, Lease
      <4> QED  BY <4>1, <4>2
    <3> QED  BY <1>other, <2>1, <3>1, <3>3 DEF OwnRuns
  <2> QED  BY <1>1, <2>1, <2>2
<1>3. ASSUME NEW s \in Schedulers, Collect(s)
      PROVE  OwnRuns'
  <2>1. runs' = runs /\ tick[s].step = "guard"
    BY <1>3 DEF Collect, At
  <2>2. /\ \A u \in Schedulers \ {s} : tick'[u] = tick[u]
        /\ tick'[s].due = tick[s].due /\ tick'[s].at = tick[s].at
        /\ tick'[s].gen = tick[s].gen
    BY <1>0, <1>3, CollectGoes DEF Goes
  <2>3. Key(s)' = Key(s) /\ Holding(s)
    BY <2>1, <2>2 DEF Key, Item, Holding
  <2>4. \A r \in runs : ~Wrote(s, r)'
    BY <2>1, <2>2, <2>3 DEF OwnRuns, Wrote
  <2> QED  BY <1>other, <2>1, <2>2, <2>4 DEF OwnRuns
<1>4. ASSUME NEW s \in Schedulers, Saves(s)
      PROVE  OwnRuns'
  <2>1. /\ Goes(s, tick'[s].step, tick'[s].report) /\ Holding(s)
        /\ tick'[s].step \notin {"guard", "saveRun"}
        /\ runs' \subseteq runs \cup {RunRow(s)}
    BY <1>4 DEF Saves
  <2>2. Key(s)' = Key(s) /\ tick'[s].gen = tick[s].gen /\ tick'[s].run = tick[s].run
    BY <2>1, SameRows DEF Goes
  <2> SUFFICES ASSUME NEW u \in Schedulers, NEW r \in runs', Wrote(u, r)'
               PROVE  /\ tick'[u].step \notin {"guard", "saveRun"}
                      /\ r.status = tick'[u].run.status
    BY DEF OwnRuns
  <2>3. Wrote(u, r)
    BY <1>other, <2>1, <2>2 DEF Wrote, Goes
  <2>4. CASE r \in runs
    BY <2>1, <2>2, <2>3, <2>4 DEF OwnRuns, Goes
  <2>5. CASE r = RunRow(s)
    <3>1. u = s
      BY <2>1, <2>3, <2>5 DEF Wrote, RunRow, IndInv, DistinctGrants
    <3> QED  BY <2>1, <2>2, <2>5, <3>1 DEF RunRow
  <2> QED  BY <2>1, <2>4, <2>5
<1>5. CASE Pass \/ UNCHANGED vars
  BY <1>5, <1>other DEF OwnRuns, Pass, vars
<1>6. ASSUME NEW s \in Schedulers,
             Start(s) \/ (\E i \in Items : PlanItem(s, i)) \/ Release(s) \/ Abort(s)
      PROVE  OwnRuns'
  <2>1. Plans(s) /\ runs' = runs
    BY <1>0, <1>6, BetweenItems DEF Start, PlanItem, Release, Abort
  <2> QED  BY <1>1, <2>1
<1> QED
  BY <1>0, <1>2, <1>3, <1>4, <1>5, <1>6, StatementsSave DEF Next, Work

-----------------------------------------------------------------------------
(* Runs that nobody publishes.                                             *)

(* A part of a finite set counts no more than the set.                     *)
LEMMA Fewer ==
  ASSUME NEW S, NEW T, IsFiniteSet(S), T \subseteq S
  PROVE  /\ IsFiniteSet(T) /\ Cardinality(T) \in Nat /\ Cardinality(S) \in Nat
         /\ Cardinality(T) <= Cardinality(S)
  BY FS_Subset, FS_CardinalityType

(* A set with a member taken out counts one less.                          *)
LEMMA OneLess ==
  ASSUME NEW S, NEW x \in S, NEW T, IsFiniteSet(S), T \subseteq S \ {x}
  PROVE  /\ IsFiniteSet(T) /\ Cardinality(T) \in Nat /\ Cardinality(S) \in Nat
         /\ Cardinality(T) + 1 <= Cardinality(S)
<1>1. /\ IsFiniteSet(S \ {x})
      /\ Cardinality(S \ {x}) = Cardinality(S) - 1
  BY FS_RemoveElement
<1> QED  BY <1>1, Fewer, FS_CardinalityType

(* A set with a member put in counts at most one more.                     *)
LEMMA OneMore ==
  ASSUME NEW S, NEW x, NEW T, IsFiniteSet(S), T \subseteq S \cup {x}
  PROVE  /\ IsFiniteSet(T) /\ Cardinality(T) \in Nat /\ Cardinality(S) \in Nat
         /\ Cardinality(T) <= Cardinality(S) + 1
<1>1. /\ IsFiniteSet(S \cup {x})
      /\ Cardinality(S \cup {x}) \in {Cardinality(S), Cardinality(S) + 1}
  BY FS_AddElement
<1>2. Cardinality(S) \in Nat
  BY FS_CardinalityType
<1> QED  BY <1>1, <1>2, Fewer

(* A tick that is not about to publish dooms no run by moving on.          *)
LEMMA NotPublishing ==
  ASSUME NEW s \in Schedulers, ~Publishing(s),
         \A u \in Schedulers \ {s} : tick'[u] = tick[u],
         runs' = runs, kept \subseteq kept'
  PROVE  Doomed' \subseteq Doomed
<1> SUFFICES ASSUME NEW r \in Doomed', NEW u \in Schedulers, Publishing(u), Wrote(u, r)
             PROVE  FALSE
  BY DEF Doomed
<1>1. tick'[u] = tick[u]
  OBVIOUS
<1>2. Publishing(u)' /\ Wrote(u, r)'
  BY <1>1 DEF Publishing, Wrote, Holding, Key, Item
<1> QED  BY <1>2 DEF Doomed

(* A tick dooms no run but its own.                                        *)
LEMMA OneDoomed ==
  ASSUME TypeOK, OwnRuns, NEW s \in Schedulers,
         \A u \in Schedulers \ {s} : tick'[u] = tick[u],
         runs' \subseteq runs \cup {RunRow(s)}, kept \subseteq kept'
  PROVE  Doomed' \subseteq Doomed \cup {RunRow(s)}
<1> SUFFICES ASSUME NEW r \in Doomed', r \notin Doomed, r \in runs
             PROVE  r = RunRow(s)
  BY DEF Doomed
<1>1. PICK u \in Schedulers : Publishing(u) /\ Wrote(u, r)
  BY DEF Doomed
<1>2. CASE u # s
  <2>1. tick'[u] = tick[u]
    BY <1>2
  <2>2. Publishing(u)' /\ Wrote(u, r)'
    BY <1>1, <2>1 DEF Publishing, Wrote, Holding, Key, Item
  <2> QED  BY <2>2 DEF Doomed
<1>3. CASE u = s
  <2>1. /\ r.key = Key(s) /\ r.gen = tick[s].gen
        /\ r.status = tick[s].run.status
    BY <1>1, <1>3 DEF Wrote, OwnRuns
  <2>2. r \in [key : Keys, gen : Nat, status : Outcomes]
    BY DEF TypeOK, Run
  <2> QED  BY <2>1, <2>2 DEF RunRow
<1> QED  BY <1>2, <1>3

(* A statement that gets through leaves its run to be published, or        *)
(* publishes it.                                                           *)
LEMMA SavedNotDoomed ==
  ASSUME TypeOK, OwnRuns, NEW s \in Schedulers, SaveRun(s) \/ Keep(s)
  PROVE  Doomed' \subseteq Doomed
<1>1. /\ \A u \in Schedulers \ {s} : tick'[u] = tick[u]
      /\ runs' \subseteq runs \cup {RunRow(s)} /\ kept \subseteq kept'
  BY StatementsSave DEF Saves, Goes
<1>2. Doomed' \subseteq Doomed \cup {RunRow(s)}
  BY <1>1, OneDoomed
<1>3. CASE SaveRun(s) \/ (Keep(s) /\ At(s, "saveEvents"))
  <2>1. \E step \in {"saveEvents", "stageOutcome"} : Goes(s, step, tick[s].report)
    BY <1>3, EnterGoes DEF SaveRun, Keep, After, At
  <2>2. Publishing(s)' /\ Wrote(s, RunRow(s))'
    BY <2>1, SameRows DEF Goes, Publishing, Wrote, Holding, RunRow
  <2>3. RunRow(s)' = RunRow(s)
    BY <2>1, SameRows
  <2>4. RunRow(s)' \notin Doomed'
    BY <2>2 DEF Doomed
  <2> QED  BY <1>2, <2>3, <2>4
<1>4. CASE Keep(s) /\ At(s, "stageOutcome")
  <2>1. Row(s, Notice(s)) \in kept'
    BY <1>4 DEF Keep, Keeps, At
  <2>2. Row(s, Notice(s)) = NoticeOf(RunRow(s))
    BY DEF Row, Notice, NoticeOf, RunRow
  <2>3. RunRow(s) \notin Doomed'
    BY <2>1, <2>2 DEF Doomed, NoticeOf
  <2> QED  BY <1>2, <2>3
<1>5. CASE Keep(s) /\ At(s, "stageSnapshot")
  <2>1. ~Publishing(s) /\ runs' = runs
    BY <1>5 DEF Publishing, Keep, At
  <2> QED  BY <1>1, <2>1, NotPublishing
<1>6. CASE SaveRun(s)
  BY <1>3, <1>6
<1>7. CASE Keep(s)
  <2>1. At(s, "saveEvents") \/ At(s, "stageOutcome") \/ At(s, "stageSnapshot")
    BY <1>7 DEF Keep, At
  <2> QED  BY <1>3, <1>4, <1>5, <1>7, <2>1
<1> QED  BY <1>6, <1>7

(* A run is lost to publication at the cost of a fault.                    *)
LEMMA MournedStep ==
  ASSUME TypeOK, OwnRuns, Mourned, [Next]_vars
  PROVE  Mourned'
<1>0. TypeOK' /\ faults \in Int /\ faults' \in Int
  <2>1. TypeOK'
    BY NextType
  <2> QED  BY <2>1 DEF TypeOK
<1>1. ASSUME Doomed' \subseteq Doomed, faults' \in {faults, faults + 1}
      PROVE  Mourned'
  BY <1>0, <1>1, Fewer DEF Mourned
<1>2. ASSUME NEW x, Doomed' \subseteq Doomed \cup {x}, faults' = faults + 1
      PROVE  Mourned'
  <2>1. IsFiniteSet(Doomed) /\ Cardinality(Doomed) <= faults
    BY DEF Mourned
  <2>2. /\ IsFiniteSet(Doomed') /\ Cardinality(Doomed') \in Nat
        /\ Cardinality(Doomed) \in Nat
        /\ Cardinality(Doomed') <= Cardinality(Doomed) + 1
    <3> HIDE DEF Doomed
    <3> QED  BY <1>2, <2>1, OneMore
  <2>3. Cardinality(Doomed') <= faults'
    BY <1>0, <1>2, <2>1, <2>2
  <2> QED  BY <2>2, <2>3 DEF Mourned
<1>3. ASSUME NEW s \in Schedulers,
             \/ Start(s) \/ (\E i \in Items : PlanItem(s, i)) \/ Release(s)
             \/ Acquire(s) \/ Collect(s) \/ Finalize(s)
      PROVE  Mourned'
  <2>1. \A u \in Schedulers \ {s} : tick'[u] = tick[u]
    BY <1>3, BetweenItems, AcquirePlans, CollectGoes, StatementsSave
       DEF Release, Plans, Goes, Saves
  <2>2. /\ ~Publishing(s) /\ runs' = runs /\ kept' = kept
        /\ faults' \in {faults, faults + 1}
    BY <1>3 DEF Start, PlanItem, Release, Acquire, Collect, Finalize, Publishing,
                At, Fault
  <2> QED  BY <1>1, <2>1, <2>2, NotPublishing
<1>4. ASSUME NEW s \in Schedulers, SaveRun(s) \/ Keep(s)
      PROVE  Mourned'
  BY <1>1, <1>4, SavedNotDoomed DEF SaveRun, Keep
<1>5. ASSUME NEW s \in Schedulers, PersistThrows(s) \/ GuardThrows(s)
      PROVE  Mourned'
  <2>1. /\ \A u \in Schedulers \ {s} : tick'[u] = tick[u]
        /\ runs' \subseteq runs \cup {RunRow(s)} /\ kept \subseteq kept'
    BY <1>5, StatementsSave DEF Saves, Goes
  <2>2. faults' = faults + 1
    BY <1>5 DEF PersistThrows, GuardThrows, Fault
  <2> QED  BY <1>2, <2>1, <2>2, OneDoomed
<1>6. ASSUME NEW s \in Schedulers, Abort(s)
      PROVE  Mourned'
  <2>1. /\ \A u \in Schedulers \ {s} : tick'[u] = tick[u]
        /\ runs' = runs /\ kept' = kept /\ faults' = faults + 1
    BY <1>6, BetweenItems DEF Abort, Plans, Fault
  <2> QED  BY <1>2, <2>1, OneDoomed
<1>7. CASE Pass \/ UNCHANGED vars
  <2>1. Doomed' = Doomed /\ faults' = faults
    BY <1>7 DEF Pass, vars, Doomed, NoticeOf, Publishing, Wrote, Holding, Key, Item
  <2> QED  BY <1>1, <2>1
<1> QED  BY <1>3, <1>4, <1>5, <1>6, <1>7 DEF Next, Work

-----------------------------------------------------------------------------
(* How often a slot is run.                                                *)

(* There are finitely many ticks to wait for.                              *)
LEMMA PendingFinite ==
  ASSUME NEW k \in Keys
  PROVE  IsFiniteSet(Pending(k)) /\ Cardinality(Pending(k)) \in Nat
  BY SchedulersAssumption, FS_Subset, FS_CardinalityType DEF Pending

(* The slot of a request key has a count of ticks.                         *)
LEMMA TicksOf ==
  ASSUME TypeOK, NEW k \in Keys
  PROVE  k[2] \in Slots /\ ticks[k[2]] \in Nat
  BY DEF TypeOK, Keys

(* When one tick moves, the others wait for what they waited for before.   *)
LEMMA PendingShrinks ==
  ASSUME NEW s \in Schedulers, NEW k \in Keys,
         \A u \in Schedulers \ {s} : tick'[u] = tick[u]
  PROVE  Pending(k)' \ {s} \subseteq Pending(k) \ {s}
<1> SUFFICES ASSUME NEW u \in Pending(k)', u # s
             PROVE  u \in Pending(k)
  OBVIOUS
<1>1. u \in Schedulers /\ tick'[u] = tick[u]
  BY DEF Pending
<1> QED  BY <1>1 DEF Pending, Holding, Item

(* Between items, a tick takes up no key that it has not planned.          *)
LEMMA PlansPending ==
  ASSUME NEW s \in Schedulers, NEW k \in Keys, Plans(s), KeepsPlan(s)
  PROVE  Pending(k)' \subseteq Pending(k)
<1>1. ASSUME s \in Pending(k)'
      PROVE  s \in Pending(k)
  <2>1. k[1] \in tick'[s].due \cup tick'[s].unread /\ k[2] = Slot(tick'[s].at)
    BY <1>1 DEF Pending
  <2>2. /\ tick'[s].at = tick[s].at
        /\ k[1] \in tick[s].due \cup tick[s].unread
        /\ Holding(s) => k[1] # Item(s)
    BY <2>1 DEF KeepsPlan
  <2> QED  BY <2>1, <2>2 DEF Pending
<1>2. \A u \in Schedulers \ {s} : tick'[u] = tick[u]
  BY DEF Plans
<1> QED  BY <1>1, <1>2, PendingShrinks

(* A tick that goes on with its item has no more to save than before.      *)
LEMMA GoesPending ==
  ASSUME NEW s \in Schedulers, NEW k \in Keys,
         \A u \in Schedulers \ {s} : tick'[u] = tick[u],
         tick'[s].due = tick[s].due, tick'[s].at = tick[s].at,
         tick'[s].unread = tick[s].unread,
         \/ Holding(s) /\ tick'[s].step \notin {"idle", "plan", "acquire"}
              /\ (tick'[s].step \in {"guard", "saveRun"} =>
                    tick[s].step \in {"guard", "saveRun"})
         \/ ~Holding(s)
  PROVE  Pending(k)' \subseteq Pending(k)
<1>1. ASSUME s \in Pending(k)'
      PROVE  s \in Pending(k)
  <2>1. Item(s)' = Item(s)
    BY DEF Item
  <2> QED  BY <1>1, <2>1 DEF Pending, Holding
<1> QED  BY <1>1, PendingShrinks

(* A step that saves no run of the key.                                    *)
LEMMA QuietCounted ==
  ASSUME TypeOK, NEW k \in Keys, Counted(k), RunsOf(k)' = RunsOf(k),
         Pending(k)' \subseteq Pending(k), ticks' = ticks
  PROVE  Counted(k)'
<1>1. /\ IsFiniteSet(RunsOf(k)) /\ ticks[k[2]] \in Nat
      /\ Cardinality(RunsOf(k)) + Cardinality(Pending(k)) <= ticks[k[2]]
  BY TicksOf DEF Counted
<1>2. Cardinality(RunsOf(k)) \in Nat
  BY <1>1, FS_CardinalityType
<1>3. /\ Cardinality(Pending(k)') <= Cardinality(Pending(k))
      /\ Cardinality(Pending(k)') \in Nat /\ Cardinality(Pending(k)) \in Nat
  BY PendingFinite, Fewer
<1> QED  BY <1>1, <1>2, <1>3 DEF Counted

(* A tick that saves a run has one run fewer to save.                      *)
LEMMA SaverCounted ==
  ASSUME TypeOK, NEW s \in Schedulers, Saves(s), At(s, "saveRun"),
         NEW k \in Keys, k = Key(s), Counted(k)
  PROVE  Counted(k)'
<1> DEFINE x == RunRow(s)
<1>1. /\ \A u \in Schedulers \ {s} : tick'[u] = tick[u]
      /\ tick'[s].due = tick[s].due /\ tick'[s].at = tick[s].at
      /\ Holding(s) /\ Holding(s)' /\ tick'[s].step \notin {"guard", "saveRun"}
      /\ runs' \subseteq runs \cup {x} /\ ticks' = ticks
  BY DEF Saves, Goes, Holding
<1>2. Item(s)' = Item(s) /\ k[1] = Item(s) /\ k[2] = Slot(tick[s].at)
  BY <1>1 DEF Key, Item
<1>3. Item(s) \in tick[s].due
  <2>1. tick[s].due # {} /\ tick[s].due \subseteq Items
    BY <1>1 DEF TypeOK, Holding, Tick
  <2> QED  BY <2>1, FirstItem DEF Item
<1>4. s \in Pending(k) /\ s \notin Pending(k)'
  <2>1. s \in Pending(k)
    BY <1>2, <1>3 DEF Pending, At
  <2>2. s \notin Pending(k)'
    BY <1>1, <1>2 DEF Pending
  <2> QED  BY <2>1, <2>2
<1>5. Pending(k)' \subseteq Pending(k) \ {s}
  BY <1>1, <1>4, PendingShrinks
<1>6. /\ Cardinality(Pending(k)') + 1 <= Cardinality(Pending(k))
      /\ Cardinality(Pending(k)') \in Nat /\ Cardinality(Pending(k)) \in Nat
  BY <1>4, <1>5, PendingFinite, OneLess
<1>7. /\ IsFiniteSet(RunsOf(k)) /\ ticks[k[2]] \in Nat
      /\ Cardinality(RunsOf(k)) + Cardinality(Pending(k)) <= ticks[k[2]]
  BY TicksOf DEF Counted
<1>8. RunsOf(k)' \subseteq RunsOf(k) \cup {x}
  BY <1>1 DEF RunsOf
<1> HIDE DEF x
<1>9. /\ IsFiniteSet(RunsOf(k)') /\ Cardinality(RunsOf(k)') \in Nat
      /\ Cardinality(RunsOf(k)) \in Nat
      /\ Cardinality(RunsOf(k)') <= Cardinality(RunsOf(k)) + 1
  BY <1>7, <1>8, OneMore
<1> QED  BY <1>1, <1>6, <1>7, <1>9 DEF Counted

(* A statement of the dispatch keeps the account of every key.             *)
LEMMA SavesRationed ==
  ASSUME TypeOK, NEW s \in Schedulers, Saves(s), Rationed
  PROVE  Rationed'
<1>1. /\ \A u \in Schedulers \ {s} : tick'[u] = tick[u]
      /\ tick'[s].due = tick[s].due /\ tick'[s].at = tick[s].at
      /\ tick'[s].unread = tick[s].unread
      /\ Holding(s) /\ tick'[s].step \notin {"idle", "plan", "acquire"}
      /\ tick'[s].step \notin {"guard", "saveRun"}
      /\ runs \subseteq runs' /\ runs' \subseteq runs \cup {RunRow(s)}
      /\ At(s, "saveRun") \/ runs' = runs
      /\ ticks' = ticks
  BY DEF Saves, Goes
<1>2. ASSUME NEW k \in Keys
      PROVE  Counted(k)'
  <2>1. Counted(k)
    BY DEF Rationed
  <2>2. CASE runs' = runs \/ k # Key(s)
    <3>1. RunsOf(k)' = RunsOf(k)
      BY <1>1, <2>2 DEF RunsOf, RunRow
    <3>2. Pending(k)' \subseteq Pending(k)
      BY <1>1, GoesPending
    <3> QED  BY <1>1, <2>1, <3>1, <3>2, QuietCounted
  <2>3. CASE runs' # runs /\ k = Key(s)
    BY <1>1, <2>1, <2>3, SaverCounted
  <2> QED  BY <2>2, <2>3
<1> QED  BY <1>2 DEF Rationed

(* A tick that starts counts in its slot, and waits for runs of that slot. *)
LEMMA StartRationed ==
  ASSUME TypeOK, NEW s \in Schedulers, Start(s), Rationed
  PROVE  Rationed'
<1> DEFINE t == [IdleTick EXCEPT !.step = "plan", !.at = now, !.unread = Items]
<1>1. t.at = now
  BY DEF IdleTick
<1>2. tick' = [tick EXCEPT ![s] = t] /\ runs' = runs
  BY DEF Start
<1> HIDE DEF t
<1>3. tick'[s].at = now /\ \A u \in Schedulers \ {s} : tick'[u] = tick[u]
  BY <1>1, <1>2 DEF TypeOK
<1> SUFFICES ASSUME NEW k \in Keys
             PROVE  Counted(k)'
  BY DEF Rationed
<1>4. /\ IsFiniteSet(RunsOf(k)) /\ RunsOf(k)' = RunsOf(k)
      /\ Cardinality(RunsOf(k)) + Cardinality(Pending(k)) <= ticks[k[2]]
  BY <1>2 DEF Rationed, Counted, RunsOf
<1>5. Cardinality(RunsOf(k)) \in Nat /\ k[2] \in Slots /\ ticks[k[2]] \in Nat
  BY <1>4, TicksOf, FS_CardinalityType
<1>6. Pending(k)' \ {s} \subseteq Pending(k) \ {s}
  BY <1>3, PendingShrinks
<1>7. CASE k[2] = Slot(now)
  <2>1. ticks'[k[2]] = ticks[k[2]] + 1
    BY <1>5, <1>7 DEF Start, TypeOK
  <2>2. /\ Cardinality(Pending(k)') <= Cardinality(Pending(k)) + 1
        /\ Cardinality(Pending(k)') \in Nat /\ Cardinality(Pending(k)) \in Nat
    <3>1. Pending(k)' \subseteq Pending(k) \cup {s}
      BY <1>6
    <3> QED  BY <3>1, PendingFinite, OneMore
  <2> QED  BY <1>4, <1>5, <2>1, <2>2 DEF Counted
<1>8. CASE k[2] # Slot(now)
  <2>1. ticks'[k[2]] = ticks[k[2]]
    BY <1>5, <1>8 DEF Start, TypeOK
  <2>2. s \notin Pending(k)'
    BY <1>3, <1>8 DEF Pending, Slot
  <2>3. /\ Cardinality(Pending(k)') <= Cardinality(Pending(k))
        /\ Cardinality(Pending(k)') \in Nat /\ Cardinality(Pending(k)) \in Nat
    BY <1>6, <2>2, PendingFinite, Fewer
  <2> QED  BY <1>4, <1>5, <2>1, <2>3 DEF Counted
<1> QED  BY <1>7, <1>8

(* Every step keeps the account of every key.                              *)
LEMMA RationedStep ==
  ASSUME TypeOK, Rationed, [Next]_vars
  PROVE  Rationed'
<1>1. ASSUME runs' = runs, ticks' = ticks,
             \A k \in Keys : Pending(k)' \subseteq Pending(k)
      PROVE  Rationed'
  <2> SUFFICES ASSUME NEW k \in Keys
               PROVE  Counted(k)'
    BY DEF Rationed
  <2>1. Counted(k) /\ RunsOf(k)' = RunsOf(k)
    BY <1>1 DEF Rationed, RunsOf
  <2> QED  BY <1>1, <2>1, QuietCounted
<1>2. ASSUME NEW s \in Schedulers, Plans(s), KeepsPlan(s), runs' = runs, ticks' = ticks
      PROVE  Rationed'
  BY <1>1, <1>2, PlansPending
<1>3. ASSUME NEW s \in Schedulers,
             (\E i \in Items : PlanItem(s, i)) \/ Release(s) \/ Abort(s)
      PROVE  Rationed'
  <2>1. Plans(s) /\ KeepsPlan(s) /\ runs' = runs /\ ticks' = ticks
    <3>1. ~Start(s)
      BY <1>3 DEF Start, PlanItem, Release, Abort, At
    <3> QED  BY <1>3, <3>1, BetweenItems DEF PlanItem, Release, Abort
  <2> QED  BY <1>2, <2>1
<1>4. ASSUME NEW s \in Schedulers, Acquire(s)
      PROVE  Rationed'
  <2>1. runs' = runs /\ ticks' = ticks /\ ~Holding(s)
    BY <1>4 DEF Acquire, At, Holding
  <2>2. CASE Plans(s) /\ KeepsPlan(s)
    BY <1>2, <2>1, <2>2
  <2>3. CASE ~(Plans(s) /\ KeepsPlan(s))
    <3>1. /\ \A u \in Schedulers \ {s} : tick'[u] = tick[u]
          /\ tick'[s].due = tick[s].due /\ tick'[s].at = tick[s].at
          /\ tick'[s].unread = tick[s].unread
      BY <1>4, <2>3, AcquirePlans
    <3>2. \A k \in Keys : Pending(k)' \subseteq Pending(k)
      BY <2>1, <3>1, GoesPending
    <3> QED  BY <1>1, <2>1, <3>2
  <2> QED  BY <2>2, <2>3
<1>5. ASSUME NEW s \in Schedulers, Collect(s)
      PROVE  Rationed'
  <2>1. runs' = runs /\ ticks' = ticks /\ Holding(s) /\ tick[s].step = "guard"
    BY <1>5 DEF Collect, At, Holding
  <2>2. /\ \A u \in Schedulers \ {s} : tick'[u] = tick[u]
        /\ tick'[s].due = tick[s].due /\ tick'[s].at = tick[s].at
        /\ tick'[s].unread = tick[s].unread
        /\ tick'[s].step \notin {"idle", "plan", "acquire"}
    BY <1>5, CollectGoes DEF Goes
  <2>3. \A k \in Keys : Pending(k)' \subseteq Pending(k)
    BY <2>1, <2>2, GoesPending
  <2> QED  BY <1>1, <2>1, <2>3
<1>6. ASSUME NEW s \in Schedulers, Saves(s)
      PROVE  Rationed'
  BY <1>6, SavesRationed
<1>7. ASSUME NEW s \in Schedulers, Start(s)
      PROVE  Rationed'
  BY <1>7, StartRationed
<1>8. CASE Pass \/ UNCHANGED vars
  <2>1. runs' = runs /\ tick' = tick /\ ticks' = ticks
    BY <1>8 DEF Pass, vars
  <2>2. \A k \in Keys : Pending(k)' = Pending(k)
    BY <2>1 DEF Pending, Holding, Item
  <2> QED  BY <1>1, <2>1, <2>2
<1> QED  BY <1>3, <1>4, <1>5, <1>6, <1>7, <1>8, StatementsSave DEF Next, Work

-----------------------------------------------------------------------------
(* At the start nothing has run.                                           *)
LEMMA InitDispatch == Init => DispatchInv
<1> SUFFICES ASSUME Init
             PROVE  DispatchInv
  OBVIOUS
<1>1. runs = {} /\ faults = 0 /\ \A s \in Schedulers : tick[s] = IdleTick
  BY DEF Init
<1>2. Reports
  BY <1>1 DEF Reports, Reported, IdleTick
<1>3. RunsGranted /\ OwnRuns
  BY <1>1 DEF RunsGranted, OwnRuns
<1>4. Mourned
  <2>1. Doomed = {}
    BY <1>1 DEF Doomed
  <2> QED  BY <1>1, <2>1, FS_EmptySet DEF Mourned
<1>5. Rationed
  <2> SUFFICES ASSUME NEW k \in Keys
               PROVE  Counted(k)
    BY DEF Rationed
  <2>1. RunsOf(k) = {} /\ Pending(k) = {}
    BY <1>1 DEF RunsOf, Pending, IdleTick
  <2>2. ticks[k[2]] = 0
    BY DEF Init, Keys
  <2> QED  BY <2>1, <2>2, FS_EmptySet DEF Counted
<1> QED  BY <1>2, <1>3, <1>4, <1>5 DEF DispatchInv

(* The account of the dispatches is kept by every step.                    *)
LEMMA NextDispatchInv ==
  IndInv /\ DispatchInv /\ [Next]_vars => DispatchInv'
<1> SUFFICES ASSUME IndInv, DispatchInv, [Next]_vars
             PROVE  DispatchInv'
  OBVIOUS
<1>1. TypeOK /\ Reports /\ RunsGranted /\ OwnRuns /\ Mourned /\ Rationed
  BY DEF IndInv, DispatchInv
<1> QED
  BY <1>1, ReportsStep, RunsGrantedStep, OwnRunsStep, MournedStep, RationedStep
     DEF DispatchInv

(* The account holds of every behaviour.                                   *)
LEMMA Accounted == Spec => [](IndInv /\ DispatchInv)
  BY InitInv, NextInv, InitDispatch, NextDispatchInv, PTL DEF Spec

(* A run whose outcome never reaches the outbox is lost to a fault of its  *)
(* own: a statement that throws or a process that dies between the run row *)
(* and the outbox row.                                                     *)
THEOREM LostRunsNeedFaults == Spec => []LostPublicationNeedsFault
<1>1. DispatchInv /\ TypeOK => LostPublicationNeedsFault
  <2> SUFFICES ASSUME Mourned, TypeOK
               PROVE  Cardinality(Unpublished) <= faults
    BY DEF DispatchInv, LostPublicationNeedsFault
  <2>1. Unpublished \subseteq Doomed
    BY DEF Unpublished, Doomed, NoticeOf, Publishing, Wrote, Holding
  <2>2. /\ IsFiniteSet(Doomed) /\ Cardinality(Doomed) <= faults
        /\ faults \in Int
    BY DEF Mourned, TypeOK
  <2>3. /\ Cardinality(Unpublished) <= Cardinality(Doomed)
        /\ Cardinality(Unpublished) \in Nat /\ Cardinality(Doomed) \in Nat
    BY <2>1, <2>2, Fewer
  <2> QED  BY <2>2, <2>3
<1> QED  BY <1>1, Accounted, PTL DEF IndInv

(* However the ticks interleave, expire and crash, each tick saves at most *)
(* one run of a slot, whatever the outcome of the run, and none of a slot  *)
(* that it did not start in.                                               *)
THEOREM RerunsAreBounded == Spec => []RerunsBounded
<1>1. DispatchInv /\ TypeOK => RerunsBounded
  <2> SUFFICES ASSUME Rationed, TypeOK, NEW k \in Keys
               PROVE  Cardinality(RunsOf(k)) <= ticks[k[2]]
    BY DEF DispatchInv, RerunsBounded, RunsOf
  <2>1. /\ IsFiniteSet(RunsOf(k))
        /\ Cardinality(RunsOf(k)) + Cardinality(Pending(k)) <= ticks[k[2]]
    BY DEF Rationed, Counted
  <2>2. /\ Cardinality(Pending(k)) \in Nat /\ Cardinality(RunsOf(k)) \in Nat
        /\ ticks[k[2]] \in Nat
    BY <2>1, PendingFinite, TicksOf, FS_CardinalityType
  <2> QED  BY <2>1, <2>2
<1> QED  BY <1>1, Accounted, PTL DEF IndInv

-----------------------------------------------------------------------------
(* One run for each grant of a lease, whether or not its tick has been     *)
(* overtaken: where a slot was run twice, its lease was granted twice, and *)
(* the generations tell the runs apart.                                    *)
OneRunPerGrant ==
  \A q, r \in runs : q.key = r.key /\ q.gen = r.gen => q = r

(* No step adds a second run to a grant: the statement that saves it comes *)
(* once in a dispatch, and no other tick dispatches for that grant.        *)
LEMMA OneRunStep ==
  ASSUME IndInv, DispatchInv, OneRunPerGrant, [Next]_vars
  PROVE  OneRunPerGrant'
<1>1. CASE runs' = runs
  BY <1>1 DEF OneRunPerGrant
<1>2. ASSUME NEW s \in Schedulers, Saves(s)
      PROVE  OneRunPerGrant'
  <2>1. runs' \subseteq runs \cup {RunRow(s)} /\ (At(s, "saveRun") \/ runs' = runs)
    BY <1>2 DEF Saves
  <2>2. CASE runs' = runs
    BY <1>1, <2>2
  <2>3. CASE At(s, "saveRun")
    <3>1. RunRow(s).key = Key(s) /\ RunRow(s).gen = tick[s].gen
      BY DEF RunRow
    <3>2. \A r \in runs : ~(r.key = Key(s) /\ r.gen = tick[s].gen)
      BY <2>3 DEF DispatchInv, OwnRuns, Wrote, Holding, At
    <3> QED  BY <2>1, <3>1, <3>2 DEF OneRunPerGrant
  <2> QED  BY <2>1, <2>2, <2>3
<1>3. TypeOK
  BY DEF IndInv
<1> QED
  BY <1>1, <1>2, <1>3, StatementsSave
     DEF Next, Work, Start, PlanItem, Acquire, Collect, Release, Abort, Pass, vars

(* The run table has at most one row for each grant of each lease, so that *)
(* a rerun of a slot is always the run of a later owner and never a second *)
(* one of the same: a dispatch that is caught in its catch block does not  *)
(* save again.                                                             *)
THEOREM RunsFollowGrants == Spec => []OneRunPerGrant
<1>1. Init => OneRunPerGrant
  BY DEF Init, OneRunPerGrant
<1>2. IndInv /\ DispatchInv /\ OneRunPerGrant /\ [Next]_vars => OneRunPerGrant'
  BY OneRunStep
<1> QED  BY <1>1, <1>2, Accounted, PTL DEF Spec
=============================================================================
