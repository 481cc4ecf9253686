------------------------- MODULE IngestionScheduler -------------------------
(***************************************************************************)
(* IngestionSchedulerTickService.runTick, run by several processes: it     *)
(* expires old leases, plans the due items of the current slot, and for    *)
(* each takes the slot's lease, executes the canonical worker boundary,    *)
(* which collects events, persists the run and stages its publications,    *)
(* and gives the lease back.                                               *)
(*                                                                         *)
(* Every statement is a step of its own, since no transaction spans two of *)
(* them.  All checks of a tick use the tick's own start as the time, so a  *)
(* slow tick reads an ever staler clock.  An owner token is random; the    *)
(* generation of a request key tells its acquisitions apart and stands for *)
(* both, and with the key it names the run that the acquisition executes.  *)
(***************************************************************************)
EXTENDS Integers, FiniteSets, FiniteSetsExt

CONSTANTS
  Items,       \* enabled plan items, numbered by dispatch order
  Schedulers,  \* processes that run ticks
  Period,      \* length of a slot
  LeaseTerm,   \* getDefaultLeaseDurationMinutes
  Configs,     \* runtime configurations of a deployment
  MaxTime,     \* bound: the last instant
  MaxFaults    \* bound: crashes, thrown statements, failed collections

ASSUME ItemsAssumption == Items \subseteq Nat /\ IsFiniteSet(Items)
ASSUME SchedulersAssumption == IsFiniteSet(Schedulers)
ASSUME PeriodAssumption == Period \in Nat \ {0} /\ LeaseTerm \in 1 .. Period
ASSUME ConfigsAssumption ==
  Configs \subseteq [mode : {"legacy", "canonical", "shadow"},
                     fallback : BOOLEAN]
ASSUME SchedulerBounds == MaxTime \in Nat /\ MaxFaults \in Nat

VARIABLES
  now,         \* wall clock
  config,      \* runtime configuration, fixed by the environment
  lease,       \* app_ingestion_runtime_leases, per request key
  runs,        \* app_ingestion_runs: [key, gen, status]
  kept,        \* event snapshots and outbox rows: [key, gen, what]
  tick,        \* per scheduler, the tick it is running
  faults,      \* faults that have happened
  ticks        \* history: per slot, the ticks that started in it

vars == <<now, config, lease, runs, kept, tick, faults, ticks>>

Slot(t) == t \div Period                \* floorIsoToScheduleSlot
Slots == {Slot(t) : t \in 0 .. MaxTime}
Keys == Items \X Slots                  \* buildScheduledRequestKey
Done == {"success", "partial_success"}
Outcomes == Done \cup {"failed"}
Steps == {"idle", "plan", "acquire", "guard", "saveRun", "saveEvents",
          "stageOutcome", "stageSnapshot", "finalize", "release"}

NoResult == [status |-> "failed", events |-> FALSE]
IdleTick == [step |-> "idle", at |-> 0, unread |-> {}, due |-> {}, gen |-> 0,
             run |-> NoResult, report |-> "failed"]
NoLease == [status |-> "none", gen |-> 0, expiresAt |-> 0]

Init ==
  /\ now = 0
  /\ config \in Configs
  /\ lease = [k \in Keys |-> NoLease]
  /\ runs = {}
  /\ kept = {}
  /\ tick = [s \in Schedulers |-> IdleTick]
  /\ faults = 0
  /\ ticks = [n \in Slots |-> 0]

-----------------------------------------------------------------------------
At(s, step) == tick[s].step = step
Item(s) == Min(tick[s].due)
Key(s) == <<Item(s), Slot(tick[s].at)>>
Enter(s, step) == tick' = [tick EXCEPT ![s].step = step]
Fault == faults < MaxFaults /\ faults' = faults + 1

(* On to the first due item, or the end of the tick. *)
Dispatching(t, due) ==
  IF due = {} THEN IdleTick
  ELSE [IdleTick EXCEPT !.step = "acquire", !.at = t.at, !.due = due]

(* runTick starts with cleanupExpiredLeases. *)
Start(s) ==
  /\ At(s, "idle")
  /\ lease' = [k \in Keys |->
       IF lease[k].status = "acquired" /\ lease[k].expiresAt <= now
       THEN [lease[k] EXCEPT !.status = "expired"]
       ELSE lease[k]]
  /\ tick' = [tick EXCEPT ![s] =
       [IdleTick EXCEPT !.step = "plan", !.at = now, !.unread = Items]]
  /\ ticks' = [ticks EXCEPT ![Slot(now)] = @ + 1]
  /\ UNCHANGED <<now, config, runs, kept, faults>>

(* The planner names a slot by the ISO string of its start; the slot_start *)
(* of a row, a TIMESTAMPTZ, comes back from the driver as a Date.          *)
SlotStart(t) == <<"string", Slot(t)>>
RowSlotStart(r) == <<"Date", r.key[2]>>

(* hasSatisfiedRunForSlot: === between them; a status other than failed    *)
(* has an active boundary.                                                 *)
Satisfied(i, t) ==
  \E r \in runs :
    r.key[1] = i /\ RowSlotStart(r) = SlotStart(t) /\ r.status \in Done

(* planDueRuns reads the runs of one item after the other. *)
PlanItem(s, i) ==
  LET t == tick[s]
      due == IF Satisfied(i, t.at) THEN t.due ELSE t.due \cup {i}
  IN /\ At(s, "plan")
     /\ i \in t.unread
     /\ tick' = [tick EXCEPT ![s] =
          IF t.unread = {i} THEN Dispatching(t, due)
          ELSE [t EXCEPT !.due = due, !.unread = @ \ {i}]]
     /\ UNCHANGED <<now, config, lease, runs, kept, faults, ticks>>

NextDispatchRetrying(s) ==    \* a mutant of NextDispatch: failed items again
  tick' = [tick EXCEPT ![s] =
    IF At(s, "release") /\ @.report = "failed" THEN Dispatching(@, @.due)
    ELSE Dispatching(@, @.due \ {Item(s)})]

NextDispatch(s) ==
  tick' = [tick EXCEPT ![s] = Dispatching(@, @.due \ {Item(s)})]

FreeUnlessLive(k, t) ==       \* a mutant of Free: expiry off by one
  ~(lease[k].status = "acquired" /\ lease[k].expiresAt > t + 1)

(* The WHERE clause of acquireLease. *)
Free(k, t) == ~(lease[k].status = "acquired" /\ lease[k].expiresAt > t)

Acquire(s) ==
  LET k == Key(s) IN
  /\ At(s, "acquire")
  /\ IF Free(k, tick[s].at)
     THEN /\ lease' = [lease EXCEPT ![k] =
               [status |-> "acquired", gen |-> @.gen + 1,
                expiresAt |-> tick[s].at + LeaseTerm]]
          /\ tick' = [tick EXCEPT ![s].step = "guard",
                                  ![s].gen = lease[k].gen + 1]
     ELSE lease' = lease /\ NextDispatch(s)
  /\ UNCHANGED <<now, config, runs, kept, faults, ticks>>

(* isCurrentOwner, asked as of the tick's start. *)
CurrentOwner(s) ==
  LET l == lease[Key(s)] IN
  l.status = "acquired" /\ l.gen = tick[s].gen /\ l.expiresAt > tick[s].at

-----------------------------------------------------------------------------
(* What the two collectors may come back with. *)
Canonical == [failed : {FALSE}, events : BOOLEAN]
             \cup {[failed |-> TRUE, events |-> FALSE]}
Legacy == [threw : {FALSE}, complete : BOOLEAN, events : BOOLEAN]
          \cup {[threw |-> TRUE, complete |-> FALSE, events |-> FALSE]}

(* An exception of the legacy collector escapes executeAssetWindow, except *)
(* in shadow mode.                                                         *)
Escapes(c, l) ==
  /\ l.threw
  /\ \/ config.mode = "legacy"
     \/ config.mode = "canonical" /\ c.failed /\ config.fallback

Boundary(c) ==
  CASE config.mode = "legacy" -> "legacy"
    [] config.mode # "legacy" /\ ~c.failed -> "canonical"
    [] config.mode # "legacy" /\ c.failed ->
         IF config.fallback THEN "legacy" ELSE "none"

(* fallbackApplied or partialFlag. *)
Degraded(c, l) ==
  \/ config.mode # "legacy" /\ c.failed
  \/ config.mode = "legacy" /\ ~l.complete
  \/ config.mode = "shadow" /\ ~(l.complete /\ l.events)

Collected(c, l) ==
  [status |-> CASE Boundary(c) = "none" -> "failed"
                [] Boundary(c) # "none" ->
                     IF Degraded(c, l) THEN "partial_success" ELSE "success",
   events |-> CASE Boundary(c) = "canonical" -> c.events
                [] Boundary(c) = "legacy" -> l.events
                [] Boundary(c) = "none" -> FALSE]

(* The boundary runs only under a lease that is still the slot's; what the *)
(* collectors find depends on nothing the other processes write.           *)
Collect(s) ==
  /\ At(s, "guard")
  /\ IF ~CurrentOwner(s)
     THEN Enter(s, "release") /\ UNCHANGED faults
     ELSE \E c \in Canonical, l \in Legacy :
       IF Escapes(c, l)
       THEN Fault /\ Enter(s, "release")
       ELSE LET run == Collected(c, l) IN
            /\ tick' = [tick EXCEPT ![s].step = "saveRun", ![s].run = run,
                                    ![s].report = run.status]
            /\ IF run.status = "failed" THEN Fault ELSE UNCHANGED faults
  /\ UNCHANGED <<now, config, lease, runs, kept, ticks>>

-----------------------------------------------------------------------------
(* persistRunWithEvents and stageRunPublications, statement by statement.  *)
Row(s, what) == [key |-> Key(s), gen |-> tick[s].gen, what |-> what]

RunSaved(s) ==
  runs \cup {[key |-> Key(s), gen |-> tick[s].gen, status |-> tick[s].run.status]}

SaveRun(s) ==
  /\ At(s, "saveRun")
  /\ runs' = RunSaved(s)
  /\ Enter(s, "saveEvents")
  /\ UNCHANGED <<now, config, lease, kept, faults, ticks>>

Notice(s) == IF tick[s].run.status = "failed" THEN "failed" ELSE "completed"

(* What a step of the persistence keeps beside the run row, and the step   *)
(* that follows it: an event snapshot is published for a run with events.  *)
Keeps(s) ==
  CASE At(s, "saveEvents") -> {Row(s, "events")}
    [] At(s, "stageOutcome") -> {Row(s, Notice(s))}
    [] At(s, "stageSnapshot") -> {Row(s, "snapshot")}
    [] At(s, "saveRun") -> {}

AfterAnySuccess(s) ==         \* a mutant of After: partial runs not published
  IF At(s, "saveEvents") /\ tick[s].run.status # "partial_success"
  THEN "stageOutcome" ELSE "finalize"

After(s) ==
  CASE At(s, "saveEvents") -> "stageOutcome"
    [] At(s, "stageOutcome") ->
         IF tick[s].run.events THEN "stageSnapshot" ELSE "finalize"
    [] At(s, "stageSnapshot") -> "finalize"

Keep(s) ==
  /\ tick[s].step \in {"saveEvents", "stageOutcome", "stageSnapshot"}
  /\ kept' = kept \cup Keeps(s)
  /\ Enter(s, After(s))
  /\ UNCHANGED <<now, config, lease, runs, faults, ticks>>

PersistThrowSwallowed(s) ==   \* a mutant of PersistThrows: status kept
  /\ tick[s].step \in {"saveRun", "saveEvents", "stageOutcome",
                       "stageSnapshot"}
  /\ Enter(s, "finalize")
  /\ Fault
  /\ UNCHANGED <<now, config, lease, runs, kept, ticks>>

(* The boundary catches a statement that throws, before or after it        *)
(* commits: the report says partial_success, the run row stays as it is.   *)
PersistThrows(s) ==
  /\ tick[s].step \in {"saveRun", "saveEvents", "stageOutcome",
                       "stageSnapshot"}
  /\ runs' \in {runs} \cup (IF At(s, "saveRun") THEN {RunSaved(s)} ELSE {})
  /\ kept' \in {kept, kept \cup Keeps(s)}
  /\ tick' = [tick EXCEPT ![s].step = "finalize",
                          ![s].report = "partial_success"]
  /\ Fault
  /\ UNCHANGED <<now, config, lease, ticks>>

-----------------------------------------------------------------------------
Finalize(s) ==
  /\ At(s, "finalize")
  /\ tick' = [tick EXCEPT ![s].step = "release",
       ![s].report = IF CurrentOwner(s) THEN @ ELSE "failed"]
  /\ UNCHANGED <<now, config, lease, runs, kept, faults, ticks>>

(* An ownership query that throws is caught by the dispatch's catch. *)
GuardThrows(s) ==
  /\ At(s, "guard") \/ At(s, "finalize")
  /\ tick' = [tick EXCEPT ![s].step = "release", ![s].report = "failed"]
  /\ Fault
  /\ UNCHANGED <<now, config, lease, runs, kept, ticks>>

OwnsAnyGeneration(s) == TRUE  \* a mutant of Owns: released by request key

Owns(s) == lease[Key(s)].gen = tick[s].gen

(* releaseLease, fenced by token and generation whatever the status is. *)
Release(s) ==
  /\ At(s, "release")
  /\ lease' = IF Owns(s)
              THEN [lease EXCEPT ![Key(s)].status = "released"]
              ELSE lease
  /\ NextDispatch(s)
  /\ UNCHANGED <<now, config, runs, kept, faults, ticks>>

(* The process dies, or a statement outside the dispatch's try throws.     *)
Abort(s) ==
  /\ ~At(s, "idle")
  /\ tick' = [tick EXCEPT ![s] = IdleTick]
  /\ Fault
  /\ UNCHANGED <<now, config, lease, runs, kept, ticks>>

Pass ==
  /\ now < MaxTime
  /\ now' = now + 1
  /\ UNCHANGED <<config, lease, runs, kept, tick, faults, ticks>>

Work(s) ==
  \/ Start(s)
  \/ \E i \in Items : PlanItem(s, i)
  \/ Acquire(s)
  \/ Collect(s)
  \/ SaveRun(s)
  \/ Keep(s)
  \/ Finalize(s)
  \/ Release(s)

Next ==
  \/ \E s \in Schedulers :
       Work(s) \/ PersistThrows(s) \/ GuardThrows(s) \/ Abort(s)
  \/ Pass

Spec == Init /\ [][Next]_vars
-----------------------------------------------------------------------------
(* Type correctness; a tick past its planning always has an item at hand.  *)
Run == [key : Keys, gen : Nat, status : Outcomes]
Kept == [key : Keys, gen : Nat,
         what : {"events", "completed", "failed", "snapshot"}]
Lease == [status : {"none", "acquired", "released", "expired"},
          gen : Nat, expiresAt : Nat]
Tick == [step : Steps, at : 0 .. MaxTime, unread : SUBSET Items,
         due : SUBSET Items, gen : Nat,
         run : [status : Outcomes, events : BOOLEAN], report : Outcomes]

TypeOK ==
  /\ now \in 0 .. MaxTime
  /\ config \in Configs
  /\ lease \in [Keys -> Lease]
  /\ runs \subseteq Run
  /\ kept \subseteq Kept
  /\ tick \in [Schedulers -> Tick]
  /\ \A s \in Schedulers : tick[s].step \notin {"idle", "plan"} =>
       tick[s].due # {}
  /\ faults \in 0 .. MaxFaults
  /\ ticks \in [Slots -> Nat]

(* The steps at which a tick acts on a lease it acquired. *)
Holding(s) == tick[s].step \notin {"idle", "plan", "acquire"}

(* Two ticks execute the same slot at once only after the lease of the     *)
(* older one has run out by the clock.  A tick that lost its lease still   *)
(* comes back to release it, and the younger tick may itself have started  *)
(* while the lease was live, since any process's cleanup expires it.       *)
OverlapNeedsExpiry ==
  \A s, t \in Schedulers :
    Holding(s) /\ Holding(t) /\ Key(s) = Key(t) /\ tick[s].gen < tick[t].gen
      => now >= tick[s].at + LeaseTerm

(* No run row keeps a slot from being run again, so it is run by every     *)
(* tick that finds its lease free: but by each tick once, whatever became  *)
(* of the run, and however the ticks' leases lapse and are taken over.     *)
RerunsBounded ==
  \A k \in Keys : Cardinality({r \in runs : r.key = k}) <= ticks[k[2]]

(* A dispatch that ends in a report of success left a success row, its     *)
(* events and its publications behind: no statement that threw on the way  *)
(* goes unseen.                                                            *)
ReportedSuccessIsDurable ==
  \A s \in Schedulers : At(s, "release") /\ tick[s].report = "success" =>
    /\ RunSaved(s) = runs /\ tick[s].run.status = "success"
    /\ {Row(s, "events"), Row(s, "completed")} \subseteq kept
    /\ tick[s].run.events => Row(s, "snapshot") \in kept

Unpublished ==
  {r \in runs :
    /\ [key |-> r.key, gen |-> r.gen,
        what |-> IF r.status = "failed" THEN "failed" ELSE "completed"]
         \notin kept
    /\ \A s \in Schedulers :
         Holding(s) => <<Key(s), tick[s].gen>> # <<r.key, r.gen>>}

(* A run whose outcome never reaches the outbox costs a fault each: later  *)
(* runs of the slot publish their own outcome, never the lost one.         *)
LostPublicationNeedsFault == Cardinality(Unpublished) <= faults

(* docs/scale/sec-g.md: current-owner checks guard execution and           *)
(* finalization, so a run row is written by the owner of the slot's lease. *)
RunsSavedByOwner ==
  [][\A r \in runs' \ runs : lease[r.key].gen = r.gen]_vars

(* The lease table keeps the promise of a fenced lease: whoever comes back *)
(* late, a live lease ends by its own holder or by running out.            *)
Epoch == [k \in Keys |-> lease[k].gen]
Live == [k \in Keys |-> lease[k].status = "acquired"]
Until == [k \in Keys |-> lease[k].expiresAt]
Hold(s) == [by |-> s, key |-> Key(s), epoch |-> tick[s].gen]
Grip == {Hold(s) : s \in {x \in Schedulers : Holding(x)}}

Leases == INSTANCE FencedLease WITH
  Workers <- Schedulers, Term <- LeaseTerm,
  epoch <- Epoch, live <- Live, until <- Until, grip <- Grip

ImplementsFencedLease == Leases!Spec
=============================================================================
