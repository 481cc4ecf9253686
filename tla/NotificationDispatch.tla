------------------------- MODULE NotificationDispatch -------------------------
(***************************************************************************)
(* The notification outbox and the calls of dispatchDueNotificationOutbox  *)
(* that drain it.                                                          *)
(*                                                                         *)
(* The claim is that of the ingestion outbox (IngestionOutbox), but the    *)
(* work on an item is not: the dispatcher first reads the attempt ledger,  *)
(* and when the latest attempt was a success, or may have been one, closes *)
(* the item without a second send.  A lost claim throws and ends the call. *)
(* The ledger orders attempts by the start of the call that made them,     *)
(* which is the order of their generations.                                *)
(***************************************************************************)
EXTENDS Integers, FiniteSets, Sequences

CONSTANTS
  Items,          \* outbox rows, one per decision, channel and target
  Dispatchers,    \* processes that call dispatchDueNotificationOutbox
  ClaimTTL,       \* lease of a claim (30 s in the code)
  BackoffUnit,    \* first retry delay (5 min)
  RateLimitUnit,  \* first retry delay after a rate limit (30 min)
  MaxAttempts,    \* attempts before dead (5)
  BatchLimit,     \* limit of a claim
  MaxFaults,      \* bound: crashes, thrown statements and overrun leases
  None            \* SQL NULL

ASSUME DispatchersAssumption == None \notin Dispatchers
ASSUME ItemsAssumption == None \notin Items
ASSUME AttemptsAssumption == MaxAttempts \in 1..6
ASSUME DurationsAssumption ==
  ClaimTTL \in Nat \ {0} /\ BackoffUnit \in Nat /\ RateLimitUnit \in Nat
ASSUME BoundsAssumption == BatchLimit \in Nat \ {0} /\ MaxFaults \in Nat

VARIABLES
  row,      \* app_notification_outbox
  audit,    \* app_notification_outbox_attempts: per item, rows [gen, outcome]
  sends,    \* per item, calls of transport.send
  call,     \* per dispatcher, the call it is executing
  faults,   \* faults that have happened
  overrun   \* items whose lease ran out under the call that held it

vars == <<row, audit, sends, call, faults, overrun>>

Statuses == {"absent", "staged", "dispatching", "delivered", "failed", "dead",
             "ambiguous"}
Closed == {"delivered", "dead", "ambiguous"}
Steps == {"idle", "read", "send", "save", "mark"}

(* What an attempt row tells apart: NotificationDeliveryOutcome, with      *)
(* every result that is not retryable as permanent.                        *)
Outcomes == {"success", "ambiguous", "permanent", "temporary", "rate_limited"}
Retryable == {"temporary", "rate_limited"}

AbsentRow == [status |-> "absent", attempts |-> 0, gen |-> 0, holder |-> None,
              availableIn |-> 0, expiresIn |-> 0]
NoClaim == [gen |-> 0, attempts |-> 0]
IdleCall == [step |-> "idle", todo |-> {}, item |-> None, outcome |-> None,
             claim |-> [i \in Items |-> NoClaim], elapsed |-> 0]

Init ==
  /\ row = [i \in Items |-> AbsentRow]
  /\ audit = [i \in Items |-> {}]
  /\ sends = [i \in Items |-> 0]
  /\ call = [p \in Dispatchers |-> IdleCall]
  /\ faults = 0
  /\ overrun = {}

-----------------------------------------------------------------------------
(* An outbox key that exists is not staged again. *)
Stage(i) ==
  /\ row[i].status = "absent"
  /\ row' = [row EXCEPT ![i].status = "staged"]
  /\ UNCHANGED <<audit, sends, call, faults, overrun>>

DueBeforeExpiry(i) ==        \* a mutant of Due: claim_expires_at ignored
  \/ row[i].status \in {"staged", "failed"} /\ row[i].availableIn = 0
  \/ row[i].status = "dispatching"

DueUnclaimed(i) ==           \* a mutant of Due: no expired claim is retaken
  row[i].status \in {"staged", "failed"} /\ row[i].availableIn = 0

Due(i) ==
  \/ row[i].status \in {"staged", "failed"} /\ row[i].availableIn = 0
  \/ row[i].status = "dispatching" /\ row[i].expiresIn = 0

Claimed(r, p) ==
  [status |-> "dispatching", holder |-> p, gen |-> r.gen + 1,
   expiresIn |-> ClaimTTL, attempts |-> r.attempts,
   availableIn |-> r.availableIn]

ClaimDue(p) ==
  LET due == {i \in Items : Due(i)} IN
  /\ call[p].step = "idle"
  /\ \E batch \in SUBSET due :
       /\ batch # {}
       /\ Cardinality(batch) <= BatchLimit
       /\ Cardinality(batch) < BatchLimit => batch = due
       /\ row' = [i \in Items |->
            IF i \in batch
            THEN Claimed(row[i], p)
            ELSE row[i]]
       /\ call' = [call EXCEPT ![p] =
            [step |-> "read", todo |-> batch, item |-> None, outcome |-> None,
             elapsed |-> 0,
             claim |-> [i \in Items |->
               IF i \in batch
               THEN [gen |-> row[i].gen + 1, attempts |-> row[i].attempts]
               ELSE NoClaim]]]
  /\ UNCHANGED <<audit, sends, faults, overrun>>

-----------------------------------------------------------------------------
Working(p, step) == call[p].step = step

GoTo(p, step, item, outcome) ==
  call' = [call EXCEPT ![p] =
    [step |-> step, todo |-> @.todo, item |-> item, outcome |-> outcome,
     claim |-> @.claim, elapsed |-> @.elapsed]]

Latest(i) == {a \in audit[i] : \A b \in audit[i] : b.gen <= a.gen}

PriorIgnored(i) == {}        \* a mutant of Prior: the ledger is not read

(* The outcomes the dispatcher takes over from the latest attempt. *)
Prior(i) == {a.outcome : a \in Latest(i)} \cap {"success", "ambiguous"}

(* listAttemptsForOutbox, and what is decided from it. *)
ReadLedger(p, i) ==
  /\ Working(p, "read")
  /\ i \in call[p].todo
  /\ IF Prior(i) = {}
     THEN GoTo(p, "send", i, None)
     ELSE \E outcome \in Prior(i) : GoTo(p, "mark", i, outcome)
  /\ UNCHANGED <<row, audit, sends, faults, overrun>>

(* A payload that does not fit, a target or a subscription that was        *)
(* disabled, or a lookup that throws: permanent, and nothing is sent.      *)
Refuse(p) ==
  /\ Working(p, "send")
  /\ GoTo(p, "save", call[p].item, "permanent")
  /\ UNCHANGED <<row, audit, sends, faults, overrun>>

Send(p, outcome) ==
  /\ Working(p, "send")
  /\ sends' = [sends EXCEPT ![call[p].item] = @ + 1]
  /\ GoTo(p, "save", call[p].item, outcome)
  /\ UNCHANGED <<row, audit, faults, overrun>>

SaveSkipped(p) ==            \* a mutant of SaveAttempt: no row for a success
  /\ Working(p, "save")
  /\ IF call[p].outcome = "success" THEN audit' = audit
     ELSE audit' = [audit EXCEPT ![call[p].item] =
            @ \cup {[gen |-> call[p].claim[call[p].item].gen,
                     outcome |-> call[p].outcome]}]
  /\ GoTo(p, "mark", call[p].item, call[p].outcome)
  /\ UNCHANGED <<row, sends, faults, overrun>>

(* saveAttempt is an upsert on an id made of the outbox id, the count and  *)
(* the call's start, so each claim has one row.                            *)
SaveAttempt(p) ==
  LET i == call[p].item IN
  /\ Working(p, "save")
  /\ audit' = [audit EXCEPT ![i] =
       @ \cup {[gen |-> call[p].claim[i].gen, outcome |-> call[p].outcome]}]
  /\ GoTo(p, "mark", i, call[p].outcome)
  /\ UNCHANGED <<row, sends, faults, overrun>>

-----------------------------------------------------------------------------
OwnsAlways(p, i) == TRUE     \* a mutant of Owns: the unfenced mark

Owns(p, i) == row[i].holder = p /\ row[i].gen = call[p].claim[i].gen

(* A fenced update clears the claim; every outcome counts an attempt. *)
Settled(r, status, wait) ==
  [status |-> status, attempts |-> r.attempts + 1, availableIn |-> wait,
   gen |-> r.gen, holder |-> None, expiresIn |-> 0]

Doubled == <<1, 2, 4, 8, 16, 32>>

(* Exponential backoff, capped at the sixth failure, from the call's start.*)
RetryDelay(p, n) ==
  LET unit == IF call[p].outcome = "rate_limited" THEN RateLimitUnit
              ELSE BackoffUnit
      left == unit * Doubled[IF n > 6 THEN 6 ELSE n] - call[p].elapsed
  IN IF left > 0 THEN left ELSE 0

ClosedRowLate(p, i) ==       \* a mutant of ClosedRow: > for >=
  LET n == call[p].claim[i].attempts + 1
      outcome == call[p].outcome
      close(status) == Settled(row[i], status, row[i].availableIn)
  IN CASE outcome = "success" -> close("delivered")
       [] outcome = "ambiguous" -> close("ambiguous")
       [] outcome = "permanent"
          \/ (outcome \in Retryable /\ n > MaxAttempts) -> close("dead")
       [] OTHER -> Settled(row[i], "failed", RetryDelay(p, n))

(* The threshold is compared with the count read at the claim. *)
ClosedRow(p, i) ==
  LET n == call[p].claim[i].attempts + 1
      outcome == call[p].outcome
      close(status) == Settled(row[i], status, row[i].availableIn)
  IN CASE outcome = "success" -> close("delivered")
       [] outcome = "ambiguous" -> close("ambiguous")
       [] outcome = "permanent"
          \/ (outcome \in Retryable /\ n >= MaxAttempts) -> close("dead")
       [] OTHER -> Settled(row[i], "failed", RetryDelay(p, n))

NextItem(p) ==
  LET left == call[p].todo \ {call[p].item} IN
  call' = [call EXCEPT ![p] =
    IF left = {} THEN IdleCall
    ELSE [step |-> "read", todo |-> left, item |-> None, outcome |-> None,
          claim |-> @.claim, elapsed |-> @.elapsed]]

(* markClaimDelivered, -Ambiguous, -Dead or -Failed.  A lost claim throws  *)
(* out of the whole call, which leaves the rest of its batch claimed.      *)
MarkClaim(p) ==
  LET i == call[p].item IN
  /\ Working(p, "mark")
  /\ IF Owns(p, i)
     THEN row' = [row EXCEPT ![i] = ClosedRow(p, i)] /\ NextItem(p)
     ELSE row' = row /\ call' = [call EXCEPT ![p] = IdleCall]
  /\ UNCHANGED <<audit, sends, faults, overrun>>

Fault == faults < MaxFaults /\ faults' = faults + 1

(* The process dies or a statement throws, before or after it took effect. *)
Abort(p) ==
  /\ ~Working(p, "idle")
  /\ call' = [call EXCEPT ![p] = IdleCall]
  /\ Fault
  /\ UNCHANGED <<row, audit, sends, overrun>>

-----------------------------------------------------------------------------
(* A call older than the longest delay before a retry gets no older. *)
MaxElapsed ==
  LET unit == IF RateLimitUnit > BackoffUnit THEN RateLimitUnit ELSE BackoffUnit
  IN unit * Doubled[IF MaxAttempts > 1 THEN MaxAttempts - 1 ELSE 1]

Overruns ==
  {i \in Items : \E p \in Dispatchers :
     i \in call[p].todo /\ Owns(p, i) /\ row[i].expiresIn = 1}

Earlier(n) == IF n > 0 THEN n - 1 ELSE 0

Tick ==
  /\ row' = [i \in Items |-> [row[i] EXCEPT !.availableIn = Earlier(@),
                                            !.expiresIn = Earlier(@)]]
  /\ call' = [p \in Dispatchers |->
       IF Working(p, "idle") \/ call[p].elapsed >= MaxElapsed THEN call[p]
       ELSE [call[p] EXCEPT !.elapsed = @ + 1]]
  /\ IF Overruns # {} THEN Fault ELSE UNCHANGED faults
  /\ overrun' = overrun \cup Overruns
  /\ UNCHANGED <<audit, sends>>

Work(p) ==
  \/ \E i \in Items : ReadLedger(p, i)
  \/ Refuse(p)
  \/ \E outcome \in Outcomes : Send(p, outcome)
  \/ SaveAttempt(p)
  \/ MarkClaim(p)

Next ==
  \/ \E i \in Items : Stage(i)
  \/ \E p \in Dispatchers : ClaimDue(p) \/ Work(p) \/ Abort(p)
  \/ Tick

Spec == Init /\ [][Next]_vars

(* Each dispatcher is scheduled again and again, a call that is not        *)
(* disturbed goes on, and time passes.                                     *)
FairSpec ==
  /\ Spec
  /\ WF_vars(Tick)
  /\ \A p \in Dispatchers : WF_vars(ClaimDue(p)) /\ WF_vars(Work(p))
-----------------------------------------------------------------------------
(* Type correctness of the tables, the counters and every running call.    *)
Row == [status : Statuses, attempts : Nat, gen : Nat,
        holder : Dispatchers \cup {None}, availableIn : Nat, expiresIn : Nat]
Call == [step : Steps, todo : SUBSET Items, item : Items \cup {None},
         outcome : Outcomes \cup {None},
         claim : [Items -> [gen : Nat, attempts : Nat]], elapsed : Nat]

TypeOK ==
  /\ row \in [Items -> Row]
  /\ audit \in [Items -> SUBSET [gen : Nat, outcome : Outcomes]]
  /\ sends \in [Items -> Nat]
  /\ call \in [Dispatchers -> Call]
  /\ faults \in Nat
  /\ overrun \in SUBSET Items

Recorded(i, outcome) == \E a \in audit[i] : a.outcome = outcome

(* The ledger accounts for every closed row: delivered and ambiguous rows  *)
(* have an attempt that says so and a send; a dead row has a permanent     *)
(* attempt or has used up its attempts, in the hands of its last owner.    *)
ClosedRowsAccounted ==
  \A i \in Items :
    /\ row[i].status = "delivered" => Recorded(i, "success") /\ sends[i] > 0
    /\ row[i].status = "ambiguous" => Recorded(i, "ambiguous") /\ sends[i] > 0
    /\ row[i].status = "dead" => \E a \in audit[i] :
         /\ a.gen = row[i].gen
         /\ \/ a.outcome = "permanent"
            \/ a.outcome \in Retryable /\ row[i].attempts = MaxAttempts

(* An item is charged at most MaxAttempts attempts, and is not offered for *)
(* retry with its attempts used up, whatever calls overtake one another.   *)
AttemptsBounded ==
  \A i \in Items :
    /\ row[i].attempts <= MaxAttempts
    /\ row[i].status \notin Closed => row[i].attempts < MaxAttempts

(* A second send needs a reason: a recorded retryable failure, or a fault. *)
ResendsHaveReason ==
  \A i \in Items :
    sends[i] <= 1 + faults + Cardinality({a \in audit[i] : a.outcome \in Retryable})

(* Crashes alone never repeat a send the ledger knows to have succeeded or *)
(* to be ambiguous: unless a lease ran out under its owner, a recorded     *)
(* success or ambiguity is the end of the sends (outbox-dispatcher.ts,     *)
(* the comment before priorAttempt).                                       *)
RecordedSendIsNotRepeated ==
  [][\A i \in Items :
       i \notin overrun /\ (Recorded(i, "success") \/ Recorded(i, "ambiguous"))
         => sends'[i] = sends[i]]_vars

(* Every staged notification is closed, through crashes and lost claims    *)
(* that leave it claimed, once the faults stop.                            *)
EveryItemSettles ==
  \A i \in Items : row[i].status = "staged" ~> row[i].status \in Closed

(* What the comment before priorAttempt claims: a dispatcher that decides  *)
(* to send has no recorded success to reconcile first.                     *)
SuccessIsReconciled ==
  [][\A p \in Dispatchers, i \in Items :
       ReadLedger(p, i) /\ Recorded(i, "success")
         => call'[p].step # "send"]_vars

(* What the reliability runbook claims: an item whose attempt failed       *)
(* permanently is not automatically redispatched.                          *)
PermanentIsNotRedispatched ==
  [][\A i \in Items : Recorded(i, "permanent") => sends'[i] = sends[i]]_vars

PhaseOf(status) ==
  CASE status = "absent"                 -> "absent"
    [] status \in {"staged", "failed"}   -> "waiting"
    [] status = "dispatching"            -> "claimed"
    [] status = "delivered"              -> "delivered"
    [] status \in {"dead", "ambiguous"}  -> "abandoned"

Queue == INSTANCE FencedQueue WITH
  Workers <- Dispatchers,
  phase <- [i \in Items |-> PhaseOf(row[i].status)],
  owner <- [i \in Items |-> row[i].holder],
  epoch <- [i \in Items |-> row[i].gen],
  sent <- {i \in Items : sends[i] > 0}

(* The notification outbox keeps the promise of the same fenced queue.     *)
ImplementsFencedQueue == Queue!Spec
=============================================================================
