--------------------------- MODULE IngestionOutbox ---------------------------
(***************************************************************************)
(* The durable ingestion outbox (SqlOutboxRepository) and the calls of     *)
(* OutboxPublisherService.publishDueOutbox that drain it.                  *)
(*                                                                         *)
(* Several publishers drain the same table.  A call claims a batch under a *)
(* lease, then for each item publishes to the transport, writes an attempt *)
(* row and closes the item with an update fenced by (claim_token,          *)
(* claim_generation).  Nothing ties the three steps together: a process    *)
(* may die between them, a statement may throw before or after it commits, *)
(* and a slow call may outlive its lease.                                  *)
(*                                                                         *)
(* Timestamps are kept as the time left until them, so the states are      *)
(* those of the code up to a shift of the clock.  A claim token is drawn   *)
(* at random by each call; since claim_generation tells two claims of one  *)
(* row apart, the calling publisher stands for its token.                  *)
(***************************************************************************)
EXTENDS Integers, FiniteSets

CONSTANTS
  Items,        \* outbox rows, one per dedupe key
  Publishers,   \* processes that call publishDueOutbox
  ClaimTTL,     \* lease of a claim (30 s in the code)
  BackoffUnit,  \* added to the delay at each failure (5 min in the code)
  MaxAttempts,  \* maxAttemptsBeforeDead
  BatchLimit,   \* limit of a claim
  MaxFaults,    \* bound: crashes, thrown statements and overrun leases
  None          \* SQL NULL

ASSUME PublishersAssumption == None \notin Publishers
ASSUME ItemsAssumption == None \notin Items
ASSUME AttemptsAssumption == MaxAttempts \in Nat \ {0}
ASSUME DurationsAssumption == ClaimTTL \in Nat \ {0} /\ BackoffUnit \in Nat
ASSUME BoundsAssumption == BatchLimit \in Nat \ {0} /\ MaxFaults \in Nat

VARIABLES
  row,      \* app_ingestion_outbox
  audit,    \* app_ingestion_outbox_attempts: per item, rows [gen, success]
  sends,    \* per item, copies the transport has accepted
  call,     \* per publisher, the publishDueOutbox call it is executing
  faults    \* faults that have happened

vars == <<row, audit, sends, call, faults>>

Statuses == {"absent", "pending", "publishing", "published", "failed", "dead"}
Closed == {"published", "dead"}
Steps == {"idle", "publish", "recordSuccess", "markPublished",
          "recordFailure", "markFailure"}

(* A call older than its lease and the longest backoff gets no older.      *)
MaxElapsed == ClaimTTL + MaxAttempts * BackoffUnit
AbsentRow == [status |-> "absent", attempts |-> 0, gen |-> 0, holder |-> None,
              availableIn |-> 0, expiresIn |-> 0]
NoClaim == [gen |-> 0, attempts |-> 0]
IdleCall == [step |-> "idle", todo |-> {}, item |-> None,
             claim |-> [i \in Items |-> NoClaim], elapsed |-> 0]

Init ==
  /\ row = [i \in Items |-> AbsentRow]
  /\ audit = [i \in Items |-> {}]
  /\ sends = [i \in Items |-> 0]
  /\ call = [p \in Publishers |-> IdleCall]
  /\ faults = 0

-----------------------------------------------------------------------------
(* INSERT ... ON CONFLICT (dedupe_key) DO NOTHING: a second staging of the *)
(* same dedupe key, by a replay, changes nothing.                          *)
Stage(i) ==
  /\ row[i].status = "absent"
  /\ row' = [row EXCEPT ![i].status = "pending"]
  /\ UNCHANGED <<audit, sends, call, faults>>

DueBeforeExpiry(i) ==        \* a mutant of Due: claim_expires_at ignored
  \/ row[i].status \in {"pending", "failed"} /\ row[i].availableIn = 0
  \/ row[i].status = "publishing"

DueUnclaimed(i) ==           \* a mutant of Due: no expired claim is retaken
  row[i].status \in {"pending", "failed"} /\ row[i].availableIn = 0

Due(i) ==
  \/ row[i].status \in {"pending", "failed"} /\ row[i].availableIn = 0
  \/ row[i].status = "publishing" /\ row[i].expiresIn = 0

Claimed(r, p) ==
  [status |-> "publishing", holder |-> p, gen |-> r.gen + 1,
   expiresIn |-> ClaimTTL, attempts |-> r.attempts,
   availableIn |-> r.availableIn]

(* One statement selects and updates at most BatchLimit due rows, and the  *)
(* call remembers the rows as the statement returned them.                 *)
ClaimDue(p) ==
  LET due == {i \in Items : Due(i)} IN
  /\ call[p].step = "idle"
  /\ \E batch \in SUBSET due :
       /\ batch # {}
       /\ Cardinality(batch) <= BatchLimit
       /\ Cardinality(batch) < BatchLimit => batch = due
       /\ row' = [i \in Items |->
            IF i \in batch
            THEN Claimed(row[i], p)
            ELSE row[i]]
       /\ call' = [call EXCEPT ![p] =
            [step |-> "publish", todo |-> batch, item |-> None, elapsed |-> 0,
             claim |-> [i \in Items |->
               IF i \in batch
               THEN [gen |-> row[i].gen + 1, attempts |-> row[i].attempts]
               ELSE NoClaim]]]
  /\ UNCHANGED <<audit, sends, faults>>

-----------------------------------------------------------------------------
Working(p, step) == call[p].step = step

OwnsAlways(p, i) == TRUE     \* a mutant of Owns: the unfenced markOutbox*

(* The WHERE clause of every fenced update. *)
Owns(p, i) == row[i].holder = p /\ row[i].gen = call[p].claim[i].gen

GoTo(p, step) == call' = [call EXCEPT ![p].step = step]

(* The next turn of the loop, or the end of the call. *)
NextItem(p) ==
  LET left == call[p].todo \ {call[p].item} IN
  call' = [call EXCEPT ![p] =
    IF left = {} THEN IdleCall
    ELSE [step |-> "publish", todo |-> left, item |-> None,
          claim |-> @.claim, elapsed |-> @.elapsed]]

(* A throw caught by the loop's catch: on to the failure branch. *)
Fault == faults < MaxFaults /\ faults' = faults + 1

StartItem(p, i, step) ==
  /\ Working(p, "publish")
  /\ i \in call[p].todo
  /\ call' = [call EXCEPT ![p] = [@ EXCEPT !.item = i, !.step = step]]
  /\ UNCHANGED <<row, audit>>

Publish(p, i) ==
  /\ StartItem(p, i, "recordSuccess")
  /\ sends' = [sends EXCEPT ![i] = @ + 1]
  /\ UNCHANGED faults

PublishNotAwaited(p, i) ==   \* a mutant of PublishRejected: rejection lost
  /\ StartItem(p, i, "recordSuccess")
  /\ UNCHANGED <<sends, faults>>

PublishRejected(p, i) ==
  /\ StartItem(p, i, "recordFailure")
  /\ UNCHANGED <<sends, faults>>

(* The transport accepted the message and the caller saw an error. *)
PublishUnacknowledged(p, i) ==
  /\ StartItem(p, i, "recordFailure")
  /\ sends' = [sends EXCEPT ![i] = @ + 1]
  /\ Fault

WithAttemptPerItem(p, success) ==  \* a mutant: attempt id without the time
  LET i == call[p].item
  IN IF audit[i] # {} THEN audit
     ELSE [audit EXCEPT ![i] =
             {[gen |-> call[p].claim[i].gen, success |-> success]}]

(* saveAttempt: the attempt id is made of the outbox id and the call's     *)
(* start, so the two rows of one claim collide and the second is dropped.  *)
WithAttempt(p, success) ==
  LET i == call[p].item
      gen == call[p].claim[i].gen
  IN IF \E a \in audit[i] : a.gen = gen
     THEN audit
     ELSE [audit EXCEPT ![i] = @ \cup {[gen |-> gen, success |-> success]}]

RecordSuccess(p) ==
  /\ Working(p, "recordSuccess")
  /\ audit' = WithAttempt(p, TRUE)
  /\ GoTo(p, "markPublished")
  /\ UNCHANGED <<row, sends, faults>>

RecordSuccessThrows(p) ==
  /\ Working(p, "recordSuccess")
  /\ audit' \in {audit, WithAttempt(p, TRUE)}
  /\ GoTo(p, "recordFailure")
  /\ Fault
  /\ UNCHANGED <<row, sends>>

RecordFailure(p) ==
  /\ Working(p, "recordFailure")
  /\ audit' = WithAttempt(p, FALSE)
  /\ GoTo(p, "markFailure")
  /\ UNCHANGED <<row, sends, faults>>

-----------------------------------------------------------------------------
(* A fenced update also clears the claim. *)
Settled(r, status, attempts, wait) ==
  [status |-> status, attempts |-> attempts, availableIn |-> wait,
   gen |-> r.gen, holder |-> None, expiresIn |-> 0]

Published(i) ==
  [row EXCEPT ![i] = Settled(@, "published", @.attempts, @.availableIn)]

MarkClaimPublished(p) ==
  LET i == call[p].item IN
  /\ Working(p, "markPublished")
  /\ IF Owns(p, i)
     THEN row' = Published(i) /\ NextItem(p)
     ELSE row' = row /\ GoTo(p, "recordFailure")
  /\ UNCHANGED <<audit, sends, faults>>

MarkPublishedThrows(p) ==
  LET i == call[p].item IN
  /\ Working(p, "markPublished")
  /\ row' \in {row} \cup (IF Owns(p, i) THEN {Published(i)} ELSE {})
  /\ GoTo(p, "recordFailure")
  /\ Fault
  /\ UNCHANGED <<audit, sends>>

RetryDelayUnfloored(p, n) == \* a mutant of RetryDelay: a wait below zero
  n * BackoffUnit - call[p].elapsed

(* The backoff counts from the call's start, not from the failure. *)
RetryDelay(p, n) ==
  LET left == n * BackoffUnit - call[p].elapsed IN IF left > 0 THEN left ELSE 0

FailedRowLate(p, i) ==       \* a mutant of FailedRow: > for >=
  LET n == call[p].claim[i].attempts + 1
      count == row[i].attempts + 1
  IN IF n > MaxAttempts
     THEN Settled(row[i], "dead", count, row[i].availableIn)
     ELSE Settled(row[i], "failed", count, RetryDelay(p, n))

(* The threshold is compared with the count read at the claim; the row's   *)
(* own count is what the update increments.                                *)
FailedRow(p, i) ==
  LET n == call[p].claim[i].attempts + 1
      count == row[i].attempts + 1
  IN IF n >= MaxAttempts
     THEN Settled(row[i], "dead", count, row[i].availableIn)
     ELSE Settled(row[i], "failed", count, RetryDelay(p, n))

(* The catch branch ignores what the fenced update returned. *)
MarkClaimFailedOrDead(p) ==
  LET i == call[p].item IN
  /\ Working(p, "markFailure")
  /\ row' = IF Owns(p, i) THEN [row EXCEPT ![i] = FailedRow(p, i)] ELSE row
  /\ NextItem(p)
  /\ UNCHANGED <<audit, sends, faults>>

(* The process dies, or a statement inside the catch throws and the call   *)
(* rejects: the rest of the batch stays claimed until its lease expires.   *)
Abort(p) ==
  /\ ~Working(p, "idle")
  /\ call' = [call EXCEPT ![p] = IdleCall]
  /\ Fault
  /\ UNCHANGED <<row, audit, sends>>

-----------------------------------------------------------------------------
(* A lease runs out under a call that is still working on its batch. *)
Overruns ==
  \E p \in Publishers : \E i \in call[p].todo :
     Owns(p, i) /\ row[i].expiresIn = 1

Earlier(n) == IF n > 0 THEN n - 1 ELSE 0

Tick ==
  /\ row' = [i \in Items |-> [row[i] EXCEPT !.availableIn = Earlier(@),
                                            !.expiresIn = Earlier(@)]]
  /\ call' = [p \in Publishers |->
       IF Working(p, "idle") \/ call[p].elapsed >= MaxElapsed THEN call[p]
       ELSE [call[p] EXCEPT !.elapsed = @ + 1]]
  /\ IF Overruns THEN Fault ELSE UNCHANGED faults
  /\ UNCHANGED <<audit, sends>>

Work(p) ==
  \/ \E i \in Items : Publish(p, i) \/ PublishRejected(p, i)
  \/ RecordSuccess(p)
  \/ RecordFailure(p)
  \/ MarkClaimPublished(p)
  \/ MarkClaimFailedOrDead(p)

Disturb(p) ==
  \/ \E i \in Items : PublishUnacknowledged(p, i)
  \/ RecordSuccessThrows(p)
  \/ MarkPublishedThrows(p)
  \/ Abort(p)

Next ==
  \/ \E i \in Items : Stage(i)
  \/ \E p \in Publishers : ClaimDue(p) \/ Work(p) \/ Disturb(p)
  \/ Tick

Spec == Init /\ [][Next]_vars

(* Each publisher is scheduled again and again, a call that is not         *)
(* disturbed goes on, and time passes.                                     *)
FairSpec ==
  /\ Spec
  /\ WF_vars(Tick)
  /\ \A p \in Publishers : WF_vars(ClaimDue(p)) /\ WF_vars(Work(p))
-----------------------------------------------------------------------------
(* Type correctness of the tables, the counters and every running call.    *)
Row == [status : Statuses, attempts : Nat, gen : Nat,
        holder : Publishers \cup {None}, availableIn : Nat, expiresIn : Nat]
Call == [step : Steps, todo : SUBSET Items, item : Items \cup {None},
         claim : [Items -> [gen : Nat, attempts : Nat]], elapsed : Nat]
Attempt == [gen : Nat, success : BOOLEAN]

TypeOK ==
  /\ row \in [Items -> Row]
  /\ audit \in [Items -> SUBSET Attempt]
  /\ sends \in [Items -> Nat]
  /\ call \in [Publishers -> Call]
  /\ faults \in Nat

(* An item dies exactly when MaxAttempts of its attempts have been counted *)
(* (docs/ingestion-outbox.md, dead policy): the threshold is compared with *)
(* a count read at the claim, which other publishers may have overtaken.   *)
DeadIffExhausted ==
  \A i \in Items :
    /\ row[i].attempts <= MaxAttempts
    /\ row[i].status = "dead" <=> row[i].attempts = MaxAttempts

(* No item is marked published unless the transport took a copy and a      *)
(* success row says so, whichever of several publishers closed it.         *)
PublishedWasSent ==
  \A i \in Items : row[i].status = "published" =>
    sends[i] > 0 /\ \E a \in audit[i] : a.success

(* A counted attempt has its attempt row: the audit table never misses a   *)
(* failure that the retry policy charged to the item.                      *)
CountedAttemptsAudited ==
  \A i \in Items : row[i].attempts <= Cardinality(audit[i])

(* At-least-once, and no worse than the environment makes it: each fault   *)
(* costs at most one more copy of an item, so an item is sent once when    *)
(* nothing crashes, throws or overruns its lease.                          *)
ResendsNeedFaults ==
  \A i \in Items : sends[i] <= 1 + faults

(* The lease protects its batch: as long as a call is younger than its     *)
(* lease, each row it has left to do is its own, or it has published the   *)
(* row itself in a statement whose answer was lost.                        *)
LeaseProtectsBatch ==
  \A p \in Publishers : \A i \in call[p].todo :
    call[p].elapsed < ClaimTTL => Owns(p, i) \/ row[i].status = "published"

(* What is published or dead stays so, however late a publisher that lost  *)
(* its claim comes back.                                                   *)
ClosedIsFinal ==
  [][\A i \in Items : row[i].status \in Closed => row'[i] = row[i]]_vars

(* Every staged item ends up published or dead, through crashes that leave *)
(* it claimed and statements that throw, once the faults stop.             *)
EveryItemSettles ==
  \A i \in Items :
    row[i].status = "pending" ~> row[i].status \in Closed

PhaseOf(status) ==
  CASE status = "absent"                -> "absent"
    [] status \in {"pending", "failed"} -> "waiting"
    [] status = "publishing"            -> "claimed"
    [] status = "published"             -> "delivered"
    [] status = "dead"                  -> "abandoned"

Queue == INSTANCE FencedQueue WITH
  Workers <- Publishers,
  phase <- [i \in Items |-> PhaseOf(row[i].status)],
  owner <- [i \in Items |-> row[i].holder],
  epoch <- [i \in Items |-> row[i].gen],
  sent <- {i \in Items : sends[i] > 0}

(* The table and its publishers keep the promise of a fenced queue: only   *)
(* the latest claim of a row closes or returns it, and only after a send   *)
(* is it closed as published.                                              *)
ImplementsFencedQueue == Queue!Spec
=============================================================================
