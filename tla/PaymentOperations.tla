-------------------------- MODULE PaymentOperations --------------------------
(***************************************************************************)
(* The Stripe path of one user's purchases of a plan: checkout requests,   *)
(* webhook deliveries and an operator's reconciliations, over the rows of  *)
(* payment_operations and the user's row of app_billing_subscriptions, and *)
(* the provider they talk to between transactions.                         *)
(*                                                                         *)
(* A transaction is one step.  What a handler holds from one step to the   *)
(* next -- the version it read, the error it caught, the provider truth it *)
(* retrieved -- is in its worker record and may be stale when used.        *)
(*                                                                         *)
(* An operation is named by its business idempotency key, and so is its    *)
(* provider idempotency key.  The ledger and the entitlement tables hold   *)
(* the same rows, written in the same transactions: one set of effects.    *)
(* reconciliation_state, periods and snapshots are written, never read by  *)
(* these handlers, and are left out.  The truth the provider returns for a *)
(* session always carries the identity of the operation that opened it.    *)
(***************************************************************************)
EXTENDS Naturals, FiniteSets

CONSTANTS
  Keys,        \* business idempotency keys of the user
  Interval,    \* per key, the billing interval it is first used with
  Workers,     \* concurrent requests, deliveries and operator calls
  Bounds,      \* bounds, of which a behaviour has one: the keys used, the
               \* events the provider emits, the faults (lost answers,
               \* provider errors, failed commits, crashes)
  Reverses,    \* kinds of negative events the provider emits
  None

ASSUME BoundsAssumption ==
  \A b \in Bounds : b.keys \subseteq Keys /\ b.events \in Nat /\ b.faults \in Nat

Intervals == {"monthly", "quarterly", "yearly"}
ASSUME IntervalAssumption == Interval \in [Keys -> Intervals]

Unresolved ==
  {"created", "pending_provider", "processing", "unknown",
   "reconciliation_required"}
Paid == {"succeeded", "partially_refunded", "refunded", "reversed", "chargeback"}
Given == {"failed", "expired", "cancelled"}      \* given up
States == Unresolved \cup Paid \cup Given

(* The table of legal transitions, as pairs. *)
allowed ==
  ({"created"} \X ({"pending_provider", "processing", "unknown",
                    "reconciliation_required"} \cup Given))
  \cup ({"pending_provider"} \X ({"processing", "succeeded", "unknown",
                    "reconciliation_required"} \cup Given))
  \cup ({"processing"} \X ({"succeeded", "unknown",
                    "reconciliation_required"} \cup Given))
  \cup ({"unknown"} \X ({"pending_provider", "processing", "succeeded",
                    "reconciliation_required"} \cup Given))
  \cup ({"reconciliation_required"} \X ({"pending_provider", "processing"}
                    \cup Paid \cup Given))
  \cup ({"succeeded"} \X (Paid \ {"succeeded"}))
  \cup ({"partially_refunded"} \X {"refunded", "reversed", "chargeback"})
Absent == "absent"      \* no row yet

(* The state a negative event leads to. *)
Reversal == [kind \in {"refund", "partial_refund", "reversal", "chargeback"} |->
  CASE kind = "refund" -> "refunded"
    [] kind = "partial_refund" -> "partially_refunded"
    [] kind = "reversal" -> "reversed"
    [] kind = "chargeback" -> "chargeback"]
Negative == DOMAIN Reversal
ASSUME ReversesAssumption == Reverses \subseteq Negative
Lifecycle == {"created", "deleted", "renewal_succeeded", "renewal_failed"}

VARIABLES
  op,       \* per key, the row: state, version, whether it has a provider
            \* reference, subscription_state, last_provider_event_created_at
  effects,  \* per key, the effect kinds written
  plan,     \* plan_tier of the user's subscription row, which the first
            \* sign-in inserts (createUserProfile): free or premium
  inbox,    \* events of which a handler committed an inbox row
  worker,   \* what each worker is doing
  provider, \* per key, the checkout session and its subscription
  events,   \* what the provider has to deliver, and when it happened
  acked,    \* events answered with 2xx: the provider forgets them
  faults,
  bound

vars ==
  <<op, effects, plan, inbox, worker, provider, events, acked, faults, bound>>
db == <<op, effects, plan, inbox>>
stripe == <<provider, events>>

Idle == [pc |-> "idle", key |-> None, version |-> 0, err |-> None,
         event |-> None, truth |-> None]

Init ==
  /\ op = [k \in Keys |-> [state |-> Absent, version |-> 0, ref |-> FALSE,
                           sub |-> "none", at |-> 0]]
  /\ effects = [k \in Keys |-> {}]
  /\ plan = "free"
  /\ inbox = {}
  /\ worker = [w \in Workers |-> Idle]
  /\ provider = [k \in Keys |-> [session |-> "none", sub |-> "none"]]
  /\ events = {}
  /\ acked = {}
  /\ faults = 0
  /\ bound \in Bounds

Fault == faults < bound.faults /\ faults' = faults + 1

-----------------------------------------------------------------------------
(* transition *)
CanMove(o, next) == o.state = next \/ <<o.state, next>> \in allowed
Moved(o, next) ==
  IF o.state = next THEN o
  ELSE [o EXCEPT !.state = next, !.version = @ + 1]

(* writeEntitlementOnce: the subscription row changes with the first row of *)
(* its kind only.                                                           *)
PlanAfter(k, kind) ==
  IF kind \in effects[k] THEN plan
  ELSE IF kind = "payment_success" THEN "premium" ELSE "free"

Effect(k, kind) ==
  /\ effects' = [effects EXCEPT ![k] = @ \cup {kind}]
  /\ plan' = PlanAfter(k, kind)

(* A worker goes idle; the delivery it was handling is answered with 2xx, *)
(* or with 503 and stays with the provider.                               *)
Ends(w) == worker' = [worker EXCEPT ![w] = Idle]
Acks(w) ==
  /\ Ends(w)
  /\ acked' = acked \cup ({worker[w].event} \ {None})
Throws(w) == Ends(w) /\ UNCHANGED acked

-----------------------------------------------------------------------------
(* POST /api/billing/checkout *)

(* retrievePaymentOrSession, before the transaction that uses what it      *)
(* returns.  A reference is never taken back, so reading it and asking the  *)
(* provider is one step.                                                    *)
Observes(w, k, e) ==
  worker' = [worker EXCEPT ![w] =
    [Idle EXCEPT !.pc = "apply", !.key = k, !.event = e, !.truth = provider[k]]]

BusyKey(k) == op[k].state \in Unresolved    \* a mutant of Busy: no such index

(* payment_operations_one_unresolved_intention_uidx: the user has an        *)
(* unresolved operation of the key's interval (the plan is always the one). *)
Busy(k) ==
  \E j \in Keys : Interval[j] = Interval[k] /\ op[j].state \in Unresolved

(* createOrReuseOperation, and what the route does with the row it gets:    *)
(* call the provider when unresolved and without a reference, reconcile     *)
(* when unresolved with one, and answer at once otherwise.  A request that  *)
(* uses a key with another interval is refused.                             *)
Checkout(w, k) ==
  /\ worker[w] = Idle
  /\ \/ /\ op[k].state = Absent /\ k \in bound.keys
        /\ ~ Busy(k)
        /\ op' = [op EXCEPT ![k].state = "created", ![k].version = 1]
        /\ worker' = [worker EXCEPT ![w] =
             [Idle EXCEPT !.pc = "call", !.key = k, !.version = 1]]
     \/ /\ op[k].state \in Unresolved
        /\ IF op[k].ref THEN Observes(w, k, None)
           ELSE worker' = [worker EXCEPT ![w] =
                  [Idle EXCEPT !.pc = "call", !.key = k,
                               !.version = op[k].version]]
        /\ UNCHANGED op
  /\ UNCHANGED <<effects, plan, inbox, stripe, acked, faults>>

(* createCheckoutOrPaymentSession: the idempotency key gives every call of  *)
(* an operation the same session.  The answer arrives, is lost or is an     *)
(* error (whatever the provider did), or another call holds the key (409).  *)
SessionOpened(k) ==
  IF provider[k].session = "none" THEN [provider EXCEPT ![k].session = "open"]
  ELSE provider

CallProvider(w) ==
  /\ worker[w].pc = "call"
  /\ LET k == worker[w].key
         Then(pc, err) == worker' = [worker EXCEPT ![w].pc = pc, ![w].err = err]
     IN \/ /\ Then("attach", None)
           /\ provider' = SessionOpened(k)
           /\ UNCHANGED faults
        \/ /\ \E err \in {"busy", "other"} : Then("failing", err)
           /\ provider' \in {provider, SessionOpened(k)}
           /\ Fault
        \/ /\ \E v \in Workers \ {w} :
                worker[v].pc = "call" /\ worker[v].key = k
           /\ Then("failing", "conflict")
           /\ UNCHANGED <<provider, faults>>
  /\ UNCHANGED <<db, events, acked>>

(* recordProviderAccepted and the transition of the row it returns, in one  *)
(* transaction: the version is the row's.  An illegal transition or a       *)
(* failed commit lands in the catch of the provider call.                   *)
Attach(w) ==
  /\ worker[w].pc = "attach"
  /\ LET k == worker[w].key IN
     \/ /\ CanMove(op[k], "processing")
        /\ op' = [op EXCEPT ![k] =
                    [Moved(@, "processing") EXCEPT !.ref = TRUE]]
        /\ worker' = [worker EXCEPT ![w] =
                        [Idle EXCEPT !.pc = "truth", !.key = k]]
        /\ UNCHANGED faults
     \/ /\ worker' = [worker EXCEPT ![w].pc = "failing", ![w].err = "other"]
        /\ IF CanMove(op[k], "processing") THEN Fault ELSE UNCHANGED faults
        /\ UNCHANGED op
  /\ UNCHANGED <<effects, plan, inbox, stripe, acked>>

ConflictIsFailure(err) ==     \* a mutant of StateAfter: 409 is any 4xx
  IF err = "busy" THEN "unknown" ELSE "failed"

(* normalizeProviderError: 409 was accepted by the provider, 429 and 5xx    *)
(* have an unknown outcome, and anything else -- an error without a status  *)
(* too, from the network or the database -- is a failure.                   *)
StateAfter(err) ==
  CASE err = "conflict" -> "reconciliation_required"
    [] err = "busy" -> "unknown"
    [] err = "other" -> "failed"

AnyVersion(w) == TRUE         \* a mutant of SameVersion

(* The catch moves the row it read before the call, if that is still the    *)
(* row; otherwise transition throws and the request ends with 503.          *)
SameVersion(w) == op[worker[w].key].version = worker[w].version

RecordError(w) ==
  /\ worker[w].pc = "failing"
  /\ LET k == worker[w].key
         next == StateAfter(worker[w].err)
     IN IF SameVersion(w) /\ CanMove(op[k], next)
        THEN op' = [op EXCEPT ![k] = Moved(@, next)]
        ELSE UNCHANGED op
  /\ Throws(w)
  /\ UNCHANGED <<effects, plan, inbox, stripe, faults>>

-----------------------------------------------------------------------------
(* The reconciliation a checkout ends with.  When the provider does not     *)
(* answer it is unresolved, and the request returns.                        *)
ReconcileAttached(w) ==
  /\ worker[w].pc = "truth"
  /\ \/ Observes(w, worker[w].key, None) /\ UNCHANGED faults
     \/ Fault /\ Ends(w)
  /\ UNCHANGED <<db, stripe, acked>>

(* POST /api/internal/billing/reconcile *)
OperatorReconcile(w, k) ==
  /\ worker[w] = Idle
  /\ op[k].ref
  /\ Observes(w, k, None)
  /\ UNCHANGED <<db, stripe, acked, faults>>

(* POST /api/billing/webhook: an event of an operation that has no          *)
(* reference is answered with 202 and lost; of any other the provider is    *)
(* asked what is true now.  When it does not answer, the reconciliation of  *)
(* a paid session is answered with 202, the other events with 503.          *)
Deliver(w, e) ==
  /\ worker[w] = Idle
  /\ e \in events \ acked
  /\ \/ /\ op[e.key].ref
        /\ Observes(w, e.key, e)
        /\ UNCHANGED <<acked, faults>>
     \/ /\ ~ op[e.key].ref \/ e.kind = "paid"
        /\ acked' = acked \cup {e}
        /\ IF op[e.key].ref THEN Fault ELSE UNCHANGED faults
        /\ UNCHANGED worker
  /\ UNCHANGED <<db, stripe>>

(* The transaction of a handler that has the truth.  The inbox row makes a  *)
(* second delivery a no-op; an exception rolls everything back.             *)
Fresh(w) == worker[w].event \notin inbox
Recorded(w) == inbox' = inbox \cup ({worker[w].event} \ {None})
Duplicate(w) == ~ Fresh(w) /\ Acks(w) /\ UNCHANGED db
Rollback(w) == Throws(w) /\ UNCHANGED db

(* reconcileStripePaymentOperation *)
Reconciles(w) == worker[w].event # None => worker[w].event.kind = "paid"
MatchesAnyOpened(truth) == truth.session # "none"    \* a mutant of Matches
Matches(truth) == truth.session = "paid" /\ truth.sub = "active"

ApplyReconciliation(w) ==
  /\ Reconciles(w)
  /\ LET k == worker[w].key
         truth == worker[w].truth
     IN \/ Duplicate(w)
        \/ /\ Fresh(w) /\ ~ Matches(truth)
           /\ Recorded(w) /\ Acks(w)
           /\ UNCHANGED <<op, effects, plan>>
        \/ /\ Fresh(w) /\ Matches(truth)
           /\ IF CanMove(op[k], "succeeded")
              THEN /\ op' = [op EXCEPT ![k] =
                        [Moved(@, "succeeded") EXCEPT !.sub = truth.sub]]
                   /\ Effect(k, "payment_success")
                   /\ Recorded(w) /\ Acks(w)
              ELSE Rollback(w)

(* InternalPaymentRuntime.webhook with a negative kind *)
ApplyReversal(w) ==
  /\ worker[w].event # None /\ worker[w].event.kind \in Negative
  /\ LET k == worker[w].key
         kind == worker[w].event.kind
     IN \/ Duplicate(w)
        \/ /\ Fresh(w)
           /\ IF CanMove(op[k], Reversal[kind])
              THEN /\ op' = [op EXCEPT ![k] = Moved(@, Reversal[kind])]
                   /\ Effect(k, kind)
                   /\ Recorded(w) /\ Acks(w)
              ELSE Rollback(w)

(* applyCanonicalSubscriptionLifecycleEvent: the state of access an event   *)
(* stands for, and whether it is newer than what the row has.               *)
AccessState(kind, truth) ==
  CASE kind = "deleted" -> "canceled"
    [] kind = "renewal_failed" -> "past_due"
    [] kind = "renewal_succeeded" -> "active"
    [] kind = "created" -> truth.sub

InArrivalOrder(o, e, state) ==    \* a mutant of InOrder: no timestamps
  o.sub # "canceled" \/ e.kind = "deleted"

InOrder(o, e, state) ==
  /\ e.at > o.at \/ (e.at = o.at /\ state = o.sub)
  /\ o.sub # "canceled" \/ e.kind = "deleted"

ApplyLifecycle(w) ==
  /\ worker[w].event # None /\ worker[w].event.kind \in Lifecycle
  /\ LET k == worker[w].key
         e == worker[w].event
         state == AccessState(e.kind, worker[w].truth)
     IN \/ Duplicate(w)
        \/ /\ Fresh(w)
           /\ IF InOrder(op[k], e, state)
              THEN /\ op' = [op EXCEPT ![k].sub = state, ![k].at = e.at,
                                       ![k].version = @ + 1]
                   /\ plan' = IF state = "active" THEN "premium" ELSE "free"
              ELSE UNCHANGED <<op, plan>>
           /\ Recorded(w) /\ Acks(w)
           /\ UNCHANGED effects

Apply(w) ==
  /\ worker[w].pc = "apply"
  /\ ApplyReconciliation(w) \/ ApplyReversal(w) \/ ApplyLifecycle(w)
  /\ UNCHANGED <<stripe, faults>>

(* The process dies between two steps, or a transaction fails to commit. *)
Crash(w) ==
  /\ worker[w] # Idle
  /\ Fault
  /\ Throws(w)
  /\ UNCHANGED <<db, stripe>>

-----------------------------------------------------------------------------
(* The provider.  Timestamps have a second's resolution: an event may carry *)
(* the time of the one before (but for the same key and kind).              *)
Times == {t \in 1 .. bound.events :
            /\ \A e \in events : e.at <= t
            /\ t = 1 \/ \E e \in events : t <= e.at + 1}

Emits(k, kinds) ==
  /\ Cardinality(events) + Cardinality(kinds) <= bound.events
  /\ \E t \in Times :
       LET new == {[key |-> k, kind |-> kind, at |-> t] : kind \in kinds}
       IN new \cap events = {} /\ events' = events \cup new
  /\ UNCHANGED <<db, worker, acked, faults>>

ProviderPaid(k) ==
  /\ provider[k].session = "open"
  /\ provider' = [provider EXCEPT ![k] = [session |-> "paid", sub |-> "active"]]
  /\ Emits(k, {"created", "paid"})

SubscriptionMoves(k, from, to, kind) ==
  /\ provider[k].sub \in from
  /\ provider' = [provider EXCEPT ![k].sub = to]
  /\ Emits(k, {kind})

RenewalFails(k) == SubscriptionMoves(k, {"active"}, "past_due", "renewal_failed")
RenewalPaid(k) ==
  SubscriptionMoves(k, {"active", "past_due"}, "active", "renewal_succeeded")
SubscriptionEnds(k) ==
  SubscriptionMoves(k, {"active", "past_due"}, "canceled", "deleted")

ProviderReverses(k, kind) ==
  /\ provider[k].session = "paid"
  /\ UNCHANGED provider
  /\ Emits(k, {kind})

-----------------------------------------------------------------------------
Step(w) ==
  CallProvider(w) \/ Attach(w) \/ RecordError(w)
  \/ ReconcileAttached(w) \/ Apply(w)

Acts ==
  \/ \E w \in Workers :
       \/ Step(w) \/ Crash(w)
       \/ \E k \in Keys : Checkout(w, k) \/ OperatorReconcile(w, k)
       \/ \E e \in events : Deliver(w, e)
  \/ \E k \in Keys :
       \/ ProviderPaid(k) \/ RenewalFails(k) \/ RenewalPaid(k)
       \/ SubscriptionEnds(k)
       \/ \E kind \in Reverses : ProviderReverses(k, kind)

Next == Acts /\ UNCHANGED bound

Spec == Init /\ [][Next]_vars

(* A handler goes on, and the provider comes again with a payment's event  *)
(* that was not answered with 2xx.  Nobody is bound to reconcile.          *)
PaidEvents(k) == {e \in events : e.key = k /\ e.kind = "paid"}

Fairness ==
  /\ \A w \in Workers : WF_vars(Step(w) /\ UNCHANGED bound)
  /\ \A k \in Keys :
       SF_vars(/\ \E w \in Workers, e \in PaidEvents(k) : Deliver(w, e)
               /\ UNCHANGED bound)

FairSpec == Spec /\ Fairness

-----------------------------------------------------------------------------
Access == {"none", "active", "past_due", "canceled"}
EventType ==
  [key : Keys, kind : {"paid"} \cup Lifecycle \cup Negative, at : Nat]
TruthType == [session : {"none", "open", "paid"}, sub : Access]

(* The rows and the workers have the shapes the handlers rely on. *)
TypeOK ==
  /\ op \in [Keys -> [state : States \cup {Absent}, version : Nat,
                      ref : BOOLEAN, sub : Access, at : Nat]]
  /\ effects \in [Keys -> SUBSET ({"payment_success"} \cup Negative)]
  /\ plan \in {"free", "premium"}
  /\ events \subseteq EventType /\ inbox \subseteq events /\ acked \subseteq events
  /\ worker \in
       [Workers -> [pc : {"idle", "call", "attach", "failing", "truth", "apply"},
                    key : Keys \cup {None}, version : Nat,
                    err : {None, "busy", "conflict", "other"},
                    event : events \cup {None},
                    truth : TruthType \cup {None}]]
  /\ provider \in [Keys -> TruthType]
  /\ faults \in 0 .. bound.faults
  /\ bound \in Bounds

(* Premium access is backed by a purchase, with or without its success in  *)
(* the ledger: whichever handler wrote the user's one subscription row     *)
(* last, some operation that the provider has charged for is recorded with *)
(* an active subscription.                                                 *)
PremiumWasCharged ==
  plan = "premium" =>
    \E k \in Keys : op[k].sub = "active" /\ provider[k].session = "paid"

(* An operation is given up, while the provider has a session for it that   *)
(* the user may pay, only after an answer was lost: concurrent requests for *)
(* the same operation do not do that to each other.                         *)
AbandonedNeedsFault ==
  Cardinality({k \in Keys : /\ op[k].state = "failed"
                            /\ provider[k].session # "none"}) <= faults

(* The time of the newest event applied never goes back, and a cancellation *)
(* is undone by nothing but a reconciliation whose truth was retrieved      *)
(* before the provider cancelled.                                           *)
SubscriptionNeverRewinds ==
  [][\A k \in Keys :
       /\ op'[k].at >= op[k].at
       /\ op[k].sub = "canceled" /\ op'[k].sub # "canceled" =>
            \E w \in Workers :
              /\ worker[w].pc = "apply" /\ Reconciles(w) /\ worker[w].key = k
              /\ worker[w].truth.sub = "active" /\ provider[k].sub = "canceled"
    ]_vars

StatusOf(o) ==
  CASE o.state = Absent -> "absent"
    [] o.state \in Unresolved -> "open"
    [] o.state = "succeeded" -> "paid"
    [] o.state = "partially_refunded" -> "partly"
    [] o.state \in {"refunded", "reversed", "chargeback"} -> "reversed"
    [] o.state \in Given -> "closed"

Intent == INSTANCE PaymentIntent WITH
  Reversals <- Negative, status <- [k \in Keys |-> StatusOf(op[k])]

(* The operations of the user behave as PaymentIntent promises: one open at *)
(* a time of each interval, paid or closed once, reversed only if paid,     *)
(* effects to match.                                                        *)
ImplementsPaymentIntent == Intent!Spec

(* A payment whose event comes, or comes again, when its operation knows   *)
(* the session is recorded; unless the provider, asked when it comes, says *)
(* that its subscription is not active, or the event was acknowledged      *)
(* without an inbox row, which is what the webhook does when the provider  *)
(* does not answer.                                                        *)
PaidIsRecorded ==
  \A k \in Keys :
    op[k].ref /\ PaidEvents(k) \ acked # {}
      ~> \/ op[k].state \in Paid
         \/ \E w \in Workers : /\ worker[w].event \in PaidEvents(k)
                               /\ worker[w].truth.sub # "active"
         \/ PaidEvents(k) \cap (acked \ inbox) # {}
=============================================================================
