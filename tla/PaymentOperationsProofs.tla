----------------------- MODULE PaymentOperationsProofs -----------------------
(***************************************************************************)
(* Theorems about PaymentOperations for every set of keys, handlers and    *)
(* bounds: the operations of a user refine PaymentIntent.                  *)
(***************************************************************************)
EXTENDS PaymentOperations, TLAPS, FiniteSetTheorems

-----------------------------------------------------------------------------
(* The inductive invariant, in named parts.                                *)

(* A row has a reference in these states and in no other: an error that is *)
(* recorded after the reference came would break it.                       *)
Referenced == {"processing"} \cup Paid
References == \A k \in Keys : op[k].ref <=> op[k].state \in Referenced

(* The effects of an operation follow from its state. *)
EffectsFollow ==
  \A k \in Keys :
    /\ op[k].state \notin Paid => effects[k] = {}
    /\ op[k].state = "succeeded" => effects[k] = {"payment_success"}
    /\ \A kind \in Negative :
         op[k].state = Reversal[kind] => {"payment_success", kind} \subseteq effects[k]
    /\ op[k].state \in Paid => "payment_success" \in effects[k]

OneOpen ==
  \A j, k \in Keys :
    /\ Interval[j] = Interval[k]
    /\ op[j].state \in Unresolved /\ op[k].state \in Unresolved
    => j = k

(* A request that is at the provider holds a version of a row that had no  *)
(* reference then; a handler that has the truth works on one that has.     *)
Calling == {"call", "attach", "failing"}
RequestIn(rows, d) ==
  /\ d.pc # "idle" => d.key \in Keys /\ rows[d.key].state \in States
  /\ d.pc \in Calling =>
       /\ d.version <= rows[d.key].version
       /\ d.version = rows[d.key].version => ~ rows[d.key].ref
  /\ d.pc = "failing" => d.err \in {"busy", "conflict", "other"}
  /\ d.pc \in {"truth", "apply"} => rows[d.key].ref
RequestOK(d) == RequestIn(op, d)
Requests == \A w \in Workers : RequestOK(worker[w])

(* The truth may be old, but what is final in it is so at the provider. *)
TruthIn(sessions, sent, d) ==
  d.pc = "apply" =>
    /\ d.truth \in TruthType
    /\ d.truth.session = "paid" => sessions[d.key].session = "paid"
    /\ d.truth.sub = "canceled" => sessions[d.key].sub = "canceled"
    /\ d.event # None => d.event \in sent /\ d.event.key = d.key
TruthOK(d) == TruthIn(provider, events, d)
Truths == \A w \in Workers : TruthOK(worker[w])

(* What the rows say happened at the provider. *)
Recordings ==
  /\ \A k \in Keys :
       /\ provider[k].sub # "none" => provider[k].session = "paid"
       /\ op[k].sub = "canceled" => provider[k].sub = "canceled"
       /\ op[k].sub = "active" => provider[k].session = "paid"
       /\ "payment_success" \in effects[k] => provider[k].session = "paid"
  /\ \A e \in events :
       /\ provider[e.key].session = "paid"
       /\ e.kind = "deleted" => provider[e.key].sub = "canceled"
  /\ plan = "premium" => \E k \in Keys : op[k].sub = "active"

IndInv ==
  /\ TypeOK /\ References /\ EffectsFollow /\ OneOpen
  /\ Requests /\ Truths /\ Recordings

-----------------------------------------------------------------------------
(* What the table of transitions says of the moves the handlers ask for.   *)
LEMMA IntoProcessing ==
  ASSUME NEW o, o.state \in States, CanMove(o, "processing")
  PROVE  o.state \in Unresolved
  BY DEF CanMove, allowed, States, Unresolved, Paid, Given

LEMMA IntoSucceeded ==
  ASSUME NEW o, o.state \in States, CanMove(o, "succeeded")
  PROVE  o.state \in Unresolved \/ o.state = "succeeded"
  BY DEF CanMove, allowed, States, Unresolved, Paid, Given

LEMMA IntoError ==
  ASSUME NEW o, o.state \in States,
         NEW next \in {"failed", "unknown", "reconciliation_required"},
         CanMove(o, next)
  PROVE  o.state \in Unresolved \/ (o.state = "failed" /\ next = "failed")
  BY DEF CanMove, allowed, States, Unresolved, Paid, Given

LEMMA ReversalIs ==
  /\ Negative = {"refund", "partial_refund", "reversal", "chargeback"}
  /\ Reversal["refund"] = "refunded"
  /\ Reversal["partial_refund"] = "partially_refunded"
  /\ Reversal["reversal"] = "reversed"
  /\ Reversal["chargeback"] = "chargeback"
  BY DEF Negative, Reversal

LEMMA IntoReversal ==
  ASSUME NEW o, o.state \in Referenced, NEW kind \in Negative,
         CanMove(o, Reversal[kind])
  PROVE  \/ o.state = "succeeded"
         \/ o.state = "partially_refunded" /\ kind # "partial_refund"
         \/ o.state = Reversal[kind]
  BY ReversalIs DEF CanMove, allowed, Referenced, Paid, Given

-----------------------------------------------------------------------------
(* Types. *)
Row == [state : States \cup {Absent}, version : Nat, ref : BOOLEAN,
        sub : Access, at : Nat]
PCs == {"idle", "call", "attach", "failing", "truth", "apply"}
Doing == [pc : PCs, key : Keys \cup {None}, version : Nat,
          err : {None, "busy", "conflict", "other"},
          event : events \cup {None}, truth : TruthType \cup {None}]

LEMMA IdleType == Idle \in Doing
  BY DEF Idle, Doing, PCs

LEMMA EffectType ==
  ASSUME TypeOK, NEW k \in Keys, NEW kind \in {"payment_success"} \cup Negative,
         Effect(k, kind)
  PROVE  /\ effects' \in [Keys -> SUBSET ({"payment_success"} \cup Negative)]
         /\ plan' \in {"free", "premium"}
  BY DEF TypeOK, Effect, PlanAfter

LEMMA MovedType ==
  ASSUME NEW o \in Row, NEW next \in States
  PROVE  /\ Moved(o, next) \in Row
         /\ Moved(o, next).state = next
         /\ Moved(o, next).ref = o.ref
         /\ Moved(o, next).sub = o.sub
         /\ Moved(o, next).at = o.at
         /\ Moved(o, next).version =
              IF o.state = next THEN o.version ELSE o.version + 1
<1>1. CASE o.state = next  BY <1>1 DEF Moved
<1>2. CASE o.state # next
  <2>1. o = [state |-> o.state, version |-> o.version, ref |-> o.ref,
             sub |-> o.sub, at |-> o.at]
    BY DEF Row
  <2>2. Moved(o, next) = [o EXCEPT !.state = next, !.version = o.version + 1]
    BY <1>2 DEF Moved
  <2>3. Moved(o, next) = [state |-> next, version |-> o.version + 1,
                          ref |-> o.ref, sub |-> o.sub, at |-> o.at]
    BY <2>1, <2>2
  <2>4. o.version \in Nat /\ o.ref \in BOOLEAN /\ o.sub \in Access
          /\ o.at \in Nat
    BY DEF Row
  <2> QED  BY <1>2, <2>3, <2>4 DEF Row
<1> QED  BY <1>1, <1>2

(* What a worker may do with its own record, and nothing else of the types. *)
LEMMA WorkerType ==
  ASSUME TypeOK, NEW w \in Workers, NEW d \in Doing,
         worker' = [worker EXCEPT ![w] = d], events' = events
  PROVE  worker' \in [Workers -> Doing']
  BY DEF TypeOK, Doing, PCs, TruthType, Access

LEMMA TypeIs ==
  TypeOK <=>
    /\ op \in [Keys -> Row]
    /\ effects \in [Keys -> SUBSET ({"payment_success"} \cup Negative)]
    /\ plan \in {"free", "premium"}
    /\ events \subseteq EventType /\ inbox \subseteq events
    /\ acked \subseteq events
    /\ worker \in [Workers -> Doing]
    /\ provider \in [Keys -> TruthType]
    /\ faults \in 0 .. bound.faults
    /\ bound \in Bounds
  BY DEF TypeOK, Row, Doing, PCs

LEMMA FaultType ==
  ASSUME TypeOK, Fault, bound' = bound
  PROVE  faults' \in 0 .. bound'.faults
<1>1. bound.faults \in Nat  BY BoundsAssumption DEF TypeOK
<1> QED  BY <1>1 DEF TypeOK, Fault

LEMMA AcksType ==
  ASSUME TypeOK, NEW w \in Workers, Acks(w) \/ Throws(w), events' = events
  PROVE  /\ worker' \in [Workers -> Doing']
         /\ acked' \subseteq events'
<1>1. worker' \in [Workers -> Doing']
  BY IdleType, WorkerType DEF Acks, Throws, Ends
<1>2. worker[w].event \in events \cup {None}  BY TypeIs DEF Doing
<1> QED  BY <1>1, <1>2 DEF Acks, Throws, TypeOK

LEMMA ObservesType ==
  ASSUME TypeOK, NEW w \in Workers, NEW k \in Keys,
         NEW e \in events \cup {None}, Observes(w, k, e), events' = events
  PROVE  worker' \in [Workers -> Doing']
<1>1. [Idle EXCEPT !.pc = "apply", !.key = k, !.event = e, !.truth = provider[k]]
        \in Doing
  BY IdleType DEF TypeOK, Doing, PCs
<1> QED  BY <1>1, WorkerType DEF Observes

(* The types after a step, in the names above. *)
TypeNext ==
  /\ op' \in [Keys -> Row]
  /\ effects' \in [Keys -> SUBSET ({"payment_success"} \cup Negative)]
  /\ plan' \in {"free", "premium"}
  /\ events' \subseteq EventType /\ inbox' \subseteq events'
  /\ acked' \subseteq events'
  /\ worker' \in [Workers -> Doing']
  /\ provider' \in [Keys -> TruthType]
  /\ faults' \in 0 .. bound'.faults
  /\ bound' \in Bounds

LEMMA TypeNextIs == TypeNext <=> TypeOK'
  BY DEF TypeNext, TypeOK, Row, Doing, PCs

LEMMA CheckoutType ==
  ASSUME TypeOK, NEW w \in Workers, NEW k \in Keys, Checkout(w, k),
         bound' = bound
  PROVE  TypeOK'
<1> USE TypeIs DEF stripe
<1>1. op[k] \in Row /\ events' = events  BY DEF Checkout
<1>2. CASE op[k].state = Absent
  <2>1. [op[k] EXCEPT !.state = "created", !.version = 1] \in Row
    BY <1>1 DEF Row, States, Unresolved
  <2>2. op' \in [Keys -> Row]
    <3>1. \/ op' = op
          \/ op' = [op EXCEPT ![k] = [op[k] EXCEPT !.state = "created",
                                                   !.version = 1]]
      BY <1>2 DEF Checkout
    <3> QED  BY <2>1, <3>1
  <2>3. [Idle EXCEPT !.pc = "call", !.key = k, !.version = 1] \in Doing
    BY IdleType DEF Doing, PCs
  <2>4. worker' \in [Workers -> Doing']
    <3>1. worker' = [worker EXCEPT ![w] =
                       [Idle EXCEPT !.pc = "call", !.key = k, !.version = 1]]
      BY <1>2 DEF Checkout, Absent, Unresolved
    <3> QED  BY <2>3, <3>1, <1>1, WorkerType
  <2> QED  BY <2>2, <2>4, TypeNextIs DEF TypeNext, Checkout
<1>3. CASE op[k].state # Absent
  <2>1. op' = op  BY <1>3 DEF Checkout
  <2>2. [Idle EXCEPT !.pc = "call", !.key = k, !.version = op[k].version]
          \in Doing
    BY <1>1, IdleType DEF Doing, PCs, Row
  <2>3. worker' \in [Workers -> Doing']
    <3>1. \/ Observes(w, k, None)
          \/ worker' = [worker EXCEPT ![w] =
               [Idle EXCEPT !.pc = "call", !.key = k, !.version = op[k].version]]
      BY <1>3 DEF Checkout
    <3> QED  BY <2>2, <3>1, <1>1, WorkerType, ObservesType
  <2> QED  BY <2>1, <2>3, TypeNextIs DEF TypeNext, Checkout
<1> QED  BY <1>2, <1>3

LEMMA SessionOpenedType ==
  ASSUME TypeOK, NEW k \in Keys
  PROVE  SessionOpened(k) \in [Keys -> TruthType]
<1>1. provider[k] \in TruthType  BY DEF TypeOK
<1>2. [provider[k] EXCEPT !.session = "open"] \in TruthType
  BY <1>1 DEF TruthType
<1> QED  BY <1>2 DEF SessionOpened, TypeOK

LEMMA CallProviderType ==
  ASSUME TypeOK, NEW w \in Workers, worker[w].key \in Keys, CallProvider(w),
         bound' = bound
  PROVE  TypeOK'
<1> USE TypeIs DEF db, vars
<1> DEFINE k == worker[w].key
<1>1. worker[w] \in Doing /\ events' = events  BY DEF CallProvider
<1>2. SessionOpened(k) \in [Keys -> TruthType]  BY SessionOpenedType
<1>3. provider' \in [Keys -> TruthType]  BY <1>2 DEF CallProvider
<1>4. worker' \in [Workers -> Doing']
  <2>1. PICK pc \in {"attach", "failing"}, err \in {None, "busy", "other", "conflict"} :
          worker' = [worker EXCEPT ![w] = [worker[w] EXCEPT !.pc = pc, !.err = err]]
    BY DEF CallProvider
  <2>2. [worker[w] EXCEPT !.pc = pc, !.err = err] \in Doing
    BY <1>1 DEF Doing, PCs
  <2> QED  BY <2>1, <2>2, <1>1, WorkerType
<1>5. faults' \in 0 .. bound'.faults  BY FaultType DEF CallProvider
<1> QED  BY <1>1, <1>3, <1>4, <1>5, TypeNextIs DEF TypeNext, CallProvider

LEMMA AttachType ==
  ASSUME TypeOK, NEW w \in Workers, worker[w].key \in Keys, Attach(w),
         bound' = bound
  PROVE  TypeOK'
<1> USE TypeIs DEF stripe
<1> DEFINE k == worker[w].key
<1>1. worker[w] \in Doing /\ op[k] \in Row /\ events' = events  BY DEF Attach
<1>2. op' \in [Keys -> Row]
  <2>1. Moved(op[k], "processing") \in Row
    BY <1>1, MovedType DEF States, Unresolved
  <2>2. [Moved(op[k], "processing") EXCEPT !.ref = TRUE] \in Row
    BY <2>1 DEF Row
  <2>3. \/ op' = op
        \/ op' = [op EXCEPT ![k] = [Moved(op[k], "processing") EXCEPT !.ref = TRUE]]
    BY DEF Attach
  <2> QED  BY <2>2, <2>3
<1>3. worker' \in [Workers -> Doing']
  <2>1. [Idle EXCEPT !.pc = "truth", !.key = k] \in Doing
    BY <1>1, IdleType DEF Doing, PCs
  <2>2. [worker[w] EXCEPT !.pc = "failing", !.err = "other"] \in Doing
    BY <1>1 DEF Doing, PCs
  <2>3. \/ worker' = [worker EXCEPT ![w] = [Idle EXCEPT !.pc = "truth", !.key = k]]
        \/ worker' = [worker EXCEPT ![w] =
                        [worker[w] EXCEPT !.pc = "failing", !.err = "other"]]
    BY DEF Attach
  <2> QED  BY <2>1, <2>2, <2>3, <1>1, WorkerType
<1>4. faults' \in 0 .. bound'.faults  BY FaultType DEF Attach
<1> QED  BY <1>1, <1>2, <1>3, <1>4, TypeNextIs DEF TypeNext, Attach

LEMMA RecordErrorType ==
  ASSUME TypeOK, NEW w \in Workers, worker[w].key \in Keys, RecordError(w),
         worker[w].err \in {"busy", "conflict", "other"}, bound' = bound
  PROVE  TypeOK'
<1> USE TypeIs DEF stripe
<1> DEFINE k == worker[w].key
           next == StateAfter(worker[w].err)
<1>1. next \in States  BY DEF StateAfter, States, Unresolved, Given
<1>2. op' \in [Keys -> Row]
  <2>1. Moved(op[k], next) \in Row  BY <1>1, MovedType
  <2>2. op' = op \/ op' = [op EXCEPT ![k] = Moved(op[k], next)]
    BY DEF RecordError
  <2> QED  BY <2>1, <2>2
<1>3. events' = events /\ Throws(w)  BY DEF RecordError
<1> QED  BY <1>2, <1>3, AcksType, TypeNextIs DEF TypeNext, RecordError

LEMMA ReconcileAttachedType ==
  ASSUME TypeOK, NEW w \in Workers, worker[w].key \in Keys,
         ReconcileAttached(w), bound' = bound
  PROVE  TypeOK'
<1> USE TypeIs DEF stripe, db
<1>1. events' = events /\ acked' = acked  BY DEF ReconcileAttached
<1>2. worker' \in [Workers -> Doing']
  BY <1>1, ObservesType, AcksType DEF ReconcileAttached, Throws
<1>3. faults' \in 0 .. bound'.faults  BY FaultType DEF ReconcileAttached
<1> QED  BY <1>1, <1>2, <1>3, TypeNextIs DEF TypeNext, ReconcileAttached

LEMMA OperatorReconcileType ==
  ASSUME TypeOK, NEW w \in Workers, NEW k \in Keys, OperatorReconcile(w, k),
         bound' = bound
  PROVE  TypeOK'
<1> USE TypeIs DEF stripe, db
<1>1. events' = events  BY DEF OperatorReconcile
<1>2. worker' \in [Workers -> Doing']
  BY <1>1, ObservesType DEF OperatorReconcile
<1> QED  BY <1>1, <1>2, TypeNextIs DEF TypeNext, OperatorReconcile

LEMMA DeliverType ==
  ASSUME TypeOK, NEW w \in Workers, NEW e \in events, Deliver(w, e),
         bound' = bound
  PROVE  TypeOK'
<1> USE TypeIs DEF stripe, db
<1>1. events' = events /\ e.key \in Keys  BY DEF Deliver, EventType
<1>2. worker' \in [Workers -> Doing']
  <2>1. Observes(w, e.key, e) \/ worker' = worker  BY DEF Deliver
  <2>2. CASE worker' = worker  BY <2>2, <1>1 DEF Doing
  <2> QED  BY <1>1, <2>1, <2>2, ObservesType
<1>3. faults' \in 0 .. bound'.faults
  <2>1. Fault \/ faults' = faults  BY DEF Deliver
  <2> QED  BY <2>1, FaultType
<1>4. acked' \subseteq events'  BY <1>1 DEF Deliver
<1> QED  BY <1>1, <1>2, <1>3, <1>4, TypeNextIs DEF TypeNext, Deliver

(* What every way to end a delivery leaves well typed. *)
LEMMA EndsType ==
  ASSUME TypeOK, NEW w \in Workers,
         \/ Duplicate(w) \/ Rollback(w)
         \/ Recorded(w) /\ Acks(w),
         events' = events
  PROVE  /\ worker' \in [Workers -> Doing']
         /\ acked' \subseteq events' /\ inbox' \subseteq events'
<1>1. Acks(w) \/ Throws(w)  BY DEF Duplicate, Rollback
<1>2. worker[w].event \in events \cup {None}  BY TypeIs DEF Doing
<1>3. inbox' \subseteq events'
  BY <1>2 DEF Duplicate, Rollback, Recorded, TypeOK, db
<1> QED  BY <1>1, <1>3, AcksType

LEMMA ApplyReconciliationType ==
  ASSUME TypeOK, NEW w \in Workers, worker[w].key \in Keys,
         worker[w].truth \in TruthType,
         ApplyReconciliation(w), UNCHANGED <<stripe, faults>>, bound' = bound
  PROVE  TypeOK'
<1> USE TypeIs DEF stripe
<1> DEFINE k == worker[w].key
           truth == worker[w].truth
<1>1. /\ events' = events
      /\ \/ Duplicate(w) \/ Rollback(w)
         \/ Recorded(w) /\ Acks(w)
  BY DEF ApplyReconciliation
<1>2. /\ worker' \in [Workers -> Doing']
      /\ acked' \subseteq events' /\ inbox' \subseteq events'
  BY <1>1, EndsType
<1>3. \/ /\ op' = [op EXCEPT ![k] =
                    [Moved(op[k], "succeeded") EXCEPT !.sub = truth.sub]]
         /\ Effect(k, "payment_success")
      \/ op' = op /\ effects' = effects /\ plan' = plan
  BY DEF ApplyReconciliation, Duplicate, Rollback, db
<1>4. op' \in [Keys -> Row]
  <2>1. Moved(op[k], "succeeded") \in Row  BY MovedType DEF States, Paid
  <2>2. [Moved(op[k], "succeeded") EXCEPT !.sub = truth.sub] \in Row
    BY <2>1 DEF Row, TruthType
  <2> QED  BY <1>3, <2>2
<1>5. /\ effects' \in [Keys -> SUBSET ({"payment_success"} \cup Negative)]
      /\ plan' \in {"free", "premium"}
  BY <1>3, EffectType
<1> QED  BY <1>1, <1>2, <1>4, <1>5, TypeNextIs DEF TypeNext

LEMMA ReversalType == \A kind \in Negative : Reversal[kind] \in Paid
  BY ReversalIs DEF Paid

LEMMA ApplyReversalType ==
  ASSUME TypeOK, NEW w \in Workers, worker[w].key \in Keys,
         ApplyReversal(w), UNCHANGED <<stripe, faults>>, bound' = bound
  PROVE  TypeOK'
<1> USE TypeIs DEF stripe
<1> DEFINE k == worker[w].key
           kind == worker[w].event.kind
<1>1. /\ events' = events
      /\ \/ Duplicate(w) \/ Rollback(w)
         \/ Recorded(w) /\ Acks(w)
  BY DEF ApplyReversal
<1>2. /\ worker' \in [Workers -> Doing']
      /\ acked' \subseteq events' /\ inbox' \subseteq events'
  BY <1>1, EndsType
<1>3. /\ kind \in Negative
      /\ \/ op' = [op EXCEPT ![k] = Moved(op[k], Reversal[kind])]
            /\ Effect(k, kind)
         \/ op' = op /\ effects' = effects /\ plan' = plan
  BY DEF ApplyReversal, Duplicate, Rollback, db
<1>4. op' \in [Keys -> Row]
  <2>1. Moved(op[k], Reversal[kind]) \in Row
    BY <1>3, ReversalType, MovedType DEF States
  <2> QED  BY <1>3, <2>1
<1>5. /\ effects' \in [Keys -> SUBSET ({"payment_success"} \cup Negative)]
      /\ plan' \in {"free", "premium"}
  BY <1>3, EffectType
<1> QED  BY <1>1, <1>2, <1>4, <1>5, TypeNextIs DEF TypeNext

LEMMA LifecycleRow ==
  ASSUME NEW o \in Row, NEW state \in Access, NEW at \in Nat
  PROVE  [o EXCEPT !.sub = state, !.at = at, !.version = o.version + 1] \in Row
<1>1. [o EXCEPT !.sub = state] \in Row  BY DEF Row
<1>2. ASSUME NEW a \in Row  PROVE [a EXCEPT !.at = at] \in Row
  BY DEF Row
<1>3. ASSUME NEW a \in Row, NEW n \in Nat  PROVE [a EXCEPT !.version = n] \in Row
  BY DEF Row
<1>4. o.version + 1 \in Nat  BY DEF Row
<1>5. [[o EXCEPT !.sub = state] EXCEPT !.at = at] \in Row  BY <1>1, <1>2
<1>6. [[[o EXCEPT !.sub = state] EXCEPT !.at = at]
         EXCEPT !.version = o.version + 1] \in Row
  BY <1>3, <1>4, <1>5
<1> QED  BY <1>6

LEMMA ApplyLifecycleType ==
  ASSUME TypeOK, NEW w \in Workers, worker[w].key \in Keys,
         worker[w].truth \in TruthType, worker[w].event \in events,
         ApplyLifecycle(w), UNCHANGED <<stripe, faults>>, bound' = bound
  PROVE  TypeOK'
<1> USE TypeIs DEF stripe
<1> DEFINE k == worker[w].key
           e == worker[w].event
           state == AccessState(e.kind, worker[w].truth)
<1>1. /\ events' = events
      /\ \/ Duplicate(w) \/ Rollback(w)
         \/ Recorded(w) /\ Acks(w)
  BY DEF ApplyLifecycle
<1>2. /\ worker' \in [Workers -> Doing']
      /\ acked' \subseteq events' /\ inbox' \subseteq events'
  BY <1>1, EndsType
<1>3. \/ /\ op' = [op EXCEPT ![k] = [op[k] EXCEPT !.sub = state, !.at = e.at,
                                                  !.version = op[k].version + 1]]
         /\ plan' = IF state = "active" THEN "premium" ELSE "free"
         /\ effects' = effects
      \/ op' = op /\ effects' = effects /\ plan' = plan
  BY DEF ApplyLifecycle, Duplicate, db
<1>4. op' \in [Keys -> Row]
  <2>1. state \in Access
    BY DEF ApplyLifecycle, AccessState, Access, TruthType, Lifecycle
  <2>2. e.at \in Nat  BY DEF EventType
  <2>3. [op[k] EXCEPT !.sub = state, !.at = e.at,
                      !.version = op[k].version + 1] \in Row
    BY <2>1, <2>2, LifecycleRow
  <2> QED  BY <1>3, <2>3
<1>5. plan' \in {"free", "premium"}  BY <1>3
<1> QED  BY <1>1, <1>2, <1>3, <1>4, <1>5, TypeNextIs DEF TypeNext

LEMMA CrashType ==
  ASSUME TypeOK, NEW w \in Workers, Crash(w), bound' = bound
  PROVE  TypeOK'
<1> USE TypeIs DEF stripe, db
<1>1. events' = events /\ Throws(w) /\ Fault  BY DEF Crash
<1> QED  BY <1>1, AcksType, FaultType, TypeNextIs DEF TypeNext, Crash

LEMMA EmitsType ==
  ASSUME TypeOK, NEW k \in Keys,
         NEW kinds \in SUBSET ({"paid"} \cup Lifecycle \cup Negative),
         Emits(k, kinds), provider' \in [Keys -> TruthType], bound' = bound
  PROVE  TypeOK'
<1> USE TypeIs DEF db
<1>1. PICK t \in Times :
        events' = events \cup {[key |-> k, kind |-> kind, at |-> t] : kind \in kinds}
  BY DEF Emits
<1>2. t \in Nat  BY <1>1 DEF Times
<1>3. events' \subseteq EventType
  <2>1. \A kind \in kinds : [key |-> k, kind |-> kind, at |-> t] \in EventType
    BY <1>2 DEF EventType
  <2> QED  BY <1>1, <2>1
<1>4. events \subseteq events'  BY <1>1
<1>5. worker' \in [Workers -> Doing']
  BY <1>4 DEF Emits, Doing
<1> QED  BY <1>3, <1>4, <1>5, TypeNextIs DEF TypeNext, Emits

LEMMA ProviderType ==
  ASSUME TypeOK, NEW k \in Keys, bound' = bound,
         \/ ProviderPaid(k) \/ RenewalFails(k) \/ RenewalPaid(k)
         \/ SubscriptionEnds(k)
         \/ \E kind \in Reverses : ProviderReverses(k, kind)
  PROVE  TypeOK'
<1>1. provider[k] \in TruthType  BY DEF TypeOK
<1>2. CASE ProviderPaid(k)
  <2>1. [session |-> "paid", sub |-> "active"] \in TruthType
    BY DEF TruthType, Access
  <2>2. provider' \in [Keys -> TruthType]
    BY <2>1, <1>2 DEF ProviderPaid, TypeOK
  <2> QED  BY <2>2, <1>2, EmitsType DEF ProviderPaid, Lifecycle
<1>3. ASSUME NEW from, NEW to \in Access, NEW kind \in Lifecycle,
             SubscriptionMoves(k, from, to, kind)
      PROVE  TypeOK'
  <2>1. [provider[k] EXCEPT !.sub = to] \in TruthType
    BY <1>1 DEF TruthType
  <2>2. provider' \in [Keys -> TruthType]
    BY <2>1, <1>3 DEF SubscriptionMoves, TypeOK
  <2> QED  BY <2>2, <1>3, EmitsType DEF SubscriptionMoves
<1>4. CASE RenewalFails(k) \/ RenewalPaid(k) \/ SubscriptionEnds(k)
  BY <1>3, <1>4 DEF RenewalFails, RenewalPaid, SubscriptionEnds, Access, Lifecycle
<1>5. CASE \E kind \in Reverses : ProviderReverses(k, kind)
  <2>1. PICK kind \in Reverses : ProviderReverses(k, kind)  BY <1>5
  <2>2. kind \in Negative  BY ReversesAssumption
  <2> QED  BY <2>1, <2>2, EmitsType DEF ProviderReverses, TypeOK
<1> QED  BY <1>2, <1>4, <1>5

LEMMA TypeStep ==
  ASSUME TypeOK, Requests, Truths, Next
  PROVE  TypeOK'
<1> USE DEF Requests, RequestOK, RequestIn, Truths, TruthOK, TruthIn, Calling
<1>1. bound' = bound /\ Acts  BY DEF Next
<1>2. ASSUME NEW w \in Workers, Step(w)  PROVE TypeOK'
  <2>1. CASE CallProvider(w)
    BY <2>1, <1>1, CallProviderType DEF CallProvider
  <2>2. CASE Attach(w)  BY <2>2, <1>1, AttachType DEF Attach
  <2>3. CASE RecordError(w)  BY <2>3, <1>1, RecordErrorType DEF RecordError
  <2>4. CASE ReconcileAttached(w)
    BY <2>4, <1>1, ReconcileAttachedType DEF ReconcileAttached
  <2>5. CASE Apply(w)
    <3>1. worker[w].key \in Keys /\ worker[w].truth \in TruthType
      BY <2>5 DEF Apply
    <3>2. CASE ApplyReconciliation(w)
      BY <2>5, <3>1, <3>2, <1>1, ApplyReconciliationType DEF Apply
    <3>3. CASE ApplyReversal(w)
      BY <2>5, <3>1, <3>3, <1>1, ApplyReversalType DEF Apply
    <3>4. CASE ApplyLifecycle(w)
      BY <2>5, <3>1, <3>4, <1>1, ApplyLifecycleType DEF Apply, ApplyLifecycle
    <3> QED  BY <2>5, <3>2, <3>3, <3>4 DEF Apply
  <2> QED  BY <1>2, <2>1, <2>2, <2>3, <2>4, <2>5 DEF Step
<1>3. ASSUME NEW w \in Workers, NEW k \in Keys,
             Checkout(w, k) \/ OperatorReconcile(w, k)
      PROVE  TypeOK'
  BY <1>1, <1>3, CheckoutType, OperatorReconcileType
<1>4. ASSUME NEW w \in Workers, Crash(w)  PROVE TypeOK'
  BY <1>1, <1>4, CrashType
<1>5. ASSUME NEW w \in Workers, NEW e \in events, Deliver(w, e)  PROVE TypeOK'
  BY <1>1, <1>5, DeliverType
<1> QED  BY <1>1, <1>2, <1>3, <1>4, <1>5, ProviderType DEF Acts

-----------------------------------------------------------------------------
(* The steps, by what they write.                                          *)
Rest == /\ References /\ EffectsFollow /\ OneOpen
        /\ Requests /\ Truths /\ Recordings

LEMMA IdleOK == RequestIn(op', Idle) /\ TruthIn(provider', events', Idle)
  BY DEF RequestOK, RequestIn, TruthOK, TruthIn, Idle, Calling

(* A worker writes nothing but its own record. *)
LEMMA WorkerStep ==
  ASSUME TypeOK, Rest, NEW w \in Workers, NEW d,
         worker' = [worker EXCEPT ![w] = d], RequestIn(op', d), TruthIn(provider', events', d),
         op' = op, effects' = effects, plan' = plan, UNCHANGED stripe
  PROVE  Rest'
<1> USE DEF stripe
<1>1. ASSUME NEW v \in Workers  PROVE RequestOK(worker[v])' /\ TruthOK(worker[v])'
  <2>1. CASE v = w
    <3>1. worker'[v] = d  BY <2>1, TypeIs
    <3> QED  BY <3>1 DEF RequestOK, TruthOK, TruthIn
  <2>2. CASE v # w
    <3>1. worker'[v] = worker[v]  BY <2>2, TypeIs
    <3>2. RequestOK(worker[v]) /\ TruthOK(worker[v])
      BY DEF Rest, Requests, Truths
    <3> QED  BY <3>1, <3>2 DEF RequestOK, TruthOK, TruthIn, TruthType
  <2> QED  BY <2>1, <2>2
<1>2. Requests' /\ Truths'  BY <1>1 DEF Requests, Truths
<1> QED
  BY <1>2 DEF Rest, References, EffectsFollow, OneOpen, Recordings

(* What a transaction may make of the row of an operation, so that the     *)
(* other rows, and the requests that know an older version, stay right.    *)
RowOK(k, r) ==
  /\ r.state \in States
  /\ r.ref <=> r.state \in Referenced
  /\ r.state \in Unresolved =>
       \/ op[k].state \in Unresolved
       \/ ~ Busy(k)
  /\ op[k].state \in States =>
       /\ r.version >= op[k].version
       /\ r.version = op[k].version => r.ref = op[k].ref
       /\ op[k].ref => r.ref
  /\ r.sub = "canceled" => provider[k].sub = "canceled"
  /\ r.sub = "active" => provider[k].session = "paid"

(* The effects of an operation in a state. *)
EffectsOf(state, e) ==
  /\ state \notin Paid => e = {}
  /\ state = "succeeded" => e = {"payment_success"}
  /\ \A kind \in Negative :
       state = Reversal[kind] => {"payment_success", kind} \subseteq e
  /\ state \in Paid => "payment_success" \in e

(* A request stays right when the row it may be about moves on. *)
LEMMA RequestKept ==
  ASSUME NEW d, NEW rows, NEW new, NEW k \in Keys, RequestIn(rows, d),
         \A j \in Keys \ {k} : new[j] = rows[j],
         d.version \in Nat, rows[k].version \in Nat, new[k].version \in Nat,
         new[k].state \in States,
         rows[k].state \in States =>
           /\ new[k].version >= rows[k].version
           /\ new[k].version = rows[k].version => new[k].ref = rows[k].ref
           /\ rows[k].ref => new[k].ref
  PROVE  RequestIn(new, d)
<1>1. CASE d.pc = "idle"  BY <1>1 DEF RequestIn, Calling
<1>2. CASE d.pc # "idle" /\ d.key # k  BY <1>2 DEF RequestIn
<1>3. CASE d.pc # "idle" /\ d.key = k  BY <1>3 DEF RequestIn
<1> QED  BY <1>1, <1>2, <1>3

LEMMA RowStep ==
  ASSUME TypeOK, TypeOK', Rest, NEW w \in Workers, NEW d, NEW k \in Keys, NEW r,
         op' = [op EXCEPT ![k] = r], RowOK(k, r),
         worker' = [worker EXCEPT ![w] = d], RequestIn(op', d), TruthIn(provider', events', d),
         \A j \in Keys \ {k} : effects'[j] = effects[j],
         EffectsOf(r.state, effects'[k]),
         "payment_success" \in effects[k] => "payment_success" \in effects'[k],
         "payment_success" \in effects'[k] => provider[k].session = "paid",
         plan' = "premium" =>
           r.sub = "active" \/ (plan = "premium" /\ r.sub = op[k].sub),
         UNCHANGED stripe
  PROVE  Rest'
<1> USE DEF stripe
<1>1. /\ op'[k] = r
      /\ \A j \in Keys \ {k} : op'[j] = op[j]
  BY TypeIs
<1>a. op[k].version \in Nat  BY TypeIs DEF Row
<1>b. r.version \in Nat
  <2>1. op'[k] \in Row  BY TypeNextIs DEF TypeNext
  <2> QED  BY <1>1, <2>1 DEF Row
<1>c. /\ op'[k].version \in Nat /\ op'[k].state \in States
      /\ op[k].state \in States =>
           /\ op'[k].version >= op[k].version
           /\ op'[k].version = op[k].version => op'[k].ref = op[k].ref
           /\ op[k].ref => op'[k].ref
  BY <1>1, <1>b DEF RowOK
<1>2. References'  BY <1>1 DEF Rest, References, RowOK
<1>3. EffectsFollow'
  <2>1. ASSUME NEW j \in Keys  PROVE EffectsOf(op'[j].state, effects'[j])
    BY <1>1 DEF Rest, EffectsFollow, EffectsOf
  <2> QED  BY <2>1 DEF EffectsFollow, EffectsOf
<1>4. OneOpen'
  BY <1>1 DEF Rest, OneOpen, RowOK, Busy
<1>5. ASSUME NEW v \in Workers  PROVE RequestOK(worker[v])' /\ TruthOK(worker[v])'
  <2>1. CASE v = w
    <3>1. worker'[v] = d  BY <2>1, TypeIs
    <3> QED  BY <3>1 DEF RequestOK, TruthOK, TruthIn
  <2>2. CASE v # w
    <3>1. worker'[v] = worker[v]  BY <2>2, TypeIs
    <3>2. RequestOK(worker[v]) /\ TruthOK(worker[v])
      BY DEF Rest, Requests, Truths
    <3>3. TruthOK(worker[v])'  BY <3>1, <3>2 DEF TruthOK, TruthIn, TruthType
    <3>4. RequestIn(op', worker[v])
      <4>1. worker[v].version \in Nat  BY TypeIs DEF Doing
      <4>2. RequestIn(op, worker[v])  BY <3>2 DEF RequestOK
      <4> QED  BY ONLY <1>1, <1>a, <1>c, <4>1, <4>2, RequestKept, k \in Keys
    <3> QED  BY <3>1, <3>3, <3>4 DEF RequestOK
  <2> QED  BY <2>1, <2>2
<1>6. Requests' /\ Truths'  BY <1>5 DEF Requests, Truths
<1>7. Recordings'
  <2>1. \A j \in Keys : "payment_success" \in effects[j] =>
                        "payment_success" \in effects'[j]
    OBVIOUS
  <2> QED  BY <1>1, <2>1 DEF Rest, Recordings, RowOK
<1> QED  BY <1>2, <1>3, <1>4, <1>6, <1>7 DEF Rest

LEMMA StatesAre ==
  /\ Absent \notin States /\ Absent \notin Unresolved /\ Absent \notin Paid
  /\ Absent \notin Referenced
  /\ Unresolved \subseteq States /\ Paid \subseteq States /\ Given \subseteq States
  /\ Referenced \subseteq States
  BY DEF Absent, States, Unresolved, Paid, Given, Referenced

LEMMA ObservesRest ==
  ASSUME TypeOK, Rest, NEW w \in Workers, NEW k \in Keys,
         NEW e \in events \cup {None}, e # None => e.key = k,
         op[k].ref, Observes(w, k, e),
         op' = op, effects' = effects, plan' = plan, UNCHANGED stripe
  PROVE  Rest'
<1> DEFINE d == [Idle EXCEPT !.pc = "apply", !.key = k, !.event = e,
                             !.truth = provider[k]]
<1>1. /\ d.pc = "apply" /\ d.key = k /\ d.event = e /\ d.truth = provider[k]
  BY DEF Idle
<1>2. op[k].state \in States
  BY StatesAre DEF Rest, References
<1>3. RequestIn(op', d)
  BY <1>1, <1>2 DEF RequestOK, RequestIn, Calling, stripe
<1>4. TruthIn(provider', events', d)
  BY <1>1, TypeIs DEF TruthOK, TruthIn, stripe, TruthType
<1>5. worker' = [worker EXCEPT ![w] = d]  BY DEF Observes
<1> HIDE DEF d
<1> QED  BY <1>3, <1>4, <1>5, WorkerStep

LEMMA IdleRest ==
  ASSUME TypeOK, Rest, NEW w \in Workers, Ends(w),
         op' = op, effects' = effects, plan' = plan, UNCHANGED stripe
  PROVE  Rest'
  BY IdleOK, WorkerStep DEF Ends

LEMMA CheckoutRest ==
  ASSUME TypeOK, Rest, TypeOK', NEW w \in Workers, NEW k \in Keys, Checkout(w, k)
  PROVE  Rest'
<1>1. UNCHANGED stripe /\ effects' = effects /\ plan' = plan
  BY DEF Checkout
<1>2. op[k] \in Row  BY TypeIs
<1>3. CASE op[k].state = Absent
  <2> DEFINE r == [op[k] EXCEPT !.state = "created", !.version = 1]
             d == [Idle EXCEPT !.pc = "call", !.key = k, !.version = 1]
  <2>1. /\ r.state = "created" /\ r.version = 1
        /\ r.ref = op[k].ref /\ r.sub = op[k].sub
    BY <1>2 DEF Row
  <2>2. d.pc = "call" /\ d.key = k /\ d.version = 1  BY DEF Idle
  <2>3. /\ op' = [op EXCEPT ![k] = r]
        /\ worker' = [worker EXCEPT ![w] = d]
        /\ ~ Busy(k)
    BY <1>3, StatesAre DEF Checkout
  <2>4. ~ op[k].ref /\ effects[k] = {}
    BY <1>3, StatesAre DEF Rest, References, EffectsFollow
  <2>5. RowOK(k, r)
    <3>1. "created" \in States /\ "created" \in Unresolved
            /\ "created" \notin Referenced
      BY DEF States, Unresolved, Referenced, Paid
    <3>2. /\ r.sub = "canceled" => provider[k].sub = "canceled"
          /\ r.sub = "active" => provider[k].session = "paid"
      BY <2>1 DEF Rest, Recordings
    <3> QED  BY <1>3, <2>1, <2>3, <2>4, <3>1, <3>2, StatesAre DEF RowOK
  <2>6. op'[k] = r  BY <2>3, TypeIs
  <2> HIDE DEF r, d
  <2>7. RequestIn(op', d)
    BY <2>1, <2>2, <2>4, <2>6 DEF RequestIn, Calling, States, Unresolved
  <2>8. TruthIn(provider', events', d)  BY <2>2 DEF TruthOK, TruthIn
  <2>9. EffectsOf(r.state, effects'[k])
    BY <1>1, <2>1, <2>4, ReversalIs DEF EffectsOf, Paid
  <2> QED  BY <1>1, <2>1, <2>3, <2>4, <2>5, <2>7, <2>8, <2>9, RowStep
<1>4. CASE op[k].state # Absent
  <2>1. op' = op /\ op[k].state \in Unresolved  BY <1>4 DEF Checkout
  <2>2. CASE op[k].ref
    <3>1. Observes(w, k, None)  BY <1>4, <2>2 DEF Checkout
    <3> QED  BY <1>1, <2>1, <2>2, <3>1, ObservesRest
  <2>3. CASE ~ op[k].ref
    <3> DEFINE d == [Idle EXCEPT !.pc = "call", !.key = k,
                                 !.version = op[k].version]
    <3>1. d.pc = "call" /\ d.key = k /\ d.version = op[k].version  BY DEF Idle
    <3>2. worker' = [worker EXCEPT ![w] = d]  BY <1>4, <2>3 DEF Checkout
    <3>3. op[k].version \in Nat  BY <1>2 DEF Row
    <3>4. RequestIn(op', d)
      BY <2>1, <2>3, <3>1, <3>3, StatesAre DEF RequestOK, RequestIn, Calling
    <3>5. TruthIn(provider', events', d)  BY <3>1 DEF TruthOK, TruthIn
    <3> HIDE DEF d
    <3> QED  BY <1>1, <2>1, <3>2, <3>4, <3>5, WorkerStep
  <2> QED  BY <2>2, <2>3
<1> QED  BY <1>3, <1>4

LEMMA CallProviderRest ==
  ASSUME TypeOK, Rest, TypeOK', NEW w \in Workers, CallProvider(w)
  PROVE  Rest'
<1> DEFINE k == worker[w].key
<1>1. op' = op /\ effects' = effects /\ plan' = plan /\ events' = events
  BY DEF CallProvider, db
<1>2. k \in Keys /\ worker[w] \in Doing
  BY TypeIs DEF CallProvider, Rest, Requests, RequestOK, RequestIn
<1>3. \A j \in Keys : /\ provider'[j].sub = provider[j].sub
                      /\ provider[j].session = "paid" =>
                           provider'[j].session = "paid"
  BY <1>2, TypeIs DEF CallProvider, SessionOpened, TruthType
<1>4. PICK pc \in {"attach", "failing"}, err \in {None, "busy", "other", "conflict"} :
        /\ worker' = [worker EXCEPT ![w] = [worker[w] EXCEPT !.pc = pc, !.err = err]]
        /\ pc = "failing" => err \in {"busy", "other", "conflict"}
  BY DEF CallProvider
<1> DEFINE d == [worker[w] EXCEPT !.pc = pc, !.err = err]
<1>5. /\ d.pc = pc /\ d.err = err /\ d.key = k
      /\ d.version = worker[w].version
  BY <1>2 DEF Doing
<1>6. RequestIn(op, worker[w]) /\ worker[w].pc = "call"
  BY DEF Rest, Requests, RequestOK, CallProvider
<1>7. RequestIn(op, d)
  BY <1>4, <1>5, <1>6 DEF RequestIn, Calling
<1>8. worker' = [worker EXCEPT ![w] = d]  BY <1>4
<1>9. d.pc # "apply"  BY <1>5
<1> HIDE DEF d, k
<1>10. ASSUME NEW v \in Workers  PROVE RequestOK(worker[v])' /\ TruthOK(worker[v])'
  <2>1. CASE v = w
    <3>1. worker'[v] = d  BY <1>8, <2>1, TypeIs
    <3> QED  BY <1>1, <1>7, <1>9, <3>1 DEF RequestOK, TruthOK, TruthIn
  <2>2. CASE v # w
    <3>1. worker'[v] = worker[v]  BY <1>8, <2>2, TypeIs
    <3>2. /\ RequestOK(worker[v]) /\ TruthOK(worker[v])
          /\ worker[v].pc = "apply" => worker[v].key \in Keys
      BY DEF Rest, Requests, Truths, RequestOK, RequestIn
    <3> QED  BY <1>1, <1>3, <3>1, <3>2 DEF RequestOK, TruthOK, TruthIn, TruthType
  <2> QED  BY <2>1, <2>2
<1>11. Requests' /\ Truths'  BY <1>10 DEF Requests, Truths
<1>12. Recordings'
  <2>1. \A e \in events : e.key \in Keys  BY TypeIs DEF EventType
  <2> QED  BY <1>1, <1>3, <2>1 DEF Rest, Recordings
<1> QED  BY <1>1, <1>11, <1>12 DEF Rest, References, EffectsFollow, OneOpen

LEMMA AttachRest ==
  ASSUME TypeOK, Rest, TypeOK', NEW w \in Workers, Attach(w)
  PROVE  Rest'
<1> DEFINE k == worker[w].key
<1>1. UNCHANGED stripe /\ effects' = effects /\ plan' = plan  BY DEF Attach
<1>2. /\ k \in Keys /\ op[k].state \in States /\ op[k] \in Row
      /\ worker[w] \in Doing /\ RequestIn(op, worker[w])
      /\ worker[w].pc = "attach"
  BY TypeIs DEF Attach, Rest, Requests, RequestOK, RequestIn
<1>3. CASE /\ CanMove(op[k], "processing")
           /\ op' = [op EXCEPT ![k] =
                       [Moved(op[k], "processing") EXCEPT !.ref = TRUE]]
           /\ worker' = [worker EXCEPT ![w] =
                           [Idle EXCEPT !.pc = "truth", !.key = k]]
  <2> DEFINE r == [Moved(op[k], "processing") EXCEPT !.ref = TRUE]
             d == [Idle EXCEPT !.pc = "truth", !.key = k]
  <2>1. op[k].state \in Unresolved  BY <1>2, <1>3, IntoProcessing
  <2>2. "processing" \in States /\ "processing" \in Referenced
          /\ "processing" \in Unresolved /\ "processing" \notin Paid
    BY DEF States, Unresolved, Referenced, Paid
  <2>3. /\ Moved(op[k], "processing") \in Row
        /\ Moved(op[k], "processing").state = "processing"
        /\ Moved(op[k], "processing").sub = op[k].sub
        /\ Moved(op[k], "processing").version =
             IF op[k].state = "processing" THEN op[k].version
             ELSE op[k].version + 1
    BY <1>2, <2>2, MovedType
  <2>4. /\ r.state = "processing" /\ r.ref = TRUE /\ r.sub = op[k].sub
        /\ r.version = IF op[k].state = "processing" THEN op[k].version
                       ELSE op[k].version + 1
    BY <2>3 DEF Row
  <2>5. d.pc = "truth" /\ d.key = k  BY DEF Idle
  <2>6. op' = [op EXCEPT ![k] = r] /\ worker' = [worker EXCEPT ![w] = d]
    BY <1>3
  <2> HIDE DEF r, d, k
  <2>7. RowOK(k, r)
    <3>1. op[k].version \in Nat /\ op[k].ref \in BOOLEAN  BY <1>2 DEF Row
    <3>2. op[k].state = "processing" => op[k].ref
      BY <1>2, <2>2 DEF Rest, References
    <3>3. /\ r.sub = "canceled" => provider[k].sub = "canceled"
          /\ r.sub = "active" => provider[k].session = "paid"
      BY <1>2, <2>4 DEF Rest, Recordings
    <3>4. r.version >= op[k].version /\ (r.version = op[k].version => op[k].ref)
      BY <2>4, <3>1, <3>2
    <3>5. r.version = op[k].version => r.ref = op[k].ref
      BY <2>4, <3>1, <3>4
    <3> QED  BY <2>1, <2>2, <2>4, <3>3, <3>4, <3>5 DEF RowOK
  <2>8. op'[k] = r  BY <1>2, <2>6, TypeIs
  <2>9. RequestIn(op', d)
    BY <1>2, <2>2, <2>4, <2>5, <2>8 DEF RequestIn, Calling
  <2>10. TruthIn(provider', events', d)  BY <2>5 DEF TruthIn
  <2>11. effects[k] = {}
    BY <1>2, <2>1 DEF Rest, EffectsFollow, Unresolved, Paid
  <2>12. EffectsOf(r.state, effects'[k])
    BY <1>1, <2>2, <2>4, <2>11, ReversalType DEF EffectsOf
  <2> QED
    BY <1>1, <1>2, <2>4, <2>6, <2>7, <2>9, <2>10, <2>11, <2>12, RowStep
<1>4. CASE /\ op' = op
           /\ worker' = [worker EXCEPT ![w] =
                           [worker[w] EXCEPT !.pc = "failing", !.err = "other"]]
  <2> DEFINE d == [worker[w] EXCEPT !.pc = "failing", !.err = "other"]
  <2>1. /\ d.pc = "failing" /\ d.err = "other" /\ d.key = k
        /\ d.version = worker[w].version
    BY <1>2 DEF Doing
  <2>2. worker' = [worker EXCEPT ![w] = d]  BY <1>4
  <2> HIDE DEF d
  <2>3. RequestIn(op', d)
    BY <1>2, <1>4, <2>1 DEF RequestIn, Calling
  <2>4. TruthIn(provider', events', d)  BY <2>1 DEF TruthIn
  <2> QED  BY <1>1, <1>4, <2>2, <2>3, <2>4, WorkerStep
<1> QED  BY <1>3, <1>4 DEF Attach

LEMMA RecordErrorRest ==
  ASSUME TypeOK, Rest, TypeOK', NEW w \in Workers, RecordError(w)
  PROVE  Rest'
<1> DEFINE k == worker[w].key
           next == StateAfter(worker[w].err)
<1>1. UNCHANGED stripe /\ effects' = effects /\ plan' = plan /\ Ends(w)
  BY DEF RecordError, Throws
<1>2. /\ k \in Keys /\ op[k].state \in States /\ op[k] \in Row
      /\ worker[w] \in Doing /\ RequestIn(op, worker[w])
      /\ worker[w].pc = "failing"
      /\ worker[w].err \in {"busy", "conflict", "other"}
  BY TypeIs DEF RecordError, Rest, Requests, RequestOK, RequestIn
<1>3. next \in {"failed", "unknown", "reconciliation_required"}
  BY <1>2 DEF StateAfter
<1>4. CASE /\ SameVersion(w) /\ CanMove(op[k], next)
           /\ op' = [op EXCEPT ![k] = Moved(op[k], next)]
  <2> DEFINE r == Moved(op[k], next)
  <2>1. op[k].state \in Unresolved \/ (op[k].state = "failed" /\ next = "failed")
    BY <1>2, <1>3, <1>4, IntoError
  <2>2. ~ op[k].ref
    BY <1>2, <1>4 DEF RequestIn, Calling, SameVersion
  <2>3. /\ next \in States /\ next \notin Referenced /\ next \notin Paid
        /\ next # "succeeded"
    BY <1>3 DEF States, Unresolved, Given, Referenced, Paid
  <2>4. /\ r.state = next /\ r.ref = op[k].ref /\ r.sub = op[k].sub
        /\ r.version = IF op[k].state = next THEN op[k].version
                       ELSE op[k].version + 1
    BY <1>2, <2>3, MovedType
  <2>5. op' = [op EXCEPT ![k] = r] /\ worker' = [worker EXCEPT ![w] = Idle]
    BY <1>1, <1>4 DEF Ends
  <2>6. op[k].state \notin Paid /\ (next \in Unresolved => op[k].state \in Unresolved)
    BY <2>1 DEF Unresolved, Paid
  <2> HIDE DEF r, k, next
  <2>7. RowOK(k, r)
    <3>1. op[k].version \in Nat  BY <1>2 DEF Row
    <3>2. /\ r.sub = "canceled" => provider[k].sub = "canceled"
          /\ r.sub = "active" => provider[k].session = "paid"
      BY <1>2, <2>4 DEF Rest, Recordings
    <3> QED  BY <2>2, <2>3, <2>4, <2>6, <3>1, <3>2 DEF RowOK
  <2>8. effects[k] = {}
    BY <1>2, <2>6 DEF Rest, EffectsFollow
  <2>9. EffectsOf(r.state, effects'[k])
    BY <1>1, <2>3, <2>4, <2>8, ReversalType DEF EffectsOf
  <2> QED  BY <1>1, <1>2, <2>4, <2>5, <2>7, <2>8, <2>9, IdleOK, RowStep
<1>5. CASE op' = op
  BY <1>1, <1>5, IdleRest
<1> QED  BY <1>4, <1>5 DEF RecordError

(* The transactions of the handlers that have the truth. *)
LEMMA ApplyReconciliationRest ==
  ASSUME TypeOK, Rest, TypeOK', NEW w \in Workers, worker[w].pc = "apply",
         ApplyReconciliation(w), UNCHANGED stripe
  PROVE  Rest'
<1> DEFINE k == worker[w].key
           truth == worker[w].truth
<1>1. /\ k \in Keys /\ op[k].state \in States /\ op[k] \in Row /\ op[k].ref
      /\ truth \in TruthType
      /\ truth.session = "paid" => provider[k].session = "paid"
  BY TypeIs DEF Rest, Requests, RequestOK, RequestIn, Truths, TruthOK, TruthIn
<1>2. Ends(w)
  BY DEF ApplyReconciliation, Duplicate, Acks, Rollback, Throws
<1>3. CASE /\ Matches(truth) /\ CanMove(op[k], "succeeded")
           /\ op' = [op EXCEPT ![k] =
                       [Moved(op[k], "succeeded") EXCEPT !.sub = truth.sub]]
           /\ Effect(k, "payment_success")
  <2> DEFINE r == [Moved(op[k], "succeeded") EXCEPT !.sub = truth.sub]
  <2>1. op[k].state \in {"processing", "succeeded"}
    <3>1. op[k].state \in Referenced  BY <1>1 DEF Rest, References
    <3>2. op[k].state \in Unresolved \/ op[k].state = "succeeded"
      BY <1>1, <1>3, IntoSucceeded
    <3> QED  BY <3>1, <3>2 DEF Referenced, Unresolved, Paid
  <2>2. /\ "succeeded" \in States /\ "succeeded" \in Referenced
        /\ "succeeded" \notin Unresolved /\ "succeeded" \in Paid
    BY DEF States, Unresolved, Referenced, Paid
  <2>3. /\ Moved(op[k], "succeeded") \in Row
        /\ Moved(op[k], "succeeded").state = "succeeded"
        /\ Moved(op[k], "succeeded").ref = op[k].ref
        /\ Moved(op[k], "succeeded").version =
             IF op[k].state = "succeeded" THEN op[k].version
             ELSE op[k].version + 1
    BY <1>1, <2>2, MovedType
  <2>4. /\ r.state = "succeeded" /\ r.ref = op[k].ref /\ r.sub = "active"
        /\ r.version = IF op[k].state = "succeeded" THEN op[k].version
                       ELSE op[k].version + 1
    BY <1>3, <2>3 DEF Row, Matches
  <2>5. op' = [op EXCEPT ![k] = r] /\ worker' = [worker EXCEPT ![w] = Idle]
    BY <1>2, <1>3 DEF Ends
  <2>6. effects[k] = {} \/ effects[k] = {"payment_success"}
    <3>1. "processing" \notin Paid  BY DEF Paid
    <3> QED  BY <1>1, <2>1, <3>1 DEF Rest, EffectsFollow
  <2> HIDE DEF r, k
  <2>7. /\ effects' = [effects EXCEPT ![k] = effects[k] \cup {"payment_success"}]
        /\ effects'[k] = {"payment_success"}
    BY <1>1, <1>3, <2>6, TypeIs DEF Effect
  <2>8. RowOK(k, r)
    <3>1. op[k].version \in Nat  BY <1>1 DEF Row
    <3>2. provider[k].session = "paid"  BY <1>1, <1>3 DEF Matches
    <3> QED  BY <1>1, <2>2, <2>4, <3>1, <3>2 DEF RowOK
  <2>9. EffectsOf(r.state, effects'[k])
    BY <2>2, <2>4, <2>7, ReversalIs DEF EffectsOf
  <2>10. provider[k].session = "paid"  BY <1>1, <1>3 DEF Matches
  <2>11. \A j \in Keys \ {k} : effects'[j] = effects[j]
    BY <2>7, TypeIs
  <2> QED
    BY <1>1, <2>4, <2>5, <2>7, <2>8, <2>9, <2>10, <2>11, IdleOK, RowStep
<1>4. CASE op' = op /\ effects' = effects /\ plan' = plan
  BY <1>2, <1>4, IdleRest
<1> QED
  BY <1>3, <1>4 DEF ApplyReconciliation, Duplicate, Rollback, db

LEMMA ApplyReversalRest ==
  ASSUME TypeOK, Rest, TypeOK', NEW w \in Workers, worker[w].pc = "apply",
         ApplyReversal(w), UNCHANGED stripe
  PROVE  Rest'
<1> DEFINE k == worker[w].key
           kind == worker[w].event.kind
<1>1. /\ k \in Keys /\ op[k].state \in States /\ op[k] \in Row /\ op[k].ref
      /\ kind \in Negative
  BY TypeIs DEF Rest, Requests, RequestOK, RequestIn, ApplyReversal
<1>2. Ends(w)
  BY DEF ApplyReversal, Duplicate, Acks, Rollback, Throws
<1>3. CASE /\ CanMove(op[k], Reversal[kind])
           /\ op' = [op EXCEPT ![k] = Moved(op[k], Reversal[kind])]
           /\ Effect(k, kind)
  <2> DEFINE next == Reversal[kind]
             r == Moved(op[k], next)
  <2>1. op[k].state \in Paid
    <3>1. op[k].state \in Referenced  BY <1>1 DEF Rest, References
    <3>2. \/ op[k].state = "succeeded" \/ op[k].state = "partially_refunded"
          \/ op[k].state = Reversal[kind]
      BY <1>1, <1>3, <3>1, IntoReversal
    <3> QED  BY <1>1, <3>2, ReversalType DEF Paid
  <2>2. /\ next \in States /\ next \in Referenced /\ next # "succeeded"
        /\ next \notin Unresolved /\ next \in Paid
    BY <1>1, ReversalIs DEF States, Unresolved, Referenced, Paid
  <2>3. /\ r.state = next /\ r.ref = op[k].ref /\ r.sub = op[k].sub
        /\ r.version = IF op[k].state = next THEN op[k].version
                       ELSE op[k].version + 1
    BY <1>1, <2>2, MovedType
  <2>4. op' = [op EXCEPT ![k] = r] /\ worker' = [worker EXCEPT ![w] = Idle]
    BY <1>2, <1>3 DEF Ends
  <2>5. "payment_success" \in effects[k]
    BY <1>1, <2>1 DEF Rest, EffectsFollow
  <2>6. \A other \in Negative : next = Reversal[other] => other = kind
    BY <1>1, ReversalIs
  <2> HIDE DEF r, k, next
  <2>7. /\ effects' = [effects EXCEPT ![k] = effects[k] \cup {kind}]
        /\ effects'[k] = effects[k] \cup {kind}
    BY <1>1, <1>3, TypeIs DEF Effect
  <2>8. RowOK(k, r)
    <3>1. op[k].version \in Nat  BY <1>1 DEF Row
    <3>2. /\ r.sub = "canceled" => provider[k].sub = "canceled"
          /\ r.sub = "active" => provider[k].session = "paid"
      BY <1>1, <2>3 DEF Rest, Recordings
    <3> QED  BY <1>1, <2>2, <2>3, <3>1, <3>2 DEF RowOK
  <2>9. EffectsOf(r.state, effects'[k])
    BY <2>2, <2>3, <2>5, <2>6, <2>7 DEF EffectsOf
  <2>10. provider[k].session = "paid"  BY <1>1, <2>5 DEF Rest, Recordings
  <2>11. \A j \in Keys \ {k} : effects'[j] = effects[j]
    BY <2>7, TypeIs
  <2>12. plan' = "premium" => plan = "premium"
    BY <1>1, <1>3, ReversalIs DEF Effect, PlanAfter
  <2> QED
    BY <1>1, <2>3, <2>4, <2>5, <2>7, <2>8, <2>9, <2>10, <2>11, <2>12, IdleOK, RowStep
<1>4. CASE op' = op /\ effects' = effects /\ plan' = plan
  BY <1>2, <1>4, IdleRest
<1> QED
  BY <1>3, <1>4 DEF ApplyReversal, Duplicate, Rollback, db

LEMMA ApplyLifecycleRest ==
  ASSUME TypeOK, Rest, TypeOK', NEW w \in Workers, worker[w].pc = "apply",
         ApplyLifecycle(w), UNCHANGED stripe
  PROVE  Rest'
<1> DEFINE k == worker[w].key
           e == worker[w].event
           state == AccessState(e.kind, worker[w].truth)
<1>1. /\ k \in Keys /\ op[k].state \in States /\ op[k] \in Row
      /\ e \in events /\ e.key = k /\ e.kind \in Lifecycle
      /\ worker[w].truth \in TruthType
      /\ worker[w].truth.sub = "canceled" => provider[k].sub = "canceled"
  BY TypeIs DEF Rest, Requests, RequestOK, RequestIn, Truths, TruthOK, TruthIn,
                ApplyLifecycle
<1>2. Ends(w) /\ effects' = effects
  BY DEF ApplyLifecycle, Duplicate, Acks, db
<1>3. CASE /\ op' = [op EXCEPT ![k].sub = state, ![k].at = e.at,
                               ![k].version = @ + 1]
           /\ plan' = IF state = "active" THEN "premium" ELSE "free"
  <2> DEFINE r == [op[k] EXCEPT !.sub = state, !.at = e.at,
                                !.version = op[k].version + 1]
  <2>1. /\ r.state = op[k].state /\ r.ref = op[k].ref
        /\ r.sub = state /\ r.version = op[k].version + 1
    BY <1>1 DEF Row
  <2>2. /\ state = "canceled" => provider[k].sub = "canceled"
        /\ provider[k].session = "paid"
    <3>1. provider[k].session = "paid" /\ (e.kind = "deleted" => provider[k].sub = "canceled")
      BY <1>1 DEF Rest, Recordings
    <3> QED  BY <1>1, <3>1 DEF AccessState, Lifecycle
  <2>3. op' = [op EXCEPT ![k] = r] /\ worker' = [worker EXCEPT ![w] = Idle]
    BY <1>1, <1>2, <1>3, TypeIs DEF Ends
  <2>4. plan' = "premium" => r.sub = "active"  BY <1>3, <2>1
  <2>5. EffectsOf(op[k].state, effects'[k])
    BY <1>1, <1>2 DEF Rest, EffectsFollow, EffectsOf
  <2>6. "payment_success" \in effects[k] => provider[k].session = "paid"
    BY <1>1 DEF Rest, Recordings
  <2> HIDE DEF r, k, e, state
  <2>7. RowOK(k, r)
    <3>1. op[k].version \in Nat  BY <1>1 DEF Row
    <3>2. op[k].ref <=> op[k].state \in Referenced
      BY <1>1 DEF Rest, References
    <3> QED  BY <1>1, <2>1, <2>2, <3>1, <3>2 DEF RowOK
  <2> QED
    BY <1>1, <1>2, <2>1, <2>3, <2>4, <2>5, <2>6, <2>7, IdleOK, RowStep
<1>4. CASE op' = op /\ plan' = plan
  BY <1>2, <1>4, IdleRest
<1> QED
  BY <1>3, <1>4 DEF ApplyLifecycle, Duplicate, db

(* The steps of the provider: a payment and a cancellation are final. *)
LEMMA ProviderRest ==
  ASSUME TypeOK, Rest, TypeOK', NEW k \in Keys,
         \/ ProviderPaid(k) \/ RenewalFails(k) \/ RenewalPaid(k)
         \/ SubscriptionEnds(k)
         \/ \E kind \in Reverses : ProviderReverses(k, kind)
  PROVE  Rest'
<1>1. /\ op' = op /\ effects' = effects /\ plan' = plan /\ worker' = worker
      /\ events \subseteq events'
  BY DEF ProviderPaid, RenewalFails, RenewalPaid, SubscriptionEnds,
         SubscriptionMoves, ProviderReverses, Emits, db
<1>2. \A j \in Keys :
        /\ provider[j].session = "paid" => provider'[j].session = "paid"
        /\ provider[j].sub = "canceled" => provider'[j].sub = "canceled"
        /\ provider'[j].sub # "none" => provider'[j].session = "paid"
  <2>1. /\ provider[k] \in TruthType
        /\ provider[k].sub # "none" => provider[k].session = "paid"
        /\ \A j \in Keys : provider[j].sub # "none" => provider[j].session = "paid"
    BY TypeIs DEF Rest, Recordings
  <2>2. CASE ProviderPaid(k)
    <3>1. provider' = [provider EXCEPT ![k] = [session |-> "paid", sub |-> "active"]]
            /\ provider[k].session = "open"
      BY <2>2 DEF ProviderPaid
    <3> QED  BY <2>1, <3>1, TypeIs
  <2>3. ASSUME NEW to, NEW from, NEW kind, SubscriptionMoves(k, from, to, kind),
               "canceled" \notin from, "none" \notin from
        PROVE  \A j \in Keys :
                 /\ provider[j].session = "paid" => provider'[j].session = "paid"
                 /\ provider[j].sub = "canceled" => provider'[j].sub = "canceled"
                 /\ provider'[j].sub # "none" => provider'[j].session = "paid"
    <3>1. /\ provider' = [provider EXCEPT ![k] = [provider[k] EXCEPT !.sub = to]]
          /\ provider[k].sub \in from
      BY <2>3 DEF SubscriptionMoves
    <3>2. provider'[k].session = provider[k].session
            /\ provider[k].sub # "canceled" /\ provider[k].session = "paid"
      BY <2>1, <2>3, <3>1, TypeIs DEF TruthType
    <3>3. \A j \in Keys \ {k} : provider'[j] = provider[j]  BY <3>1, TypeIs
    <3> QED  BY <2>1, <3>2, <3>3
  <2>4. CASE RenewalFails(k) \/ RenewalPaid(k) \/ SubscriptionEnds(k)
    BY <2>3, <2>4 DEF RenewalFails, RenewalPaid, SubscriptionEnds
  <2>5. CASE \E kind \in Reverses : ProviderReverses(k, kind)
    BY <2>1, <2>5 DEF ProviderReverses
  <2> QED  BY <2>2, <2>4, <2>5
<1>7. provider'[k].session = "paid"
  <2>1. /\ provider[k] \in TruthType
        /\ provider[k].sub # "none" => provider[k].session = "paid"
    BY TypeIs DEF Rest, Recordings
  <2>2. CASE ProviderPaid(k)
    <3>1. provider' = [provider EXCEPT ![k] = [session |-> "paid", sub |-> "active"]]
      BY <2>2 DEF ProviderPaid
    <3> QED  BY <3>1, TypeIs
  <2>3. CASE RenewalFails(k) \/ RenewalPaid(k) \/ SubscriptionEnds(k)
    <3>1. provider[k].sub # "none"
      BY <2>3 DEF RenewalFails, RenewalPaid, SubscriptionEnds, SubscriptionMoves
    <3> QED  BY <1>2, <2>1, <3>1
  <2>4. CASE \E kind \in Reverses : ProviderReverses(k, kind)
    BY <1>2, <2>4 DEF ProviderReverses
  <2> QED  BY <2>2, <2>3, <2>4
<1>3. \A e \in events' :
        /\ provider'[e.key].session = "paid"
        /\ e.kind = "deleted" => provider'[e.key].sub = "canceled"
  <2>1. ASSUME NEW e \in events
        PROVE  /\ provider'[e.key].session = "paid"
               /\ e.kind = "deleted" => provider'[e.key].sub = "canceled"
    <3>1. e.key \in Keys  BY TypeIs DEF EventType
    <3> QED  BY <1>2, <2>1, <3>1 DEF Rest, Recordings
  <2>2. ASSUME NEW kinds, Emits(k, kinds),
               "deleted" \in kinds => provider'[k].sub = "canceled"
        PROVE  \A e \in events' \ events :
                 /\ provider'[e.key].session = "paid"
                 /\ e.kind = "deleted" => provider'[e.key].sub = "canceled"
    BY <1>7, <2>2 DEF Emits
  <2>3. CASE ProviderPaid(k)
    BY <2>1, <2>2, <2>3 DEF ProviderPaid
  <2>4. CASE RenewalFails(k) \/ RenewalPaid(k)
    BY <2>1, <2>2, <2>4 DEF RenewalFails, RenewalPaid, SubscriptionMoves
  <2>5. CASE SubscriptionEnds(k)
    <3>1. provider'[k].sub = "canceled"
      BY <2>5, TypeIs DEF SubscriptionEnds, SubscriptionMoves, TruthType
    <3>2. Emits(k, {"deleted"})
      BY <2>5 DEF SubscriptionEnds, SubscriptionMoves
    <3> QED  BY <2>1, <2>2, <3>1, <3>2
  <2>6. CASE \E kind \in Reverses : ProviderReverses(k, kind)
    <3>1. PICK kind \in Reverses : ProviderReverses(k, kind)  BY <2>6
    <3>2. kind # "deleted"  BY ReversesAssumption, ReversalIs
    <3> QED  BY <2>1, <2>2, <3>1, <3>2 DEF ProviderReverses
  <2> QED  BY <2>3, <2>4, <2>5, <2>6
<1>4. Requests'
  BY <1>1 DEF Rest, Requests, RequestOK
<1>5. Truths'
  <2>1. ASSUME NEW w \in Workers  PROVE TruthIn(provider', events', worker[w])
    <3>1. TruthIn(provider, events, worker[w])
            /\ (worker[w].pc = "apply" => worker[w].key \in Keys)
      BY DEF Rest, Truths, TruthOK, Requests, RequestOK, RequestIn
    <3> QED  BY <1>1, <1>2, <3>1 DEF TruthIn
  <2> QED  BY <1>1, <2>1 DEF Truths, TruthOK
<1>6. Recordings'
  BY <1>1, <1>2, <1>3 DEF Rest, Recordings
<1> QED
  BY <1>1, <1>4, <1>5, <1>6 DEF Rest, References, EffectsFollow, OneOpen

LEMMA IndInit == ASSUME Init PROVE IndInv
<1>1. TypeOK
  <2>1. [state |-> Absent, version |-> 0, ref |-> FALSE, sub |-> "none", at |-> 0]
          \in Row
    BY DEF Row, Access
  <2>2. [session |-> "none", sub |-> "none"] \in TruthType
    BY DEF TruthType, Access
  <2>3. bound.faults \in Nat /\ bound \in Bounds  BY BoundsAssumption DEF Init
  <2>4. op \in [Keys -> Row]  BY <2>1 DEF Init
  <2>5. provider \in [Keys -> TruthType]  BY <2>2 DEF Init
  <2>6. worker \in [Workers -> Doing]  BY IdleType DEF Init
  <2>7. effects \in [Keys -> SUBSET ({"payment_success"} \cup Negative)]
    BY DEF Init
  <2>8. faults \in 0 .. bound.faults  BY <2>3 DEF Init
  <2> QED  BY <2>3, <2>4, <2>5, <2>6, <2>7, <2>8, TypeIs DEF Init
<1>2. \A k \in Keys : op[k].state = Absent /\ op[k].ref = FALSE /\ op[k].sub = "none"
  BY DEF Init
<1>3. \A w \in Workers : worker[w].pc = "idle"  BY DEF Init, Idle
<1>4. References /\ OneOpen
  BY <1>2, StatesAre DEF References, OneOpen
<1>5. EffectsFollow
  BY <1>2, StatesAre, ReversalType DEF EffectsFollow, Init, Paid
<1>6. Requests /\ Truths
  BY <1>3 DEF Requests, RequestOK, RequestIn, Truths, TruthOK, TruthIn, Calling
<1>7. Recordings  BY <1>2 DEF Recordings, Init
<1> QED  BY <1>1, <1>4, <1>5, <1>6, <1>7 DEF IndInv

LEMMA IndStep == ASSUME IndInv, [Next]_vars PROVE IndInv'
<1>1. TypeOK /\ Rest  BY DEF IndInv, Rest
<1>2. SUFFICES Rest' /\ TypeOK'
  BY DEF IndInv, Rest, References, EffectsFollow, OneOpen, Requests, Truths,
         Recordings
<1>3. CASE UNCHANGED vars
  <2>1. TypeOK'  BY <1>1, <1>3 DEF TypeOK, vars, TruthType, EventType
  <2>2. Requests' /\ Truths'
    BY <1>1, <1>3 DEF Rest, Requests, RequestOK, RequestIn, Truths, TruthOK,
                      TruthIn, TruthType, vars
  <2> QED
    BY <1>1, <1>3, <2>1, <2>2 DEF Rest, References, EffectsFollow, OneOpen,
                                  Recordings, vars
<1>4. CASE Next
  <2>1. Acts /\ TypeOK'  BY <1>1, <1>4, TypeStep DEF Next, Rest
  <2>2. ASSUME NEW w \in Workers, Step(w)  PROVE Rest'
    <3>1. CASE CallProvider(w)  BY <1>1, <2>1, <3>1, CallProviderRest
    <3>2. CASE Attach(w)  BY <1>1, <2>1, <3>2, AttachRest
    <3>3. CASE RecordError(w)  BY <1>1, <2>1, <3>3, RecordErrorRest
    <3>4. CASE ReconcileAttached(w)
      <4>1. /\ op' = op /\ effects' = effects /\ plan' = plan /\ UNCHANGED stripe
            /\ worker[w].pc = "truth"
            /\ Observes(w, worker[w].key, None) \/ Ends(w)
        BY <3>4 DEF ReconcileAttached, db
      <4>2. worker[w].key \in Keys /\ op[worker[w].key].ref
        BY <1>1, <4>1 DEF Rest, Requests, RequestOK, RequestIn
      <4> QED  BY <1>1, <4>1, <4>2, ObservesRest, IdleRest
    <3>5. CASE Apply(w)
      BY <1>1, <2>1, <3>5, ApplyReconciliationRest, ApplyReversalRest,
         ApplyLifecycleRest DEF Apply
    <3> QED  BY <2>2, <3>1, <3>2, <3>3, <3>4, <3>5 DEF Step
  <2>3. ASSUME NEW w \in Workers, NEW k \in Keys, Checkout(w, k)  PROVE Rest'
    BY <1>1, <2>1, <2>3, CheckoutRest
  <2>4. ASSUME NEW w \in Workers, NEW k \in Keys, OperatorReconcile(w, k)
        PROVE  Rest'
    BY <1>1, <2>4, ObservesRest DEF OperatorReconcile, db
  <2>5. ASSUME NEW w \in Workers, Crash(w)  PROVE Rest'
    BY <1>1, <2>5, IdleRest DEF Crash, Throws, db
  <2>6. ASSUME NEW w \in Workers, NEW e \in events, Deliver(w, e)  PROVE Rest'
    <3>1. op' = op /\ effects' = effects /\ plan' = plan /\ UNCHANGED stripe
      BY <2>6 DEF Deliver, db
    <3>2. e.key \in Keys  BY <1>1, TypeIs DEF EventType
    <3>3. CASE op[e.key].ref /\ Observes(w, e.key, e)
      BY <1>1, <3>1, <3>2, <3>3, ObservesRest
    <3>4. CASE worker' = worker
      <4>1. Requests' /\ Truths'
        BY <1>1, <3>1, <3>4 DEF Rest, Requests, RequestOK, Truths, TruthOK, stripe
      <4> QED
        BY <1>1, <3>1, <4>1 DEF Rest, References, EffectsFollow, OneOpen,
                                Recordings, stripe
    <3> QED  BY <2>6, <3>3, <3>4 DEF Deliver
  <2>7. ASSUME NEW k \in Keys,
               \/ ProviderPaid(k) \/ RenewalFails(k) \/ RenewalPaid(k)
               \/ SubscriptionEnds(k)
               \/ \E kind \in Reverses : ProviderReverses(k, kind)
        PROVE  Rest'
    BY <1>1, <2>1, <2>7, ProviderRest
  <2> QED  BY <2>1, <2>2, <2>3, <2>4, <2>5, <2>6, <2>7 DEF Acts
<1> QED  BY <1>3, <1>4

(* The shapes of rows and workers, PaymentOperations' TypeOK, hold whatever *)
(* the keys, the handlers and the bounds.                                   *)
THEOREM TypeCorrect == Spec => []TypeOK
<1>1. IndInv => TypeOK  BY DEF IndInv
<1> QED  BY <1>1, IndInit, IndStep, PTL DEF Spec

(* Premium access is backed by an operation that the provider charged and   *)
(* that is recorded as active, however requests, deliveries, crashes and    *)
(* old truths interleave, and whichever of them came before the ledger.     *)
THEOREM PremiumNeedsCharge == Spec => []PremiumWasCharged
<1>1. IndInv => PremiumWasCharged
  BY DEF IndInv, Recordings, PremiumWasCharged
<1> QED  BY <1>1, IndInit, IndStep, PTL DEF Spec

(* Which row a step writes, and what of it. *)
LEMMA OnlyApplyMoves ==
  ASSUME IndInv, Next, NEW k \in Keys, op'[k].sub # op[k].sub \/ op'[k].at # op[k].at
  PROVE  \E w \in Workers :
           /\ worker[w].pc = "apply" /\ worker[w].key = k
           /\ \/ /\ ApplyReconciliation(w) /\ Matches(worker[w].truth)
                 /\ op'[k].sub = "active" /\ op'[k].at = op[k].at
              \/ /\ ApplyLifecycle(w)
                 /\ InOrder(op[k], worker[w].event,
                            AccessState(worker[w].event.kind, worker[w].truth))
                 /\ op'[k].at = worker[w].event.at
                 /\ op'[k].sub =
                      AccessState(worker[w].event.kind, worker[w].truth)
<1>1. TypeOK /\ Rest /\ op \in [Keys -> Row] /\ op[k] \in Row
  BY TypeIs DEF IndInv, Rest
<1>2. Acts /\ op' # op  BY <1>1 DEF Next
<1>3. ASSUME NEW j \in Keys, NEW w \in Workers, Checkout(w, j)  PROVE FALSE
  <2>1. \/ op' = op
        \/ op' = [op EXCEPT ![j] = [op[j] EXCEPT !.state = "created",
                                                 !.version = 1]]
    BY <1>3 DEF Checkout
  <2>2. op[j] \in Row  BY <1>1
  <2>3. [op[j] EXCEPT !.state = "created", !.version = 1].sub = op[j].sub
          /\ [op[j] EXCEPT !.state = "created", !.version = 1].at = op[j].at
    BY <2>2 DEF Row
  <2>4. op'[k].sub = op[k].sub /\ op'[k].at = op[k].at
    BY <1>1, <2>1, <2>3
  <2> QED  BY <2>4
<1>4. PICK w \in Workers : Attach(w) \/ RecordError(w) \/ Apply(w)
  BY <1>2, <1>3 DEF Acts, Step, CallProvider, ReconcileAttached, Crash,
     OperatorReconcile, Deliver, ProviderPaid, RenewalFails, RenewalPaid,
     SubscriptionEnds, SubscriptionMoves, ProviderReverses, Emits, db
<1> DEFINE j == worker[w].key
<1>5. /\ j \in Keys /\ op[j] \in Row
      /\ worker[w].pc = "failing" => worker[w].err \in {"busy", "conflict", "other"}
      /\ worker[w].pc = "apply" => worker[w].truth \in TruthType
  BY <1>1, <1>4 DEF Attach, RecordError, Apply, Rest, Requests, RequestOK,
                    RequestIn, Truths, TruthOK, TruthIn
<1>6. ASSUME NEW next \in States  PROVE
        Moved(op[j], next) \in Row /\ Moved(op[j], next).sub = op[j].sub
          /\ Moved(op[j], next).at = op[j].at
  BY <1>5, MovedType
<1>7. CASE Attach(w)
  <2>1. "processing" \in States  BY DEF States, Unresolved
  <2> DEFINE r == [Moved(op[j], "processing") EXCEPT !.ref = TRUE]
  <2>2. r.sub = op[j].sub /\ r.at = op[j].at  BY <1>6, <2>1 DEF Row
  <2>3. op' = op \/ op' = [op EXCEPT ![j] = r]  BY <1>7 DEF Attach
  <2> HIDE DEF r, j
  <2> QED  BY <1>1, <1>5, <2>2, <2>3
<1>8. CASE RecordError(w)
  <2> DEFINE next == StateAfter(worker[w].err)
  <2>1. next \in States
    BY <1>5, <1>8 DEF RecordError, StateAfter, States, Unresolved, Given
  <2>2. op' = op \/ op' = [op EXCEPT ![j] = Moved(op[j], next)]
    BY <1>8 DEF RecordError
  <2> HIDE DEF next, j
  <2> QED  BY <1>1, <1>5, <1>6, <2>1, <2>2
<1>9. CASE Apply(w)
  <2>1. worker[w].pc = "apply"  BY <1>9 DEF Apply
  <2>2. CASE ApplyReversal(w)
    <3> DEFINE next == Reversal[worker[w].event.kind]
    <3>1. next \in States  BY <2>2, ReversalType DEF ApplyReversal, States
    <3>2. op' = op \/ op' = [op EXCEPT ![j] = Moved(op[j], next)]
      BY <2>2 DEF ApplyReversal, Duplicate, Rollback, db
    <3> HIDE DEF next, j
    <3> QED  BY <1>1, <1>5, <1>6, <3>1, <3>2
  <2>3. CASE ApplyReconciliation(w)
    <3> DEFINE r == [Moved(op[j], "succeeded") EXCEPT !.sub = worker[w].truth.sub]
    <3>1. /\ Matches(worker[w].truth) /\ op' = [op EXCEPT ![j] = r]
      BY <1>2, <2>3 DEF ApplyReconciliation, Duplicate, Rollback, db
    <3>2. r.sub = "active" /\ r.at = op[j].at
      BY <1>6, <3>1 DEF Row, Matches, States, Paid
    <3> HIDE DEF r
    <3>3. j = k  BY <1>1, <1>5, <3>1
    <3>4. op'[k].sub = "active" /\ op'[k].at = op[k].at
      BY <1>1, <3>1, <3>2, <3>3
    <3> QED  BY <2>1, <2>3, <3>1, <3>3, <3>4
  <2>4. CASE ApplyLifecycle(w)
    <3> DEFINE e == worker[w].event
               state == AccessState(e.kind, worker[w].truth)
               r == [op[j] EXCEPT !.sub = state, !.at = e.at,
                                  !.version = op[j].version + 1]
    <3>1. InOrder(op[j], e, state) /\ op' = [op EXCEPT ![j] = r]
      BY <1>2, <2>4 DEF ApplyLifecycle, Duplicate, db
    <3>2. r.sub = state /\ r.at = e.at  BY <1>5 DEF Row
    <3> HIDE DEF r
    <3>3. j = k  BY <1>1, <1>5, <3>1
    <3>4. op'[k].sub = state /\ op'[k].at = e.at
      BY <1>1, <3>1, <3>2, <3>3
    <3> QED  BY <2>1, <2>4, <3>1, <3>3, <3>4
  <2> QED  BY <1>9, <2>2, <2>3, <2>4 DEF Apply
<1> QED  BY <1>4, <1>7, <1>8, <1>9

(* A subscription's newest event never gets older, and only an old truth    *)
(* undoes a cancellation.                                                   *)
THEOREM NoRewind == Spec => SubscriptionNeverRewinds
<1> DEFINE Undone(k) ==
      \E w \in Workers :
        /\ worker[w].pc = "apply" /\ Reconciles(w) /\ worker[w].key = k
        /\ worker[w].truth.sub = "active" /\ provider[k].sub = "canceled"
<1>1. ASSUME IndInv, [Next]_vars, NEW k \in Keys
      PROVE  /\ op'[k].at >= op[k].at
             /\ op[k].sub = "canceled" /\ op'[k].sub # "canceled" => Undone(k)
  <2>1. op[k] \in Row  BY <1>1, TypeIs DEF IndInv
  <2>2. op[k].at \in Nat  BY <2>1 DEF Row
  <2>3. op[k].sub = "canceled" => provider[k].sub = "canceled"
    BY <1>1 DEF IndInv, Recordings
  <2>4. CASE op'[k].sub = op[k].sub /\ op'[k].at = op[k].at
    BY <2>2, <2>4
  <2>5. CASE Next /\ (op'[k].sub # op[k].sub \/ op'[k].at # op[k].at)
    <3>1. PICK w \in Workers :
           /\ worker[w].pc = "apply" /\ worker[w].key = k
           /\ \/ /\ ApplyReconciliation(w) /\ Matches(worker[w].truth)
                 /\ op'[k].sub = "active" /\ op'[k].at = op[k].at
              \/ /\ ApplyLifecycle(w)
                 /\ InOrder(op[k], worker[w].event,
                            AccessState(worker[w].event.kind, worker[w].truth))
                 /\ op'[k].at = worker[w].event.at
                 /\ op'[k].sub =
                      AccessState(worker[w].event.kind, worker[w].truth)
      BY <1>1, <2>5, OnlyApplyMoves
    <3>2. CASE /\ ApplyReconciliation(w) /\ Matches(worker[w].truth)
               /\ op'[k].sub = "active" /\ op'[k].at = op[k].at
      <4>1. Reconciles(w) /\ worker[w].truth.sub = "active"
        BY <3>2 DEF ApplyReconciliation, Matches
      <4> QED  BY <2>2, <2>3, <3>1, <3>2, <4>1
    <3>3. CASE /\ ApplyLifecycle(w)
               /\ InOrder(op[k], worker[w].event,
                          AccessState(worker[w].event.kind, worker[w].truth))
               /\ op'[k].at = worker[w].event.at
               /\ op'[k].sub =
                    AccessState(worker[w].event.kind, worker[w].truth)
      <4>1. worker[w].event \in events /\ worker[w].event.at \in Nat
        <5>1. worker[w].event \in events
          BY <1>1, <3>1, <3>3 DEF IndInv, Truths, TruthOK, TruthIn, ApplyLifecycle
        <5> QED  BY <1>1, <5>1, TypeIs DEF IndInv, EventType
      <4>2. op'[k].at >= op[k].at  BY <2>2, <3>3, <4>1 DEF InOrder
      <4>3. op[k].sub = "canceled" => op'[k].sub = "canceled"
        BY <3>3 DEF InOrder, AccessState
      <4> QED  BY <4>2, <4>3
    <3> QED  BY <3>1, <3>2, <3>3
  <2>6. CASE UNCHANGED vars  BY <2>2, <2>6 DEF vars
  <2> QED  BY <1>1, <2>4, <2>5, <2>6
<1>2. ASSUME IndInv, [Next]_vars
      PROVE  [\A k \in Keys :
                /\ op'[k].at >= op[k].at
                /\ op[k].sub = "canceled" /\ op'[k].sub # "canceled" => Undone(k)
             ]_vars
  BY <1>1, <1>2
<1> QED
  BY <1>2, IndInit, IndStep, PTL DEF Spec, SubscriptionNeverRewinds

(* The refinement: what a step does to a row is a step of PaymentIntent.    *)
status == [k \in Keys |-> StatusOf(op[k])]

LEMMA StatusIs ==
  ASSUME NEW o, o.state \in States \cup {Absent}
  PROVE  /\ o.state = Absent <=> StatusOf(o) = "absent"
         /\ o.state \in Unresolved <=> StatusOf(o) = "open"
         /\ o.state = "succeeded" <=> StatusOf(o) = "paid"
         /\ o.state = "partially_refunded" <=> StatusOf(o) = "partly"
         /\ o.state \in {"refunded", "reversed", "chargeback"} <=>
              StatusOf(o) = "reversed"
         /\ o.state \in Given <=> StatusOf(o) = "closed"
  BY DEF StatusOf, States, Absent, Unresolved, Paid, Given

LEMMA SameStatus ==
  ASSUME NEW a, NEW b, a.state = b.state  PROVE StatusOf(a) = StatusOf(b)
  BY DEF StatusOf

LEMMA StatusMoves ==
  ASSUME TypeOK, NEW k \in Keys, NEW r, op' = [op EXCEPT ![k] = r]
  PROVE  status' = [status EXCEPT ![k] = StatusOf(r)]
<1>1. status' = [j \in Keys |-> StatusOf(op'[j])]  BY DEF status, StatusOf
<1>2. op'[k] = r /\ \A j \in Keys \ {k} : op'[j] = op[j]  BY TypeIs
<1>3. /\ status = [j \in Keys |-> StatusOf(op[j])]
      /\ [status EXCEPT ![k] = StatusOf(r)] =
           [j \in Keys |-> IF j = k THEN StatusOf(r) ELSE StatusOf(op[j])]
  BY DEF status
<1> QED  BY <1>1, <1>2, <1>3

LEMMA IntentStutters ==
  ASSUME op' = op, effects' = effects
  PROVE  UNCHANGED <<status, effects>>
  BY DEF status, StatusOf

LEMMA IntentKept ==
  ASSUME TypeOK, NEW k \in Keys, NEW r, op' = [op EXCEPT ![k] = r],
         StatusOf(r) = StatusOf(op[k]), effects' = effects
  PROVE  UNCHANGED <<status, effects>>
<1>1. status' = [status EXCEPT ![k] = StatusOf(op[k])]  BY StatusMoves
<1>2. status[k] = StatusOf(op[k]) /\ status = [j \in Keys |-> status[j]]
  BY DEF status
<1> QED  BY <1>1, <1>2

IntentStep == Intent!Next \/ UNCHANGED <<status, effects>>

LEMMA AttachRefines ==
  ASSUME IndInv, NEW w \in Workers, Attach(w)  PROVE IntentStep
<1> DEFINE k == worker[w].key
           r == [Moved(op[k], "processing") EXCEPT !.ref = TRUE]
<1>1. /\ TypeOK /\ k \in Keys /\ op[k].state \in States /\ op[k] \in Row
      /\ effects' = effects
  BY TypeIs DEF IndInv, Attach, Requests, RequestOK, RequestIn
<1>2. CASE op' = op  BY <1>1, <1>2, IntentStutters DEF IntentStep
<1>3. CASE CanMove(op[k], "processing") /\ op' = [op EXCEPT ![k] = r]
  <2>1. "processing" \in States /\ "processing" \in Unresolved
    BY DEF States, Unresolved
  <2>2. Moved(op[k], "processing") \in Row
          /\ Moved(op[k], "processing").state = "processing"
    BY <1>1, <2>1, MovedType
  <2>3. r.state = "processing"  BY <2>2 DEF Row
  <2>4. op[k].state \in Unresolved  BY <1>1, <1>3, IntoProcessing
  <2> HIDE DEF r, k
  <2>5. StatusOf(r) = StatusOf(op[k])
    BY <1>1, <2>1, <2>3, <2>4, StatusIs
  <2> QED  BY <1>1, <1>3, <2>5, IntentKept DEF IntentStep
<1> QED  BY <1>2, <1>3 DEF Attach

LEMMA RecordErrorRefines ==
  ASSUME IndInv, NEW w \in Workers, RecordError(w)  PROVE IntentStep
<1> DEFINE k == worker[w].key
           next == StateAfter(worker[w].err)
           r == Moved(op[k], next)
<1>1. /\ TypeOK /\ k \in Keys /\ op[k].state \in States /\ op[k] \in Row
      /\ effects' = effects
      /\ worker[w].err \in {"busy", "conflict", "other"}
  BY TypeIs DEF IndInv, RecordError, Requests, RequestOK, RequestIn
<1>2. CASE op' = op  BY <1>1, <1>2, IntentStutters DEF IntentStep
<1>3. CASE CanMove(op[k], next) /\ op' = [op EXCEPT ![k] = r]
  <2>1. next \in {"failed", "unknown", "reconciliation_required"}
    BY <1>1 DEF StateAfter
  <2>2. next \in States /\ (next = "failed" \/ next \in Unresolved)
          /\ "failed" \in Given
    BY <2>1 DEF States, Unresolved, Given
  <2>3. r.state = next  BY <1>1, <2>2, MovedType
  <2>4. op[k].state \in Unresolved \/ (op[k].state = "failed" /\ next = "failed")
    BY <1>1, <1>3, <2>1, IntoError
  <2>5. CASE op[k].state \in Unresolved /\ next = "failed"
    <3>1. StatusOf(op[k]) = "open" /\ StatusOf(r) = "closed"
      BY <1>1, <2>2, <2>3, <2>5, StatusIs
    <3>2. status' = [status EXCEPT ![k] = "closed"] /\ status[k] = "open"
      BY <1>1, <1>3, <3>1, StatusMoves DEF status
    <3>3. Intent!Close(k)  BY <1>1, <3>2 DEF Intent!Close, status
    <3> QED  BY <1>1, <3>3 DEF IntentStep, Intent!Next
  <2>6. CASE ~ (op[k].state \in Unresolved /\ next = "failed")
    <3>1. StatusOf(r) = StatusOf(op[k])
      BY <1>1, <2>2, <2>3, <2>4, <2>6, StatusIs
    <3> QED  BY <1>1, <1>3, <3>1, IntentKept DEF IntentStep
  <2> QED  BY <2>5, <2>6
<1> QED  BY <1>2, <1>3 DEF RecordError

LEMMA CheckoutRefines ==
  ASSUME IndInv, NEW w \in Workers, NEW k \in Keys, Checkout(w, k)
  PROVE  IntentStep
<1>1. TypeOK /\ op[k] \in Row /\ effects' = effects
  BY TypeIs DEF IndInv, Checkout
<1>2. CASE op[k].state # Absent
  BY <1>1, <1>2, IntentStutters DEF IntentStep, Checkout
<1>3. CASE op[k].state = Absent
  <2> DEFINE r == [op[k] EXCEPT !.state = "created", !.version = 1]
  <2>1. r.state = "created"  BY <1>1 DEF Row
  <2>2. "created" \in States /\ "created" \in Unresolved
    BY DEF States, Unresolved
  <2>3. /\ op' = [op EXCEPT ![k] = r]
        /\ ~ Busy(k)
    BY <1>3, StatesAre DEF Checkout
  <2> HIDE DEF r
  <2>4. StatusOf(r) = "open" /\ StatusOf(op[k]) = "absent"
    BY <1>3, <2>1, <2>2, StatusIs
  <2>5. ASSUME NEW j \in Keys, Interval[j] = Interval[k]
        PROVE  status[j] # "open"
    <3>1. op[j].state \in States \cup {Absent}  BY <1>1, TypeIs DEF Row
    <3>2. op[j].state \notin Unresolved  BY <2>3, <2>5 DEF Busy
    <3> QED  BY <3>1, <3>2, StatusIs DEF status
  <2>6. status' = [status EXCEPT ![k] = "open"] /\ status[k] = "absent"
    BY <1>1, <2>3, <2>4, StatusMoves DEF status
  <2>7. Intent!Open(k)  BY <1>1, <2>5, <2>6 DEF Intent!Open, status
  <2> QED  BY <2>7 DEF IntentStep, Intent!Next
<1> QED  BY <1>2, <1>3

LEMMA ApplyRefines ==
  ASSUME IndInv, NEW w \in Workers, Apply(w)  PROVE IntentStep
<1> DEFINE k == worker[w].key
<1>1. /\ TypeOK /\ k \in Keys /\ op[k].state \in States /\ op[k] \in Row
      /\ op[k].ref /\ op[k].state \in Referenced
  BY TypeIs DEF IndInv, Apply, Requests, RequestOK, RequestIn, References
<1>2. /\ op[k].state \notin Paid => effects[k] = {}
      /\ op[k].state = "succeeded" => effects[k] = {"payment_success"}
      /\ \A kind \in Negative :
           op[k].state = Reversal[kind] => {"payment_success", kind} \subseteq effects[k]
  BY <1>1 DEF IndInv, EffectsFollow
<1>3. CASE op' = op /\ effects' = effects
  BY <1>3, IntentStutters DEF IntentStep
<1>4. CASE ApplyReconciliation(w) /\ ~ (op' = op /\ effects' = effects)
  <2> DEFINE r == [Moved(op[k], "succeeded") EXCEPT !.sub = worker[w].truth.sub]
  <2>1. /\ CanMove(op[k], "succeeded") /\ Effect(k, "payment_success")
        /\ op' = [op EXCEPT ![k] = r]
    BY <1>4 DEF ApplyReconciliation, Duplicate, Rollback, db
  <2>2. op[k].state = "processing" \/ op[k].state = "succeeded"
    <3>1. op[k].state \in Unresolved \/ op[k].state = "succeeded"
      BY <1>1, <2>1, IntoSucceeded
    <3> QED  BY <1>1, <3>1 DEF Referenced, Unresolved, Paid
  <2>3. "succeeded" \in States  BY DEF States, Paid
  <2>4. r.state = "succeeded"
    <3>1. Moved(op[k], "succeeded") \in Row
            /\ Moved(op[k], "succeeded").state = "succeeded"
      BY <1>1, <2>3, MovedType
    <3> QED  BY <3>1 DEF Row
  <2> HIDE DEF r, k
  <2>5. /\ StatusOf(r) = "paid"
        /\ op[k].state = "processing" => StatusOf(op[k]) = "open"
        /\ op[k].state = "succeeded" => StatusOf(op[k]) = "paid"
    <3>1. "processing" \in Unresolved  BY DEF Unresolved
    <3> QED  BY <1>1, <2>3, <2>4, <3>1, StatusIs
  <2>6. effects' = [effects EXCEPT ![k] = effects[k] \cup {"payment_success"}]
    BY <2>1 DEF Effect
  <2>7. CASE op[k].state = "processing"
    <3>1. effects[k] = {}  BY <1>2, <2>7 DEF Paid
    <3>2. status' = [status EXCEPT ![k] = "paid"] /\ status[k] = "open"
      BY <1>1, <2>1, <2>5, <2>7, StatusMoves DEF status
    <3>3. effects' = [effects EXCEPT ![k] = {"payment_success"}]
      BY <2>6, <3>1
    <3>4. Intent!Pay(k)  BY <3>2, <3>3 DEF Intent!Pay, status
    <3> QED  BY <1>1, <3>4 DEF IntentStep, Intent!Next
  <2>8. CASE op[k].state = "succeeded"
    <3>1. effects[k] = {"payment_success"}  BY <1>2, <2>8
    <3>2. effects' = effects  BY <1>1, <2>6, <3>1, TypeIs
    <3> QED  BY <1>1, <2>1, <2>5, <2>8, <3>2, IntentKept DEF IntentStep
  <2> QED  BY <2>2, <2>7, <2>8
<1>5. CASE ApplyReversal(w) /\ ~ (op' = op /\ effects' = effects)
  <2> DEFINE kind == worker[w].event.kind
             next == Reversal[kind]
             r == Moved(op[k], next)
  <2>1. /\ CanMove(op[k], next) /\ Effect(k, kind) /\ kind \in Negative
        /\ op' = [op EXCEPT ![k] = r]
    BY <1>5 DEF ApplyReversal, Duplicate, Rollback, db
  <2>2. next \in States  BY <2>1, ReversalType DEF States
  <2>3. r.state = next  BY <1>1, <2>2, MovedType
  <2>4. \/ op[k].state = "succeeded"
        \/ op[k].state = "partially_refunded" /\ kind # "partial_refund"
        \/ op[k].state = next
    BY <1>1, <2>1, IntoReversal
  <2>5. StatusOf(r) = IF kind = "partial_refund" THEN "partly" ELSE "reversed"
    BY <2>1, <2>2, <2>3, ReversalIs, StatusIs
  <2>6. effects' = [effects EXCEPT ![k] = effects[k] \cup {kind}]
    BY <2>1 DEF Effect
  <2>7. CASE op[k].state = next
    <3>1. kind \in effects[k]  BY <1>2, <2>1, <2>7
    <3>2. effects' = effects  BY <1>1, <2>6, <3>1, TypeIs
    <3>3. StatusOf(r) = StatusOf(op[k])  BY <2>3, <2>7, SameStatus
    <3> HIDE DEF r
    <3> QED  BY <1>1, <2>1, <3>2, <3>3, IntentKept DEF IntentStep
  <2>8. CASE \/ op[k].state = "succeeded"
             \/ op[k].state = "partially_refunded" /\ kind # "partial_refund"
    <3>1. \/ StatusOf(op[k]) = "paid"
          \/ StatusOf(op[k]) = "partly" /\ kind # "partial_refund"
      BY <1>1, <2>8, StatusIs
    <3> HIDE DEF r, k, kind, next
    <3>2. /\ status' = [status EXCEPT ![k] =
                          IF kind = "partial_refund" THEN "partly" ELSE "reversed"]
          /\ status[k] = StatusOf(op[k])
      BY <1>1, <2>1, <2>5, StatusMoves DEF status
    <3>3. Intent!Reverse(k, kind)
      BY <2>6, <3>1, <3>2 DEF Intent!Reverse, status
    <3> QED  BY <1>1, <2>1, <3>3 DEF IntentStep, Intent!Next
  <2> QED  BY <2>4, <2>7, <2>8
<1>6. CASE ApplyLifecycle(w) /\ ~ (op' = op /\ effects' = effects)
  <2> DEFINE e == worker[w].event
             state == AccessState(e.kind, worker[w].truth)
             r == [op[k] EXCEPT !.sub = state, !.at = e.at,
                                !.version = op[k].version + 1]
  <2>1. op' = [op EXCEPT ![k] = r] /\ effects' = effects
    BY <1>6 DEF ApplyLifecycle, Duplicate, db
  <2>2. r.state = op[k].state  BY <1>1 DEF Row
  <2> HIDE DEF r, k
  <2>3. StatusOf(r) = StatusOf(op[k])  BY <2>2, SameStatus
  <2> QED  BY <1>1, <2>1, <2>3, IntentKept DEF IntentStep
<1> QED  BY <1>3, <1>4, <1>5, <1>6 DEF Apply

(* Every step of the handlers is a step of the intent, or leaves it as it   *)
(* is.                                                                      *)
LEMMA RefinesStep ==
  ASSUME IndInv, [Next]_vars  PROVE [Intent!Next]_(Intent!ivars)
<1>1. CASE UNCHANGED vars
  BY <1>1, IntentStutters DEF vars, Intent!ivars, status
<1>2. CASE Next
  <2>1. Acts  BY <1>2 DEF Next
  <2>2. CASE \E w \in Workers : Attach(w) \/ RecordError(w) \/ Apply(w)
    BY <2>2, AttachRefines, RecordErrorRefines, ApplyRefines
       DEF IntentStep, Intent!ivars, status
  <2>3. CASE \E w \in Workers, k \in Keys : Checkout(w, k)
    BY <2>3, CheckoutRefines DEF IntentStep, Intent!ivars, status
  <2>4. CASE op' = op /\ effects' = effects
    BY <2>4, IntentStutters DEF Intent!ivars, status
  <2> QED
    BY <2>1, <2>2, <2>3, <2>4 DEF Acts, Step, CallProvider, ReconcileAttached,
       Crash, OperatorReconcile, Deliver, ProviderPaid, RenewalFails,
       RenewalPaid, SubscriptionEnds, SubscriptionMoves, ProviderReverses,
       Emits, db
<1> QED  BY <1>1, <1>2

(* The operations of a user behave as PaymentIntent promises: one is open   *)
(* at a time of each interval, paid or closed once, reversed only if paid,  *)
(* and the ledger and entitlement effects are those of what became of it.   *)
THEOREM Refines == Spec => ImplementsPaymentIntent
<1>1. ASSUME Init  PROVE Intent!Init
  <2>1. \A k \in Keys : op[k].state = Absent  BY <1>1 DEF Init
  <2>2. \A k \in Keys : StatusOf(op[k]) = "absent"  BY <2>1, StatusIs
  <2> QED  BY <1>1, <2>2 DEF Init, Intent!Init
<1> QED
  BY <1>1, RefinesStep, IndInit, IndStep, PTL
  DEF Spec, ImplementsPaymentIntent, Intent!Spec

-----------------------------------------------------------------------------
(* What the users may rely on.                                              *)

(* An operation whose outcome is unknown has no reference of the provider's: *)
(* of those the operator's list holds, none can be asked about again.        *)
ListedIsUnattached ==
  \A k \in Keys :
    op[k].state \in {"unknown", "reconciliation_required"} => ~ op[k].ref

(* An error recorded late never leaves an operation that knows its session   *)
(* in one of the states that wait for an operator.                           *)
THEOREM UnknownIsUnattached == Spec => []ListedIsUnattached
<1>1. IndInv => ListedIsUnattached
  BY DEF IndInv, References, Referenced, Paid, ListedIsUnattached
<1> QED  BY <1>1, IndInit, IndStep, PTL DEF Spec

(* The ledger and the entitlements are those of the state of an operation:  *)
(* no payment without its effect, no effect without its payment, and no     *)
(* reversal that leaves its effect out.                                     *)
THEOREM EffectsMatch == Spec => []EffectsFollow
<1>1. IndInv => EffectsFollow  BY DEF IndInv
<1> QED  BY <1>1, IndInit, IndStep, PTL DEF Spec

(* What was bought stays bought: an operation that was paid is refunded,    *)
(* reversed or charged back at most, and its effects are only added to.     *)
PaidIsKept ==
  [][\A k \in Keys : op[k].state \in Paid =>
       op'[k].state \in Paid /\ effects[k] \subseteq effects'[k]]_vars

(* An intention that was paid stays so, and keeps its effects.              *)
LEMMA IntentIsKept ==
  ASSUME [Intent!Next]_(Intent!ivars), NEW k \in Keys,
         status[k] \in {"paid", "partly", "reversed"},
         effects \in [Keys -> SUBSET ({"payment_success"} \cup Negative)]
  PROVE  /\ status'[k] \in {"paid", "partly", "reversed"}
         /\ effects[k] \subseteq effects'[k]
<1>0. DOMAIN status = Keys  BY DEF status
<1>1. CASE status' = status /\ effects' = effects
  BY <1>1
<1>2. ASSUME NEW j \in Keys, NEW s,
             status' = [status EXCEPT ![j] = s], effects' = effects,
             status[j] \in {"absent", "open"}
      PROVE  status'[k] = status[k] /\ effects' = effects
  BY <1>0, <1>2
<1>3. ASSUME NEW j \in Keys, Intent!Open(j) \/ Intent!Close(j)
      PROVE  status'[k] = status[k] /\ effects' = effects
  <2>1. CASE Intent!Open(j)  BY <1>2, <2>1 DEF Intent!Open, status
  <2>2. CASE Intent!Close(j)  BY <1>2, <2>2 DEF Intent!Close, status
  <2> QED  BY <1>3, <2>1, <2>2
<1>4. ASSUME NEW j \in Keys, Intent!Pay(j)
      PROVE  status'[k] = status[k] /\ effects'[k] = effects[k]
  <2>1. /\ status[j] = "open" /\ status' = [status EXCEPT ![j] = "paid"]
        /\ effects' = [effects EXCEPT ![j] = {"payment_success"}]
    BY <1>4 DEF Intent!Pay, status
  <2> QED  BY <1>0, <2>1
<1>5. ASSUME NEW j \in Keys, NEW kind \in Negative, Intent!Reverse(j, kind)
      PROVE  /\ status'[k] \in {status[k], "partly", "reversed"}
             /\ effects[k] \subseteq effects'[k]
  <2>1. /\ \/ status' = [status EXCEPT ![j] = "partly"]
           \/ status' = [status EXCEPT ![j] = "reversed"]
        /\ effects' = [effects EXCEPT ![j] = effects[j] \cup {kind}]
    BY <1>5 DEF Intent!Reverse, status
  <2> QED  BY <1>0, <2>1
<1>6. UNCHANGED Intent!ivars => status' = status /\ effects' = effects
  BY DEF Intent!ivars, status
<1>7. CASE Intent!Next
  BY <1>3, <1>4, <1>5, <1>7 DEF Intent!Next
<1> QED  BY <1>1, <1>6, <1>7

(* No late error, stale truth or redelivered event takes a payment or one   *)
(* of its effects back: what PaymentIntent promises of a paid purchase,     *)
(* carried over to the rows.                                                *)
THEOREM PaymentsAreKept == Spec => PaidIsKept
<1>1. ASSUME IndInv, IndInv', [Intent!Next]_(Intent!ivars), NEW k \in Keys,
             op[k].state \in Paid
      PROVE  op'[k].state \in Paid /\ effects[k] \subseteq effects'[k]
  <2>1. /\ op[k] \in Row /\ op[k].state \in States \cup {Absent}
        /\ effects \in [Keys -> SUBSET ({"payment_success"} \cup Negative)]
    BY <1>1, TypeIs DEF IndInv, Row
  <2>2. op'[k].state \in States \cup {Absent}
    BY <1>1, TypeNextIs DEF IndInv, TypeNext, Row
  <2>3. status[k] = StatusOf(op[k]) /\ status'[k] = StatusOf(op'[k])
    BY DEF status, StatusOf
  <2>4. StatusOf(op[k]) \in {"paid", "partly", "reversed"}
    BY <1>1, <2>1, StatusIs DEF Paid
  <2>5. /\ StatusOf(op'[k]) \in {"paid", "partly", "reversed"}
        /\ effects[k] \subseteq effects'[k]
    BY <1>1, <2>1, <2>3, <2>4, IntentIsKept
  <2> QED  BY <2>2, <2>5, StatusIs DEF Paid
<1>2. ASSUME IndInv, IndInv', [Next]_vars
      PROVE  [\A k \in Keys : op[k].state \in Paid =>
                op'[k].state \in Paid /\ effects[k] \subseteq effects'[k]]_vars
  BY <1>1, <1>2, RefinesStep
<1> QED  BY <1>2, IndInit, IndStep, PTL DEF Spec, PaidIsKept

-----------------------------------------------------------------------------
(* The account of the operations that are given up.                        *)
Failed == {k \in Keys : op[k].state = "failed"}

(* The requests whose error, once recorded, gives an open operation up.    *)
Erring ==
  {w \in Workers : /\ worker[w].pc = "failing" /\ worker[w].err = "other"
                   /\ op[worker[w].key].state \in Unresolved}

Balanced ==
  /\ IsFiniteSet(Failed) /\ IsFiniteSet(Erring)
  /\ Cardinality(Failed) + Cardinality(Erring) <= faults

(* No row that was resolved is open again. *)
Settles ==
  \A k \in Keys : op[k].state \in States /\ op'[k].state \in Unresolved =>
    op[k].state \in Unresolved

(* A part of a finite set counts no more than the set.                     *)
LEMMA Fewer ==
  ASSUME NEW S, NEW T, IsFiniteSet(S), T \subseteq S
  PROVE  /\ IsFiniteSet(T) /\ Cardinality(T) \in Nat /\ Cardinality(S) \in Nat
         /\ Cardinality(T) <= Cardinality(S)
  BY FS_Subset, FS_CardinalityType

(* A set with a member taken out counts one less.                          *)
LEMMA OneLess ==
  ASSUME NEW S, NEW x \in S, NEW T, IsFiniteSet(S), T \subseteq S \ {x}
  PROVE  /\ IsFiniteSet(T) /\ Cardinality(T) \in Nat /\ Cardinality(S) \in Nat
         /\ Cardinality(T) + 1 <= Cardinality(S)
<1>1. /\ IsFiniteSet(S \ {x})
      /\ Cardinality(S \ {x}) = Cardinality(S) - 1
  BY FS_RemoveElement
<1> QED  BY <1>1, Fewer, FS_CardinalityType

(* A set with a member put in counts at most one more.                     *)
LEMMA OneMore ==
  ASSUME NEW S, NEW x, NEW T, IsFiniteSet(S), T \subseteq S \cup {x}
  PROVE  /\ IsFiniteSet(T) /\ Cardinality(T) \in Nat /\ Cardinality(S) \in Nat
         /\ Cardinality(T) <= Cardinality(S) + 1
<1>1. /\ IsFiniteSet(S \cup {x})
      /\ Cardinality(S \cup {x}) \in {Cardinality(S), Cardinality(S) + 1}
  BY FS_AddElement
<1>2. Cardinality(S) \in Nat
  BY FS_CardinalityType
<1> QED  BY <1>1, <1>2, Fewer

(* A worker that moves is the only one that may come to hold an error.     *)
LEMMA OthersErring ==
  ASSUME Requests, Settles, NEW w \in Workers,
         \A v \in Workers \ {w} : worker'[v] = worker[v]
  PROVE  Erring' \subseteq Erring \cup {w}
<1> SUFFICES ASSUME NEW v \in Erring', v # w
             PROVE  v \in Erring
  OBVIOUS
<1>1. /\ v \in Workers /\ worker'[v] = worker[v]
      /\ worker[v].pc = "failing" /\ worker[v].err = "other"
      /\ op'[worker[v].key].state \in Unresolved
  BY DEF Erring
<1>2. worker[v].key \in Keys /\ op[worker[v].key].state \in States
  BY <1>1 DEF Requests, RequestOK, RequestIn
<1> QED  BY <1>1, <1>2 DEF Erring, Settles

(* A step of a worker that comes to hold no error, and gives nothing up.   *)
LEMMA QuietBalance ==
  ASSUME TypeOK, Requests, Balanced, Settles, NEW w \in Workers,
         \A v \in Workers \ {w} : worker'[v] = worker[v],
         w \notin Erring' \/ worker'[w] = worker[w],
         Failed' \subseteq Failed, faults' \in {faults, faults + 1}
  PROVE  Balanced'
<1>1. Erring' \subseteq Erring
  <2>1. Erring' \subseteq Erring \cup {w}
    BY OthersErring
  <2>2. CASE w \notin Erring'
    BY <2>1, <2>2
  <2>3. CASE worker'[w] = worker[w]
    <3>1. ASSUME w \in Erring'
          PROVE  w \in Erring
      <4>1. /\ worker[w].pc = "failing" /\ worker[w].err = "other"
            /\ op'[worker[w].key].state \in Unresolved
        BY <2>3, <3>1 DEF Erring
      <4>2. worker[w].key \in Keys /\ op[worker[w].key].state \in States
        BY <4>1 DEF Requests, RequestOK, RequestIn
      <4> QED  BY <4>1, <4>2 DEF Erring, Settles
    <3> QED  BY <2>1, <3>1
  <2> QED  BY <2>2, <2>3
<1>2. /\ IsFiniteSet(Failed) /\ IsFiniteSet(Erring)
      /\ Cardinality(Failed) + Cardinality(Erring) <= faults /\ faults \in Int
  BY DEF Balanced, TypeOK
<1>3. /\ IsFiniteSet(Failed') /\ Cardinality(Failed') \in Nat
      /\ Cardinality(Failed) \in Nat /\ Cardinality(Failed') <= Cardinality(Failed)
  BY <1>2, Fewer
<1>4. /\ IsFiniteSet(Erring') /\ Cardinality(Erring') \in Nat
      /\ Cardinality(Erring) \in Nat /\ Cardinality(Erring') <= Cardinality(Erring)
  BY <1>1, <1>2, Fewer
<1>5. Cardinality(Failed') + Cardinality(Erring') <= faults'
  BY <1>2, <1>3, <1>4
<1> QED  BY <1>3, <1>4, <1>5 DEF Balanced

(* A step of a worker that comes to hold an error at the cost of a fault.  *)
LEMMA FaultBalance ==
  ASSUME TypeOK, Requests, Balanced, Settles, NEW w \in Workers,
         \A v \in Workers \ {w} : worker'[v] = worker[v],
         Failed' \subseteq Failed, faults' = faults + 1
  PROVE  Balanced'
<1>1. Erring' \subseteq Erring \cup {w}
  BY OthersErring
<1>2. /\ IsFiniteSet(Failed) /\ IsFiniteSet(Erring)
      /\ Cardinality(Failed) + Cardinality(Erring) <= faults /\ faults \in Int
  BY DEF Balanced, TypeOK
<1>3. /\ IsFiniteSet(Failed') /\ Cardinality(Failed') \in Nat
      /\ Cardinality(Failed) \in Nat /\ Cardinality(Failed') <= Cardinality(Failed)
  BY <1>2, Fewer
<1>4. /\ IsFiniteSet(Erring') /\ Cardinality(Erring') \in Nat
      /\ Cardinality(Erring) \in Nat /\ Cardinality(Erring') <= Cardinality(Erring) + 1
  BY <1>1, <1>2, OneMore
<1>5. Cardinality(Failed') + Cardinality(Erring') <= faults'
  BY <1>2, <1>3, <1>4
<1> QED  BY <1>3, <1>4, <1>5 DEF Balanced

(* Writing one row keeps the others settled.                               *)
LEMMA RowSettles ==
  ASSUME TypeOK, NEW k \in Keys, NEW r, op' = [op EXCEPT ![k] = r],
         op[k].state \in States /\ r.state \in Unresolved => op[k].state \in Unresolved
  PROVE  /\ Settles
         /\ r.state # "failed" \/ op[k].state = "failed" => Failed' \subseteq Failed
         /\ Failed' \subseteq Failed \cup {k}
<1>1. op'[k] = r /\ \A j \in Keys \ {k} : op'[j] = op[j]
  BY TypeIs
<1> QED  BY <1>1 DEF Settles, Failed

(* A step that leaves the rows alone settles nothing.                      *)
LEMMA SameSettles ==
  ASSUME op' = op
  PROVE  Settles /\ Failed' \subseteq Failed
  BY DEF Settles, Failed

(* Idle and observing workers hold no error.                               *)
LEMMA NoError ==
  ASSUME TypeOK, NEW w \in Workers, NEW d, worker' = [worker EXCEPT ![w] = d]
  PROVE  /\ worker'[w] = d
         /\ \A v \in Workers \ {w} : worker'[v] = worker[v]
         /\ d.pc # "failing" \/ d.err # "other" => w \notin Erring'
<1>1. /\ worker'[w] = d
      /\ \A v \in Workers \ {w} : worker'[v] = worker[v]
  BY TypeIs
<1>2. d.pc # "failing" \/ d.err # "other" => w \notin Erring'
  BY <1>1 DEF Erring
<1> QED  BY <1>1, <1>2

(* A checkout opens an operation, and gives none up. *)
LEMMA CheckoutBalance ==
  ASSUME TypeOK, Requests, Balanced, NEW w \in Workers, NEW k \in Keys,
         Checkout(w, k)
  PROVE  Balanced'
<1>1. faults' = faults
  BY DEF Checkout
<1>2. Settles /\ Failed' \subseteq Failed
  <2>1. CASE op' = op
    BY <2>1, SameSettles
  <2>2. CASE op' # op
    <3> DEFINE r == [op[k] EXCEPT !.state = "created", !.version = 1]
    <3>1. op' = [op EXCEPT ![k] = r] /\ op[k].state = Absent
      BY <2>2 DEF Checkout
    <3>2. r.state = "created"
      BY TypeIs DEF Row
    <3> HIDE DEF r
    <3> QED  BY <3>1, <3>2, RowSettles, StatesAre
  <2> QED  BY <2>1, <2>2
<1>3. \E d : worker' = [worker EXCEPT ![w] = d] /\ d.pc # "failing"
  <2> DEFINE a == [Idle EXCEPT !.pc = "call", !.key = k, !.version = 1]
             b == [Idle EXCEPT !.pc = "call", !.key = k, !.version = op[k].version]
             c == [Idle EXCEPT !.pc = "apply", !.key = k, !.event = None,
                               !.truth = provider[k]]
  <2>1. a.pc = "call" /\ b.pc = "call" /\ c.pc = "apply"
    BY DEF Idle
  <2>2. \/ worker' = [worker EXCEPT ![w] = a]
        \/ worker' = [worker EXCEPT ![w] = b]
        \/ worker' = [worker EXCEPT ![w] = c]
    BY DEF Checkout, Observes
  <2> HIDE DEF a, b, c
  <2> QED  BY <2>1, <2>2
<1> QED  BY <1>1, <1>2, <1>3, NoError, QuietBalance

(* An error of the provider call is a fault, but for a key held by another.  *)
LEMMA CallProviderBalance ==
  ASSUME TypeOK, Requests, Balanced, NEW w \in Workers, CallProvider(w)
  PROVE  Balanced'
<1>0. worker[w] \in Doing
  BY TypeIs
<1>1. Settles /\ Failed' \subseteq Failed
  BY SameSettles DEF CallProvider, db
<1>2. ASSUME NEW pc, NEW err,
             worker' = [worker EXCEPT ![w].pc = pc, ![w].err = err]
      PROVE  /\ \A v \in Workers \ {w} : worker'[v] = worker[v]
             /\ pc # "failing" \/ err # "other" => w \notin Erring'
  <2> DEFINE d == [worker[w] EXCEPT !.pc = pc, !.err = err]
  <2>1. d.pc = pc /\ d.err = err
    BY <1>0 DEF Doing
  <2>2. worker' = [worker EXCEPT ![w] = d]
    BY <1>2
  <2> HIDE DEF d
  <2> QED  BY <2>1, <2>2, NoError
<1>3. \/ /\ worker' = [worker EXCEPT ![w].pc = "attach", ![w].err = None]
         /\ faults' = faults
      \/ /\ \E err : worker' = [worker EXCEPT ![w].pc = "failing", ![w].err = err]
         /\ faults' = faults + 1
      \/ /\ worker' = [worker EXCEPT ![w].pc = "failing", ![w].err = "conflict"]
         /\ faults' = faults
  BY DEF CallProvider, Fault
<1>4. CASE faults' = faults /\ w \notin Erring'
           /\ \A v \in Workers \ {w} : worker'[v] = worker[v]
  BY <1>1, <1>4, QuietBalance
<1>5. CASE faults' = faults + 1 /\ \A v \in Workers \ {w} : worker'[v] = worker[v]
  BY <1>1, <1>5, FaultBalance
<1>6. CASE /\ worker' = [worker EXCEPT ![w].pc = "attach", ![w].err = None]
           /\ faults' = faults
  <2>1. "attach" # "failing"
    OBVIOUS
  <2> QED  BY <1>2, <1>4, <1>6, <2>1
<1>7. ASSUME NEW err, faults' = faults + 1,
             worker' = [worker EXCEPT ![w].pc = "failing", ![w].err = err]
      PROVE  Balanced'
  BY <1>2, <1>5, <1>7
<1>8. CASE /\ worker' = [worker EXCEPT ![w].pc = "failing", ![w].err = "conflict"]
           /\ faults' = faults
  <2> DEFINE d == [worker[w] EXCEPT !.pc = "failing", !.err = "conflict"]
  <2>1. d.err # "other"
    BY <1>0 DEF Doing
  <2>2. worker' = [worker EXCEPT ![w] = d]
    BY <1>8
  <2> HIDE DEF d
  <2>3. w \notin Erring' /\ \A v \in Workers \ {w} : worker'[v] = worker[v]
    BY <2>1, <2>2, NoError
  <2> QED  BY <1>4, <1>8, <2>3
<1> QED  BY <1>3, <1>6, <1>7, <1>8

(* An answer that cannot be recorded is a fault, or its row is resolved.    *)
LEMMA AttachBalance ==
  ASSUME TypeOK, Requests, Balanced, NEW w \in Workers, Attach(w)
  PROVE  Balanced'
<1> DEFINE k == worker[w].key
<1>1. /\ k \in Keys /\ op[k].state \in States /\ op[k] \in Row
      /\ worker[w] \in Doing
  BY TypeIs DEF Attach, Requests, RequestOK, RequestIn
<1>2. CASE /\ CanMove(op[k], "processing") /\ faults' = faults
           /\ op' = [op EXCEPT ![k] =
                       [Moved(op[k], "processing") EXCEPT !.ref = TRUE]]
           /\ worker' = [worker EXCEPT ![w] =
                           [Idle EXCEPT !.pc = "truth", !.key = k]]
  <2> DEFINE r == [Moved(op[k], "processing") EXCEPT !.ref = TRUE]
             d == [Idle EXCEPT !.pc = "truth", !.key = k]
  <2>1. op[k].state \in Unresolved
    BY <1>1, <1>2, IntoProcessing
  <2>2. "processing" \in States
    BY DEF States, Unresolved
  <2>3. Moved(op[k], "processing") \in Row
          /\ Moved(op[k], "processing").state = "processing"
    BY <1>1, <2>2, MovedType
  <2>4. r.state = "processing" /\ d.pc = "truth"
    BY <2>3 DEF Row, Idle
  <2>5. op' = [op EXCEPT ![k] = r] /\ worker' = [worker EXCEPT ![w] = d]
    BY <1>2
  <2> HIDE DEF r, d, k
  <2>6. Settles /\ Failed' \subseteq Failed
    BY <1>1, <2>1, <2>4, <2>5, RowSettles
  <2> QED  BY <1>2, <2>4, <2>5, <2>6, NoError, QuietBalance
<1>3. CASE /\ op' = op
           /\ worker' = [worker EXCEPT ![w] =
                           [worker[w] EXCEPT !.pc = "failing", !.err = "other"]]
           /\ IF CanMove(op[k], "processing") THEN Fault ELSE faults' = faults
  <2> DEFINE d == [worker[w] EXCEPT !.pc = "failing", !.err = "other"]
  <2>1. d.key = k
    BY <1>1 DEF Doing
  <2>2. worker' = [worker EXCEPT ![w] = d]
    BY <1>3
  <2> HIDE DEF d
  <2>3. worker'[w] = d /\ \A v \in Workers \ {w} : worker'[v] = worker[v]
    BY <2>2, NoError
  <2>4. Settles /\ Failed' \subseteq Failed
    BY <1>3, SameSettles
  <2>5. CASE CanMove(op[k], "processing")
    BY <1>3, <2>3, <2>4, <2>5, FaultBalance DEF Fault
  <2>6. CASE ~ CanMove(op[k], "processing")
    <3>1. op[k].state \notin Unresolved
      BY <2>6 DEF CanMove, allowed, Unresolved
    <3>2. w \notin Erring'
      BY <1>3, <2>1, <2>3, <3>1 DEF Erring
    <3> QED  BY <1>3, <2>3, <2>4, <2>6, <3>2, QuietBalance
  <2> QED  BY <2>5, <2>6
<1> QED  BY <1>2, <1>3 DEF Attach

(* An error that gives an open operation up was counted when it was held.  *)
LEMMA RecordErrorBalance ==
  ASSUME TypeOK, Requests, Balanced, NEW w \in Workers, RecordError(w)
  PROVE  Balanced'
<1> DEFINE k == worker[w].key
           next == StateAfter(worker[w].err)
<1>1. /\ k \in Keys /\ op[k].state \in States /\ op[k] \in Row
      /\ worker[w].pc = "failing"
      /\ worker[w].err \in {"busy", "conflict", "other"}
  BY TypeIs DEF RecordError, Requests, RequestOK, RequestIn
<1>2. /\ \A v \in Workers \ {w} : worker'[v] = worker[v]
      /\ w \notin Erring' /\ faults' = faults
  <2>1. worker' = [worker EXCEPT ![w] = Idle] /\ faults' = faults
    BY DEF RecordError, Throws, Ends
  <2>2. Idle.pc # "failing"
    BY DEF Idle
  <2> QED  BY <2>1, <2>2, NoError
<1>3. CASE op' = op
  BY <1>2, <1>3, SameSettles, QuietBalance
<1>4. CASE CanMove(op[k], next) /\ op' = [op EXCEPT ![k] = Moved(op[k], next)]
  <2> DEFINE r == Moved(op[k], next)
  <2>1. /\ next \in {"failed", "unknown", "reconciliation_required"}
        /\ next = "failed" <=> worker[w].err = "other"
    BY <1>1 DEF StateAfter
  <2>2. next \in States /\ "failed" \notin Unresolved
    BY <2>1 DEF States, Unresolved, Given
  <2>3. op[k].state \in Unresolved \/ (op[k].state = "failed" /\ next = "failed")
    BY <1>1, <1>4, <2>1, IntoError
  <2>4. r.state = next
    BY <1>1, <2>2, MovedType
  <2>5. op' = [op EXCEPT ![k] = r]
    BY <1>4
  <2> HIDE DEF r, next, k
  <2>6. /\ Settles /\ Failed' \subseteq Failed \cup {k}
        /\ r.state # "failed" \/ op[k].state = "failed" => Failed' \subseteq Failed
    BY <1>1, <2>2, <2>3, <2>4, <2>5, RowSettles
  <2>7. CASE next # "failed" \/ op[k].state = "failed"
    BY <1>2, <2>4, <2>6, <2>7, QuietBalance
  <2>8. CASE next = "failed" /\ op[k].state # "failed"
    <3>1. w \in Erring
      BY <1>1, <2>1, <2>3, <2>8 DEF Erring, k
    <3>2. Erring' \subseteq Erring \ {w}
      BY <1>2, <2>6, OthersErring
    <3>3. /\ IsFiniteSet(Failed) /\ IsFiniteSet(Erring)
          /\ Cardinality(Failed) + Cardinality(Erring) <= faults /\ faults \in Int
      BY DEF Balanced, TypeOK
    <3>4. /\ IsFiniteSet(Failed') /\ Cardinality(Failed') \in Nat
          /\ Cardinality(Failed) \in Nat
          /\ Cardinality(Failed') <= Cardinality(Failed) + 1
      BY <2>6, <3>3, OneMore
    <3>5. /\ IsFiniteSet(Erring') /\ Cardinality(Erring') \in Nat
          /\ Cardinality(Erring) \in Nat
          /\ Cardinality(Erring') + 1 <= Cardinality(Erring)
      BY <3>1, <3>2, <3>3, OneLess
    <3>6. Cardinality(Failed') + Cardinality(Erring') <= faults'
      BY <1>2, <3>3, <3>4, <3>5
    <3> QED  BY <3>4, <3>5, <3>6 DEF Balanced
  <2> QED  BY <2>7, <2>8
<1> QED  BY <1>3, <1>4 DEF RecordError

(* A transaction that applies a truth gives nothing up.                    *)
LEMMA ApplyBalance ==
  ASSUME TypeOK, Requests, Balanced, NEW w \in Workers, Apply(w)
  PROVE  Balanced'
<1> DEFINE k == worker[w].key
<1>1. /\ k \in Keys /\ op[k].state \in States /\ op[k] \in Row
  BY TypeIs DEF Apply, Requests, RequestOK, RequestIn
<1>2. /\ \A v \in Workers \ {w} : worker'[v] = worker[v]
      /\ w \notin Erring' /\ faults' = faults
  <2>1. worker' = [worker EXCEPT ![w] = Idle] /\ faults' = faults
    BY DEF Apply, ApplyReconciliation, ApplyReversal, ApplyLifecycle,
           Duplicate, Rollback, Acks, Throws, Ends
  <2>2. Idle.pc # "failing"
    BY DEF Idle
  <2> QED  BY <2>1, <2>2, NoError
<1>3. ASSUME NEW r, op' = [op EXCEPT ![k] = r],
             r.state \in Paid \/ r.state = op[k].state
      PROVE  Settles /\ Failed' \subseteq Failed
  <2>1. r.state \in Paid => r.state \notin Unresolved /\ r.state # "failed"
    BY DEF Paid, Unresolved
  <2> HIDE DEF k
  <2> QED  BY <1>1, <1>3, <2>1, RowSettles
<1>4. Settles /\ Failed' \subseteq Failed
  <2>1. CASE op' = op
    BY <2>1, SameSettles
  <2>2. CASE ApplyReconciliation(w) /\ op' # op
    <3> DEFINE r == [Moved(op[k], "succeeded") EXCEPT !.sub = worker[w].truth.sub]
    <3>1. op' = [op EXCEPT ![k] = r]
      BY <2>2 DEF ApplyReconciliation, Duplicate, Rollback, db
    <3>2. "succeeded" \in States /\ "succeeded" \in Paid
      BY DEF States, Paid
    <3>3. Moved(op[k], "succeeded") \in Row
            /\ Moved(op[k], "succeeded").state = "succeeded"
      BY <1>1, <3>2, MovedType
    <3>4. r.state = "succeeded"
      BY <3>3 DEF Row
    <3> HIDE DEF r, k
    <3> QED  BY <1>3, <3>1, <3>2, <3>4
  <2>3. CASE ApplyReversal(w) /\ op' # op
    <3> DEFINE kind == worker[w].event.kind
               r == Moved(op[k], Reversal[kind])
    <3>1. op' = [op EXCEPT ![k] = r] /\ kind \in Negative
      BY <2>3 DEF ApplyReversal, Duplicate, Rollback, db
    <3>2. Reversal[kind] \in Paid /\ Reversal[kind] \in States
      BY <3>1, ReversalType, StatesAre
    <3>3. r.state = Reversal[kind]
      BY <1>1, <3>2, MovedType
    <3> HIDE DEF r, k, kind
    <3> QED  BY <1>3, <3>1, <3>2, <3>3
  <2>4. CASE ApplyLifecycle(w) /\ op' # op
    <3> DEFINE e == worker[w].event
               state == AccessState(e.kind, worker[w].truth)
               r == [op[k] EXCEPT !.sub = state, !.at = e.at,
                                  !.version = op[k].version + 1]
    <3>1. op' = [op EXCEPT ![k] = r]
      BY <2>4 DEF ApplyLifecycle, Duplicate, db
    <3>2. r.state = op[k].state
      BY <1>1 DEF Row
    <3> HIDE DEF r, k
    <3> QED  BY <1>3, <3>1, <3>2
  <2> QED  BY <2>1, <2>2, <2>3, <2>4 DEF Apply
<1> QED  BY <1>2, <1>4, QuietBalance

(* Every step keeps the account.                                           *)
LEMMA BalanceStep ==
  ASSUME IndInv, Balanced, [Next]_vars
  PROVE  Balanced'
<1>0. TypeOK /\ Requests
  BY DEF IndInv
<1>1. ASSUME op' = op, NEW w \in Workers, NEW d, d.pc # "failing",
             worker' = [worker EXCEPT ![w] = d], faults' \in {faults, faults + 1}
      PROVE  Balanced'
  BY <1>0, <1>1, NoError, SameSettles, QuietBalance
<1>2. ASSUME op' = op, worker' = worker, faults' \in {faults, faults + 1}
      PROVE  Balanced'
  <2>1. Failed' = Failed /\ Erring' = Erring
    BY <1>2 DEF Failed, Erring
  <2>2. /\ Cardinality(Failed) \in Nat /\ Cardinality(Erring) \in Nat
        /\ faults \in Int
    BY <1>0, FS_CardinalityType DEF Balanced, TypeOK
  <2> QED  BY <1>2, <2>1, <2>2 DEF Balanced
<1>3. ASSUME NEW w \in Workers, NEW k, NEW e, Observes(w, k, e), op' = op,
             faults' \in {faults, faults + 1}
      PROVE  Balanced'
  <2> DEFINE d == [Idle EXCEPT !.pc = "apply", !.key = k, !.event = e,
                               !.truth = provider[k]]
  <2>1. d.pc = "apply" /\ worker' = [worker EXCEPT ![w] = d]
    BY <1>3 DEF Idle, Observes
  <2> HIDE DEF d
  <2> QED  BY <1>1, <1>3, <2>1
<1>4. ASSUME NEW w \in Workers, Ends(w), op' = op, faults' \in {faults, faults + 1}
      PROVE  Balanced'
  <2>1. Idle.pc # "failing" /\ worker' = [worker EXCEPT ![w] = Idle]
    BY <1>4 DEF Idle, Ends
  <2> QED  BY <1>1, <1>4, <2>1
<1>5. ASSUME NEW w \in Workers, ReconcileAttached(w) \/ Crash(w)
      PROVE  Balanced'
  <2>1. /\ op' = op /\ faults' \in {faults, faults + 1}
        /\ Observes(w, worker[w].key, None) \/ Ends(w)
    BY <1>5 DEF ReconcileAttached, Crash, Throws, Fault, db
  <2> QED  BY <1>3, <1>4, <2>1
<1>6. ASSUME NEW w \in Workers, NEW k \in Keys, OperatorReconcile(w, k)
      PROVE  Balanced'
  BY <1>3, <1>6 DEF OperatorReconcile, db
<1>7. ASSUME NEW w \in Workers, NEW e \in events, Deliver(w, e)
      PROVE  Balanced'
  <2>1. /\ op' = op /\ faults' \in {faults, faults + 1}
        /\ Observes(w, e.key, e) \/ worker' = worker
    BY <1>7 DEF Deliver, Fault, db
  <2> QED  BY <1>2, <1>3, <2>1
<1>8. ASSUME NEW k \in Keys,
             \/ ProviderPaid(k) \/ RenewalFails(k) \/ RenewalPaid(k)
             \/ SubscriptionEnds(k)
             \/ \E kind \in Reverses : ProviderReverses(k, kind)
      PROVE  Balanced'
  <2>1. op' = op /\ worker' = worker /\ faults' = faults
    BY <1>8 DEF ProviderPaid, RenewalFails, RenewalPaid, SubscriptionEnds,
                SubscriptionMoves, ProviderReverses, Emits, db
  <2> QED  BY <1>2, <2>1
<1>9. CASE UNCHANGED vars
  BY <1>2, <1>9 DEF vars
<1>10. CASE Next
  <2>1. ASSUME NEW w \in Workers, Step(w)
        PROVE  Balanced'
    BY <1>0, <1>5, <2>1, CallProviderBalance, AttachBalance, RecordErrorBalance,
       ApplyBalance DEF Step
  <2>2. ASSUME NEW w \in Workers, NEW k \in Keys, Checkout(w, k)
        PROVE  Balanced'
    BY <1>0, <2>2, CheckoutBalance
  <2> QED  BY <1>5, <1>6, <1>7, <1>8, <1>10, <2>1, <2>2 DEF Next, Acts
<1> QED  BY <1>9, <1>10

(* An operation is given up, while its user may still pay the provider's   *)
(* session, only after an answer was lost: requests for the same operation *)
(* never do that to each other.                                            *)
THEOREM AbandonsNeedFaults == Spec => []AbandonedNeedsFault
<1>1. Init => Balanced
  <2> SUFFICES ASSUME Init
               PROVE  Balanced
    OBVIOUS
  <2>1. Failed = {} /\ Erring = {} /\ faults = 0
    BY DEF Init, Failed, Erring, Absent, Idle
  <2> QED  BY <2>1, FS_EmptySet DEF Balanced
<1>2. IndInv /\ Balanced /\ [Next]_vars => Balanced'
  BY BalanceStep
<1>3. IndInv /\ Balanced => AbandonedNeedsFault
  <2> SUFFICES ASSUME IndInv, Balanced
               PROVE  AbandonedNeedsFault
    OBVIOUS
  <2> DEFINE T == {k \in Keys : /\ op[k].state = "failed"
                               /\ provider[k].session # "none"}
  <2>1. /\ IsFiniteSet(Failed) /\ IsFiniteSet(Erring) /\ faults \in Int
        /\ Cardinality(Failed) + Cardinality(Erring) <= faults
    BY DEF IndInv, Balanced, TypeOK
  <2>2. T \subseteq Failed
    BY DEF Failed
  <2> HIDE DEF T
  <2>3. Cardinality(T) <= Cardinality(Failed) /\ Cardinality(T) \in Nat
        /\ Cardinality(Failed) \in Nat /\ Cardinality(Erring) \in Nat
    BY <2>1, <2>2, Fewer, FS_CardinalityType
  <2>4. Cardinality(T) <= faults
    BY <2>1, <2>3
  <2> QED  BY <2>4 DEF AbandonedNeedsFault, T
<1> QED  BY <1>1, <1>2, <1>3, IndInit, IndStep, PTL DEF Spec
=============================================================================
