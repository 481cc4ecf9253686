---------------------- MODULE NotificationDispatchProofs ----------------------
(***************************************************************************)
(* Theorems about NotificationDispatch for every set of items and          *)
(* dispatchers, every lease, delay and threshold, and any number of faults.*)
(***************************************************************************)
EXTENDS NotificationDispatch, TLAPS, FiniteSetTheorems

-----------------------------------------------------------------------------
(* The inductive invariant, in named parts.                                *)

(* The variables of a call fit the statement it has come to. *)
Shaped(c) ==
  /\ c.step \in {"idle", "read"} => c.item = None
  /\ c.step = "idle" => c.todo = {}
  /\ c.step \in {"send", "save", "mark"} => c.item \in c.todo
  /\ c.step \in {"save", "mark"} => c.outcome \in Outcomes

CallShape == \A p \in Dispatchers : Shaped(call[p])

(* Exactly the rows being dispatched are held. *)
RowShape ==
  \A i \in Items : row[i].holder # None <=> row[i].status = "dispatching"

(* A generation only grows, a claim is handed out of a staged row with     *)
(* attempts left, and the fence accepts it only while no attempt has been counted since.      *)
Fence ==
  \A p \in Dispatchers : \A i \in call[p].todo :
    /\ call[p].claim[i].gen <= row[i].gen
    /\ call[p].claim[i].attempts < MaxAttempts
    /\ row[i].status # "absent"
    /\ Owns(p, i) => row[i].attempts = call[p].claim[i].attempts

(* An attempt names a generation that was handed out, and a success or an  *)
(* ambiguity a send. *)
Ledger ==
  \A i \in Items : \A a \in audit[i] :
    /\ a.gen <= row[i].gen
    /\ a.outcome \in {"success", "ambiguous"} => sends[i] > 0

(* What stands behind the outcome a call carries. *)
Attested(p) ==
  LET i == call[p].item IN
  \/ [gen |-> call[p].claim[i].gen, outcome |-> call[p].outcome] \in audit[i]
  \/ /\ call[p].outcome \in {"success", "ambiguous"}
     /\ Recorded(i, call[p].outcome)

Progress ==
  \A p \in Dispatchers :
    /\ call[p].step = "save" /\ call[p].outcome # "permanent" =>
         sends[call[p].item] > 0
    /\ call[p].step = "mark" => Attested(p)

(* A row whose lease never ran out under its owner is in the batch of that *)
(* owner only. *)
Leases ==
  \A p \in Dispatchers : \A i \in call[p].todo :
    i \notin overrun => Owns(p, i) /\ row[i].expiresIn > 0

Sent(i) == Recorded(i, "success") \/ Recorded(i, "ambiguous")

(* Such a row, once a send is recorded, has it as its latest attempt, and  *)
(* whoever works on the row is about to close it. *)
Reconciled ==
  \A i \in Items : i \notin overrun /\ Sent(i) =>
    /\ Prior(i) # {}
    /\ \A p \in Dispatchers : call[p].item = i => call[p].step = "mark"

IndInv ==
  /\ TypeOK
  /\ CallShape
  /\ RowShape
  /\ Fence
  /\ AttemptsBounded
  /\ Ledger
  /\ Progress
  /\ ClosedRowsAccounted
  /\ Leases
  /\ Reconciled

USE DispatchersAssumption, ItemsAssumption, AttemptsAssumption,
    DurationsAssumption, BoundsAssumption

-----------------------------------------------------------------------------
(* The rows and calls that the operators of the model build are well typed.*)
LEMMA ClaimedType ==
  ASSUME NEW r \in Row, NEW p \in Dispatchers
  PROVE  Claimed(r, p) \in Row
  BY DEF Claimed, Row, Statuses

(* A settled row is a row.                                                 *)
LEMMA SettledType ==
  ASSUME NEW r \in Row, NEW status \in Statuses, NEW wait \in Nat
  PROVE  Settled(r, status, wait) \in Row
  BY DEF Settled, Row

(* A row that the clock has passed over is still a row.                    *)
LEMMA WaitedType ==
  ASSUME NEW r \in Row
  PROVE  [r EXCEPT !.availableIn = Earlier(@), !.expiresIn = Earlier(@)] \in Row
<1>1. Earlier(r.availableIn) \in Nat /\ Earlier(r.expiresIn) \in Nat
  BY DEF Row, Earlier
<1> QED  BY <1>1 DEF Row

(* The state of a dispatcher between calls is a call.                      *)
LEMMA IdleCallType == IdleCall \in Call
<1>1. [i \in Items |-> NoClaim] \in [Items -> [gen : Nat, attempts : Nat]]
  BY DEF NoClaim
<1> QED  BY <1>1 DEF IdleCall, Call, Steps

(* The fields of a call and of a row have their types.                     *)
LEMMA Fields ==
  ASSUME TypeOK
  PROVE  /\ \A p \in Dispatchers :
              /\ call[p] \in Call
              /\ call[p].todo \in SUBSET Items
              /\ call[p].item \in Items \cup {None}
              /\ call[p].outcome \in Outcomes \cup {None}
              /\ call[p].claim \in [Items -> [gen : Nat, attempts : Nat]]
              /\ call[p].elapsed \in Nat
         /\ \A i \in Items :
              /\ row[i] \in Row
              /\ row[i].attempts \in Nat
              /\ row[i].gen \in Nat
              /\ row[i].availableIn \in Nat
              /\ row[i].expiresIn \in Nat
              /\ row[i].holder \in Dispatchers \cup {None}
              /\ row[i].status \in Statuses
  BY DEF TypeOK, Call, Row

(* A call that has reached send, save or mark has an item of its batch in  *)
(* hand. *)
LEMMA ItemInHand ==
  ASSUME TypeOK, CallShape, NEW p \in Dispatchers,
         call[p].step \in {"send", "save", "mark"}
  PROVE  call[p].item \in Items /\ call[p].item \in call[p].todo
  BY Fields DEF CallShape, Shaped

(* Moving a call to another statement leaves a call.                       *)
LEMMA GoToType ==
  ASSUME TypeOK, NEW p \in Dispatchers, NEW step \in Steps,
         NEW item \in Items \cup {None}, NEW outcome \in Outcomes \cup {None},
         GoTo(p, step, item, outcome)
  PROVE  call' \in [Dispatchers -> Call]
<1>1. [step |-> step, todo |-> call[p].todo, item |-> item,
       outcome |-> outcome, claim |-> call[p].claim,
       elapsed |-> call[p].elapsed] \in Call
  BY Fields DEF Call
<1> QED  BY <1>1 DEF GoTo, TypeOK

(* Moving a call to the next item of its batch leaves a call.              *)
LEMMA NextItemType ==
  ASSUME TypeOK, NEW p \in Dispatchers, NextItem(p)
  PROVE  call' \in [Dispatchers -> Call]
<1> DEFINE left == call[p].todo \ {call[p].item}
<1>1. [step |-> "read", todo |-> left, item |-> None, outcome |-> None,
       claim |-> call[p].claim, elapsed |-> call[p].elapsed] \in Call
  BY Fields DEF Call, Steps
<1> QED  BY <1>1, IdleCallType DEF NextItem, TypeOK

(* The delay before a retry is a natural number.                           *)
LEMMA RetryDelayType ==
  ASSUME TypeOK, NEW p \in Dispatchers, NEW n \in Nat \ {0}
  PROVE  RetryDelay(p, n) \in Nat
<1> DEFINE unit == IF call[p].outcome = "rate_limited" THEN RateLimitUnit
                   ELSE BackoffUnit
           m == IF n > 6 THEN 6 ELSE n
           doubled == Doubled[m]
           product == unit * doubled
           left == product - call[p].elapsed
<1>1. unit \in Nat
  OBVIOUS
<1>2. m \in 1..6
  OBVIOUS
<1>3. doubled \in Nat
  <2> HIDE DEF m
  <2> QED  BY <1>2 DEF Doubled
<1> HIDE DEF unit, doubled
<1>4. product \in Nat
  BY <1>1, <1>3
<1> HIDE DEF product
<1>5. left \in Int
  BY <1>4, Fields
<1> HIDE DEF left
<1>6. (IF left > 0 THEN left ELSE 0) \in Nat
  BY <1>5
<1> QED  BY <1>6 DEF RetryDelay, left, product, doubled, unit

(* What an outcome makes of the row, one case each.                        *)
LEMMA ClosedRowCases ==
  ASSUME TypeOK, NEW p \in Dispatchers, NEW i \in Items,
         call[p].outcome \in Outcomes
  PROVE  LET n == call[p].claim[i].attempts + 1
             r == ClosedRow(p, i)
         IN /\ r \in Row
            /\ r.attempts = row[i].attempts + 1
            /\ r.gen = row[i].gen
            /\ r.holder = None
            /\ r.expiresIn = 0
            /\ \/ r.status = "delivered" /\ call[p].outcome = "success"
               \/ r.status = "ambiguous" /\ call[p].outcome = "ambiguous"
               \/ r.status = "dead" /\ call[p].outcome = "permanent"
               \/ /\ r.status = "dead"
                  /\ call[p].outcome \in Retryable
                  /\ n >= MaxAttempts
               \/ /\ r.status = "failed"
                  /\ call[p].outcome \in Retryable
                  /\ n < MaxAttempts
<1> DEFINE n == call[p].claim[i].attempts + 1
           outcome == call[p].outcome
           close(status) == Settled(row[i], status, row[i].availableIn)
           retry == Settled(row[i], "failed", RetryDelay(p, n))
<1>1. n \in Nat \ {0}
  BY Fields
<1>2. RetryDelay(p, n) \in Nat
  BY <1>1, RetryDelayType
<1>3. /\ close("delivered") \in Row
      /\ close("ambiguous") \in Row
      /\ close("dead") \in Row
      /\ retry \in Row
  BY <1>2, Fields, SettledType DEF Statuses
<1>4. \A status \in Statuses, wait \in Nat :
        LET r == Settled(row[i], status, wait) IN
        /\ r.status = status
        /\ r.attempts = row[i].attempts + 1
        /\ r.gen = row[i].gen
        /\ r.holder = None
        /\ r.expiresIn = 0
  BY DEF Settled
<1>5. CASE outcome = "success"
  <2>1. ClosedRow(p, i) = close("delivered")
    BY <1>5 DEF ClosedRow, Retryable
  <2> QED  BY <1>3, <1>4, <1>5, <2>1, Fields DEF Statuses
<1>6. CASE outcome = "ambiguous"
  <2>1. ClosedRow(p, i) = close("ambiguous")
    BY <1>6 DEF ClosedRow, Retryable
  <2> QED  BY <1>3, <1>4, <1>6, <2>1, Fields DEF Statuses
<1>7. CASE outcome = "permanent"
  <2>1. ClosedRow(p, i) = close("dead")
    BY <1>7 DEF ClosedRow
  <2> QED  BY <1>3, <1>4, <1>7, <2>1, Fields DEF Statuses
<1>8. CASE outcome \in Retryable /\ n >= MaxAttempts
  <2>1. ClosedRow(p, i) = close("dead")
    BY <1>8 DEF ClosedRow, Retryable
  <2> QED  BY <1>3, <1>4, <1>8, <2>1, Fields DEF Statuses
<1>9. CASE outcome \in Retryable /\ n < MaxAttempts
  <2>1. ClosedRow(p, i) = retry
    BY <1>1, <1>9 DEF ClosedRow, Retryable
  <2>2. "failed" \in Statuses
    BY DEF Statuses
  <2> HIDE DEF retry
  <2>3. /\ retry.status = "failed"
        /\ retry.attempts = row[i].attempts + 1
        /\ retry.gen = row[i].gen
        /\ retry.holder = None
        /\ retry.expiresIn = 0
    BY <1>2, <1>4, <2>2 DEF retry
  <2> QED  BY <1>3, <1>9, <2>1, <2>3
<1>10. outcome \in Retryable \/ outcome \in {"success", "ambiguous", "permanent"}
  BY DEF Outcomes, Retryable
<1> QED  BY <1>1, <1>5, <1>6, <1>7, <1>8, <1>9, <1>10

-----------------------------------------------------------------------------
(* What a step of p does to its call unless it claims.                     *)
Advances(p) ==
  /\ call' \in [Dispatchers -> Call]
  /\ \A q \in Dispatchers \ {p} : call'[q] = call[q]
  /\ call'[p].todo \subseteq call[p].todo
  /\ \A j \in call'[p].todo : call'[p].claim[j] = call[p].claim[j]
  /\ Shaped(call'[p])

(* A statement is done and the call goes to the next one.                  *)
LEMMA GoToAdvances ==
  ASSUME TypeOK, NEW p \in Dispatchers, NEW step \in {"send", "save", "mark"},
         NEW item \in call[p].todo, NEW outcome \in Outcomes \cup {None},
         step \in {"save", "mark"} => outcome \in Outcomes,
         GoTo(p, step, item, outcome)
  PROVE  /\ Advances(p)
         /\ call'[p].step = step
         /\ call'[p].item = item
         /\ call'[p].outcome = outcome
         /\ call'[p].claim = call[p].claim
<1>1. item \in Items
  BY Fields
<1>2. call' \in [Dispatchers -> Call]
  BY <1>1, GoToType DEF Steps
<1>3. call'[p] = [step |-> step, todo |-> call[p].todo, item |-> item,
                  outcome |-> outcome, claim |-> call[p].claim,
                  elapsed |-> call[p].elapsed]
  BY DEF GoTo, TypeOK
<1>4. \A q \in Dispatchers \ {p} : call'[q] = call[q]
  BY DEF GoTo, TypeOK
<1> QED  BY <1>2, <1>3, <1>4 DEF Advances, Shaped

(* The item in hand is done with, and with the last one the call.          *)
LEMMA NextItemAdvances ==
  ASSUME TypeOK, NEW p \in Dispatchers, NextItem(p)
  PROVE  /\ Advances(p)
         /\ call'[p].step \in {"idle", "read"}
         /\ call'[p].item = None
         /\ call[p].item \notin call'[p].todo
<1> DEFINE left == call[p].todo \ {call[p].item}
<1>1. call' \in [Dispatchers -> Call]
  BY NextItemType
<1>2. call'[p] = IF left = {} THEN IdleCall
                 ELSE [step |-> "read", todo |-> left, item |-> None,
                       outcome |-> None, claim |-> call[p].claim,
                       elapsed |-> call[p].elapsed]
  BY DEF NextItem, TypeOK
<1>3. \A q \in Dispatchers \ {p} : call'[q] = call[q]
  BY DEF NextItem, TypeOK
<1> QED  BY <1>1, <1>2, <1>3 DEF Advances, Shaped, IdleCall

(* The call ends.                                                          *)
LEMMA IdleAdvances ==
  ASSUME TypeOK, NEW p \in Dispatchers,
         call' = [call EXCEPT ![p] = IdleCall]
  PROVE  /\ Advances(p)
         /\ call'[p].step = "idle"
         /\ call'[p].item = None
<1>1. call' \in [Dispatchers -> Call]
  BY IdleCallType DEF TypeOK
<1> QED  BY <1>1 DEF Advances, Shaped, IdleCall, TypeOK

-----------------------------------------------------------------------------
(* A step of a call that leaves the rows alone keeps what relates the calls*)
(* to the rows. *)
LEMMA AdvanceStep ==
  ASSUME IndInv, NEW p \in Dispatchers, Advances(p), row' = row,
         overrun' = overrun
  PROVE  /\ CallShape'
         /\ RowShape'
         /\ Fence'
         /\ AttemptsBounded'
         /\ Leases'
<1>1. ASSUME NEW q \in Dispatchers, NEW i \in call'[q].todo
      PROVE  i \in call[q].todo /\ call'[q].claim[i] = call[q].claim[i]
  BY DEF Advances
<1>2. CallShape'
  BY DEF CallShape, Shaped, Advances, IndInv
<1>3. RowShape' /\ AttemptsBounded'
  BY DEF RowShape, AttemptsBounded, IndInv
<1>4. Fence'
  BY <1>1 DEF Fence, Owns, IndInv
<1>5. Leases'
  BY <1>1 DEF Leases, Owns, IndInv
<1> QED  BY <1>2, <1>3, <1>4, <1>5

(* A step of a call that changes no table but may move the call on.        *)
LEMMA QuietStep ==
  ASSUME IndInv, NEW p \in Dispatchers, Advances(p),
         UNCHANGED <<row, audit, sends, overrun>>, faults' \in Nat,
         call'[p].step = "save" => call'[p].outcome = "permanent",
         call'[p].step = "mark" => Attested(p)',
         \A i \in Items : call'[p].item = i /\ i \notin overrun /\ Sent(i) =>
           call'[p].step = "mark"
  PROVE  IndInv'
<1>1. TypeOK'
  BY DEF TypeOK, Advances, IndInv
<1>2. Ledger' /\ ClosedRowsAccounted'
  BY DEF Ledger, ClosedRowsAccounted, Recorded, IndInv
<1>3. Progress'
  <2>1. ASSUME NEW q \in Dispatchers
        PROVE  /\ (call'[q].step = "save" /\ call'[q].outcome # "permanent") =>
                    sends[call'[q].item] > 0
               /\ call'[q].step = "mark" => Attested(q)'
    <3>1. CASE q = p
      BY <3>1
    <3>2. CASE q # p
      BY <3>2 DEF Advances, Progress, Attested, Recorded, IndInv
    <3> QED  BY <3>1, <3>2
  <2> QED  BY <2>1 DEF Progress
<1>4. Reconciled'
  <2> SUFFICES ASSUME NEW i \in Items, i \notin overrun, Sent(i)
               PROVE  /\ Prior(i) # {}
                      /\ \A q \in Dispatchers :
                           call'[q].item = i => call'[q].step = "mark"
    BY DEF Reconciled, Sent, Recorded, Prior, Latest
  <2>1. /\ Prior(i) # {}
        /\ \A q \in Dispatchers : call[q].item = i => call[q].step = "mark"
    BY DEF Reconciled, IndInv
  <2> QED  BY <2>1 DEF Advances
<1> QED  BY <1>1, <1>2, <1>3, <1>4, AdvanceStep DEF IndInv

(* A claim is owned by one call.                                           *)
LEMMA OneOwner ==
  ASSUME NEW p, NEW q, NEW i, Owns(p, i), Owns(q, i)
  PROVE  p = q
  BY DEF Owns

-----------------------------------------------------------------------------
(* Reading the ledger decides to send only what no attempt reports sent.   *)
LEMMA ReadLedgerStep ==
  ASSUME IndInv, NEW p \in Dispatchers, NEW i \in Items, ReadLedger(p, i)
  PROVE  IndInv'
<1>1. TypeOK /\ i \in call[p].todo
  BY DEF ReadLedger, IndInv
<1>2. UNCHANGED <<row, audit, sends, faults, overrun>>
  BY DEF ReadLedger
<1>3. CASE Prior(i) = {}
  <2>1. GoTo(p, "send", i, None)
    BY <1>3 DEF ReadLedger
  <2>2. Advances(p) /\ call'[p].step = "send" /\ call'[p].item = i
    BY <1>1, <2>1, GoToAdvances
  <2>3. ASSUME NEW j \in Items, call'[p].item = j, j \notin overrun, Sent(j)
        PROVE  FALSE
    BY <1>3, <2>2, <2>3 DEF Reconciled, IndInv
  <2> QED  BY <1>1, <1>2, <2>2, <2>3, QuietStep DEF TypeOK
<1>4. CASE Prior(i) # {}
  <2>1. PICK outcome \in Prior(i) : GoTo(p, "mark", i, outcome)
    BY <1>4 DEF ReadLedger
  <2>2. outcome \in {"success", "ambiguous"} /\ Recorded(i, outcome)
    BY DEF Prior, Latest, Recorded
  <2>3. outcome \in Outcomes
    BY <2>2 DEF Outcomes
  <2>4. /\ Advances(p)
        /\ call'[p].step = "mark"
        /\ call'[p].item = i
        /\ call'[p].outcome = outcome
    BY <1>1, <2>1, <2>3, GoToAdvances
  <2>5. Attested(p)'
    BY <1>2, <2>2, <2>4 DEF Attested, Recorded
  <2> QED  BY <1>1, <1>2, <2>4, <2>5, QuietStep DEF TypeOK
<1> QED  BY <1>3, <1>4

(* A refusal sends nothing.                                                *)
LEMMA RefuseStep ==
  ASSUME IndInv, NEW p \in Dispatchers, Refuse(p)
  PROVE  IndInv'
<1> DEFINE i == call[p].item
<1>1. TypeOK /\ CallShape /\ call[p].step = "send"
  BY DEF Refuse, Working, IndInv
<1>2. i \in Items /\ i \in call[p].todo
  BY <1>1, ItemInHand
<1>3. GoTo(p, "save", i, "permanent")
  BY DEF Refuse
<1>4. "permanent" \in Outcomes
  BY DEF Outcomes
<1>5. /\ Advances(p)
      /\ call'[p].step = "save"
      /\ call'[p].item = i
      /\ call'[p].outcome = "permanent"
  BY <1>1, <1>2, <1>3, <1>4, GoToAdvances
<1>6. UNCHANGED <<row, audit, sends, faults, overrun>>
  BY DEF Refuse
<1>7. ASSUME NEW j \in Items, call'[p].item = j, j \notin overrun, Sent(j)
      PROVE  FALSE
  BY <1>1, <1>5, <1>7 DEF Reconciled, IndInv
<1> QED  BY <1>1, <1>5, <1>6, <1>7, QuietStep DEF TypeOK

(* A call that dies leaves the tables as they are.                         *)
LEMMA AbortStep ==
  ASSUME IndInv, NEW p \in Dispatchers, Abort(p)
  PROVE  IndInv'
<1>1. TypeOK /\ call' = [call EXCEPT ![p] = IdleCall]
  BY DEF Abort, IndInv
<1>2. Advances(p) /\ call'[p].step = "idle" /\ call'[p].item = None
  BY <1>1, IdleAdvances
<1>3. UNCHANGED <<row, audit, sends, overrun>> /\ faults' \in Nat
  BY <1>1 DEF Abort, Fault, TypeOK
<1> QED  BY <1>2, <1>3, QuietStep

(* So does a call that finds its claim lost.                               *)
LEMMA LostClaimStep ==
  ASSUME IndInv, NEW p \in Dispatchers, MarkClaim(p), ~Owns(p, call[p].item)
  PROVE  IndInv'
<1>1. TypeOK /\ call' = [call EXCEPT ![p] = IdleCall]
  BY DEF MarkClaim, IndInv
<1>2. Advances(p) /\ call'[p].step = "idle" /\ call'[p].item = None
  BY <1>1, IdleAdvances
<1>3. UNCHANGED <<row, audit, sends, overrun>> /\ faults' \in Nat
  BY <1>1 DEF MarkClaim, TypeOK
<1> QED  BY <1>2, <1>3, QuietStep

-----------------------------------------------------------------------------
(* A send is made by a call that found nothing to reconcile.               *)
LEMMA SendStep ==
  ASSUME IndInv, NEW p \in Dispatchers, NEW outcome \in Outcomes,
         Send(p, outcome)
  PROVE  IndInv'
<1> DEFINE i == call[p].item
<1>1. TypeOK /\ CallShape /\ call[p].step = "send"
  BY DEF Send, Working, IndInv
<1>2. i \in Items /\ i \in call[p].todo
  BY <1>1, ItemInHand
<1>3. GoTo(p, "save", i, outcome)
  BY DEF Send
<1>4. /\ Advances(p)
      /\ call'[p].step = "save"
      /\ call'[p].item = i
      /\ call'[p].outcome = outcome
  BY <1>1, <1>2, <1>3, GoToAdvances
<1>5. UNCHANGED <<row, audit, faults, overrun>>
  BY DEF Send
<1>6. /\ sends' \in [Items -> Nat]
      /\ sends'[i] > 0
      /\ \A j \in Items : sends[j] > 0 => sends'[j] > 0
  BY <1>1, <1>2 DEF Send, TypeOK
<1>7. TypeOK'
  BY <1>1, <1>4, <1>5, <1>6 DEF TypeOK, Advances
<1>8. Ledger' /\ ClosedRowsAccounted'
  BY <1>5, <1>6 DEF Ledger, ClosedRowsAccounted, Recorded, IndInv
<1>9. Progress'
  <2>1. ASSUME NEW q \in Dispatchers
        PROVE  /\ (call'[q].step = "save" /\ call'[q].outcome # "permanent") =>
                    sends'[call'[q].item] > 0
               /\ call'[q].step = "mark" => Attested(q)'
    <3>1. CASE q = p
      BY <1>4, <1>6, <3>1
    <3>2. CASE q # p
      <4>1. call'[q] = call[q]
        BY <1>4, <3>2 DEF Advances
      <4>2. call[q].step = "save" => call[q].item \in Items
        BY <1>1, ItemInHand
      <4> QED  BY <1>5, <1>6, <4>1, <4>2 DEF Progress, Attested, Recorded, IndInv
    <3> QED  BY <3>1, <3>2
  <2> QED  BY <2>1 DEF Progress
<1>10. Reconciled'
  <2> SUFFICES ASSUME NEW j \in Items, j \notin overrun, Sent(j)
               PROVE  /\ Prior(j) # {}
                      /\ \A q \in Dispatchers :
                           call'[q].item = j => call'[q].step = "mark"
    BY <1>5 DEF Reconciled, Sent, Recorded, Prior, Latest
  <2>1. /\ Prior(j) # {}
        /\ \A q \in Dispatchers : call[q].item = j => call[q].step = "mark"
    BY DEF Reconciled, IndInv
  <2>2. i # j
    BY <1>1, <2>1
  <2> QED  BY <1>4, <2>1, <2>2 DEF Advances
<1> QED  BY <1>4, <1>5, <1>7, <1>8, <1>9, <1>10, AdvanceStep DEF IndInv

(* Saving an attempt keeps the ledger in the order of the generations.     *)
LEMMA SaveAttemptStep ==
  ASSUME IndInv, NEW p \in Dispatchers, SaveAttempt(p)
  PROVE  IndInv'
<1> DEFINE i == call[p].item
           outcome == call[p].outcome
           a == [gen |-> call[p].claim[i].gen, outcome |-> outcome]
<1>1. TypeOK /\ CallShape /\ call[p].step = "save"
  BY DEF SaveAttempt, Working, IndInv
<1>2. i \in Items /\ i \in call[p].todo /\ outcome \in Outcomes
  BY <1>1, ItemInHand DEF CallShape, Shaped
<1>3. GoTo(p, "mark", i, outcome)
  BY DEF SaveAttempt
<1>4. /\ Advances(p)
      /\ call'[p].step = "mark"
      /\ call'[p].item = i
      /\ call'[p].outcome = outcome
      /\ call'[p].claim = call[p].claim
  BY <1>1, <1>2, <1>3, GoToAdvances
<1>5. UNCHANGED <<row, sends, faults, overrun>>
  BY DEF SaveAttempt
<1>6. a \in [gen : Nat, outcome : Outcomes]
  BY <1>1, <1>2, Fields
<1>7. /\ audit'[i] = audit[i] \cup {a}
      /\ \A j \in Items \ {i} : audit'[j] = audit[j]
      /\ \A j \in Items : audit[j] \subseteq audit'[j]
      /\ audit' \in [Items -> SUBSET [gen : Nat, outcome : Outcomes]]
  BY <1>1, <1>2, <1>6 DEF SaveAttempt, TypeOK
<1>8. TypeOK'
  BY <1>1, <1>4, <1>5, <1>7 DEF TypeOK, Advances
<1>9. a.gen <= row[i].gen
  BY <1>2 DEF Fence, IndInv
<1>10. a.outcome \in {"success", "ambiguous"} => sends[i] > 0
  BY <1>1 DEF Progress, IndInv
<1>11. Ledger'
  <2>1. ASSUME NEW j \in Items, NEW b \in audit'[j]
        PROVE  /\ b.gen <= row[j].gen
               /\ b.outcome \in {"success", "ambiguous"} => sends[j] > 0
    <3>1. CASE b \in audit[j]
      BY <3>1 DEF Ledger, IndInv
    <3>2. CASE b \notin audit[j]
      <4>1. j = i /\ b = a
        BY <1>7, <3>2
      <4> QED  BY <1>9, <1>10, <4>1
    <3> QED  BY <3>1, <3>2
  <2> QED  BY <1>5, <2>1 DEF Ledger
<1>12. ClosedRowsAccounted'
  BY <1>5, <1>7 DEF ClosedRowsAccounted, Recorded, IndInv
<1>13. Progress'
  <2>1. ASSUME NEW q \in Dispatchers
        PROVE  /\ (call'[q].step = "save" /\ call'[q].outcome # "permanent") =>
                    sends[call'[q].item] > 0
               /\ call'[q].step = "mark" => Attested(q)'
    <3>1. CASE q = p
      BY <1>4, <1>7, <3>1 DEF Attested
    <3>2. CASE q # p
      <4>1. call'[q] = call[q]
        BY <1>4, <3>2 DEF Advances
      <4>2. call[q].step = "mark" => call[q].item \in Items
        BY <1>1, ItemInHand
      <4>3. call[q].step = "mark" => Attested(q)
        BY DEF Progress, IndInv
      <4> QED
        BY <1>7, <4>1, <4>2, <4>3 DEF Progress, Attested, Recorded, IndInv
    <3> QED  BY <3>1, <3>2
  <2> QED  BY <1>5, <2>1 DEF Progress
<1>14. Reconciled'
  <2> SUFFICES ASSUME NEW j \in Items, j \notin overrun, Sent(j)'
               PROVE  /\ Prior(j)' # {}
                      /\ \A q \in Dispatchers :
                           call'[q].item = j => call'[q].step = "mark"
    BY <1>5 DEF Reconciled
  <2>1. CASE j # i
    <3>1. Sent(j) /\ Prior(j)' = Prior(j)
      BY <1>7, <2>1 DEF Sent, Recorded, Prior, Latest
    <3>2. /\ Prior(j) # {}
          /\ \A q \in Dispatchers : call[q].item = j => call[q].step = "mark"
      BY <3>1 DEF Reconciled, IndInv
    <3> QED  BY <1>4, <2>1, <3>1, <3>2 DEF Advances
  <2>2. CASE j = i
    <3>1. ~Sent(i)
      BY <1>1, <1>2, <2>2 DEF Reconciled, IndInv
    <3>2. outcome \in {"success", "ambiguous"}
      BY <1>7, <2>2, <3>1 DEF Sent, Recorded
    <3>3. Owns(p, i) /\ a.gen = row[i].gen
      BY <1>2, <2>2 DEF Leases, Owns, IndInv
    <3>4. \A b \in audit'[i] : b.gen <= a.gen
      BY <1>2, <1>5, <1>11, <3>3 DEF Ledger
    <3>5. a.outcome \in Prior(j)'
      <4>1. a \in Latest(j)'
        BY <1>7, <2>2, <3>4 DEF Latest
      <4> QED  BY <3>2, <4>1 DEF Prior
    <3>6. ASSUME NEW q \in Dispatchers \ {p}, call[q].item = i
          PROVE  FALSE
      <4>1. i \in call[q].todo
        <5>1. call[q].step \in {"send", "save", "mark"}
          BY <1>1, <1>2, <3>6, Fields DEF TypeOK, Call, Steps, CallShape, Shaped
        <5> QED  BY <1>1, <3>6, <5>1, ItemInHand
      <4>2. Owns(q, i)
        BY <2>2, <4>1 DEF Leases, IndInv
      <4> QED  BY <3>3, <4>2, OneOwner
    <3> QED  BY <1>4, <2>2, <3>5, <3>6 DEF Advances
  <2> QED  BY <2>1, <2>2
<1> QED  BY <1>4, <1>5, <1>8, <1>11, <1>12, <1>13, <1>14, AdvanceStep
         DEF IndInv

(* A fenced update closes the row, or leaves it an attempt.                *)
LEMMA SettleStep ==
  ASSUME IndInv, NEW p \in Dispatchers, MarkClaim(p), Owns(p, call[p].item)
  PROVE  IndInv'
<1> DEFINE i == call[p].item
           outcome == call[p].outcome
           n == call[p].claim[i].attempts + 1
           r == ClosedRow(p, i)
<1>1. TypeOK /\ CallShape /\ call[p].step = "mark"
  BY DEF MarkClaim, Working, IndInv
<1>2. i \in Items /\ i \in call[p].todo /\ outcome \in Outcomes
  BY <1>1, ItemInHand DEF CallShape, Shaped
<1>3. /\ row' = [row EXCEPT ![i] = r]
      /\ NextItem(p)
      /\ UNCHANGED <<audit, sends, faults, overrun>>
  BY DEF MarkClaim
<1>4. /\ Advances(p)
      /\ call'[p].step \in {"idle", "read"}
      /\ call'[p].item = None
      /\ i \notin call'[p].todo
  BY <1>1, <1>3, NextItemAdvances
<1>5. /\ r \in Row
      /\ r.attempts = row[i].attempts + 1
      /\ r.gen = row[i].gen
      /\ r.holder = None
      /\ r.expiresIn = 0
      /\ \/ r.status = "delivered" /\ outcome = "success"
         \/ r.status = "ambiguous" /\ outcome = "ambiguous"
         \/ r.status = "dead" /\ outcome = "permanent"
         \/ r.status = "dead" /\ outcome \in Retryable /\ n >= MaxAttempts
         \/ r.status = "failed" /\ outcome \in Retryable /\ n < MaxAttempts
  BY <1>1, <1>2, ClosedRowCases
<1> HIDE DEF r
<1>6. /\ row'[i] = r
      /\ \A j \in Items \ {i} : row'[j] = row[j]
      /\ row' \in [Items -> Row]
  BY <1>1, <1>2, <1>3, <1>5 DEF TypeOK
<1>7. /\ row[i].attempts = call[p].claim[i].attempts
      /\ call[p].claim[i].attempts < MaxAttempts
      /\ call[p].claim[i].gen = row[i].gen
      /\ row[i].attempts \in Nat
  BY <1>1, <1>2, Fields DEF Fence, Owns, IndInv
<1>8. TypeOK'
  BY <1>1, <1>3, <1>4, <1>6 DEF TypeOK, Advances
<1>9. CallShape'
  BY <1>4 DEF CallShape, Advances, IndInv
<1>10. RowShape'
  BY <1>5, <1>6 DEF RowShape, IndInv
<1>11. ASSUME NEW q \in Dispatchers, NEW j \in call'[q].todo
       PROVE  /\ j \in Items /\ j \in call[q].todo
              /\ call'[q].claim[j] = call[q].claim[j]
              /\ row'[j].gen = row[j].gen
  <2>1. j \in call[q].todo /\ call'[q].claim[j] = call[q].claim[j]
    BY <1>4 DEF Advances
  <2>2. j \in Items
    BY <1>1, <2>1, Fields
  <2> QED  BY <1>5, <1>6, <2>1, <2>2
<1>12. Fence'
  <2> SUFFICES ASSUME NEW q \in Dispatchers, NEW j \in call'[q].todo
               PROVE  /\ call'[q].claim[j].gen <= row'[j].gen
                      /\ call'[q].claim[j].attempts < MaxAttempts
                      /\ row'[j].status # "absent"
                      /\ Owns(q, j)' => row'[j].attempts = call'[q].claim[j].attempts
    BY DEF Fence
  <2>1. CASE j = i
    BY <1>5, <1>6, <1>11, <2>1 DEF Fence, Owns, IndInv
  <2>2. CASE j # i
    BY <1>6, <1>11, <2>2 DEF Fence, Owns, IndInv
  <2> QED  BY <2>1, <2>2
<1>13. AttemptsBounded'
  <2>1. /\ r.attempts <= MaxAttempts
        /\ r.status \notin Closed => r.attempts < MaxAttempts
    BY <1>5, <1>7 DEF Closed
  <2> QED  BY <1>6, <2>1 DEF AttemptsBounded, IndInv
<1>14. Ledger'
  BY <1>3, <1>5, <1>6 DEF Ledger, IndInv
<1>15. Progress'
  BY <1>3, <1>4 DEF Progress, Attested, Recorded, Advances, IndInv
<1>16. Attested(p)
  BY <1>1 DEF Progress, IndInv
<1>17. ClosedRowsAccounted'
  <2>1. outcome \in {"success", "ambiguous"} =>
          Recorded(i, outcome) /\ sends[i] > 0
    <3>1. ASSUME outcome \in {"success", "ambiguous"}
          PROVE  Recorded(i, outcome)
      BY <1>16, <3>1 DEF Attested, Recorded
    <3> QED  BY <1>2, <3>1 DEF Recorded, Ledger, IndInv
  <2>2. outcome \notin {"success", "ambiguous"} =>
          [gen |-> row[i].gen, outcome |-> outcome] \in audit[i]
    BY <1>7, <1>16 DEF Attested
  <2>3. /\ r.status = "delivered" => Recorded(i, "success") /\ sends[i] > 0
        /\ r.status = "ambiguous" => Recorded(i, "ambiguous") /\ sends[i] > 0
    BY <1>5, <2>1
  <2>4. r.status = "dead" => \E a \in audit[i] :
          /\ a.gen = r.gen
          /\ \/ a.outcome = "permanent"
             \/ a.outcome \in Retryable /\ r.attempts = MaxAttempts
    <3> SUFFICES ASSUME r.status = "dead"
                 PROVE  \E a \in audit[i] :
                          /\ a.gen = r.gen
                          /\ \/ a.outcome = "permanent"
                             \/ a.outcome \in Retryable /\ r.attempts = MaxAttempts
      OBVIOUS
    <3> DEFINE a == [gen |-> row[i].gen, outcome |-> outcome]
    <3>1. a \in audit[i]
      BY <1>5, <2>2 DEF Retryable
    <3>2. outcome = "permanent" \/ (outcome \in Retryable /\ r.attempts = MaxAttempts)
      BY <1>5, <1>7
    <3>3. a.gen = r.gen /\ a.outcome = outcome
      BY <1>5
    <3> QED  BY <3>1, <3>2, <3>3
  <2>5. ClosedRowsAccounted
    BY DEF IndInv
  <2> QED  BY <1>3, <1>6, <2>3, <2>4, <2>5 DEF ClosedRowsAccounted, Recorded
<1>18. Leases'
  <2> SUFFICES ASSUME NEW q \in Dispatchers, NEW j \in call'[q].todo,
                      j \notin overrun
               PROVE  Owns(q, j)' /\ row'[j].expiresIn > 0
    BY <1>3 DEF Leases
  <2>1. Owns(q, j) /\ row[j].expiresIn > 0
    BY <1>11 DEF Leases, IndInv
  <2>2. j # i
    <3>1. j = i => q = p
      BY <2>1, OneOwner
    <3> QED  BY <1>4, <3>1
  <2> QED  BY <1>6, <1>11, <2>1, <2>2 DEF Owns
<1>19. Reconciled'
  <2> SUFFICES ASSUME NEW j \in Items, j \notin overrun, Sent(j)
               PROVE  /\ Prior(j) # {}
                      /\ \A q \in Dispatchers :
                           call'[q].item = j => call'[q].step = "mark"
    BY <1>3 DEF Reconciled, Sent, Recorded, Prior, Latest
  <2>1. /\ Prior(j) # {}
        /\ \A q \in Dispatchers : call[q].item = j => call[q].step = "mark"
    BY DEF Reconciled, IndInv
  <2> QED  BY <1>4, <2>1 DEF Advances
<1> QED
  BY <1>8, <1>9, <1>10, <1>12, <1>13, <1>14, <1>15, <1>17, <1>18, <1>19
     DEF IndInv

-----------------------------------------------------------------------------
(* A staged row has had no attempt.                                        *)
LEMMA StageStep ==
  ASSUME IndInv, NEW i \in Items, Stage(i)
  PROVE  IndInv'
<1>1. TypeOK /\ row[i].status = "absent"
  BY DEF Stage, IndInv
<1>2. UNCHANGED <<audit, sends, call, faults, overrun>>
  BY DEF Stage
<1> DEFINE r == [row[i] EXCEPT !.status = "staged"]
<1>3. /\ r \in Row
      /\ r.status = "staged"
      /\ r.attempts = row[i].attempts
      /\ r.gen = row[i].gen
      /\ r.holder = row[i].holder
      /\ r.expiresIn = row[i].expiresIn
  BY <1>1, Fields DEF Row, Statuses
<1> HIDE DEF r
<1>4. /\ row'[i] = r
      /\ \A j \in Items \ {i} : row'[j] = row[j]
      /\ row' \in [Items -> Row]
  BY <1>1, <1>3 DEF Stage, TypeOK, r
<1>5. TypeOK'
  BY <1>1, <1>2, <1>4 DEF TypeOK
<1>6. CallShape' /\ Progress'
  BY <1>2 DEF CallShape, Progress, Attested, Recorded, IndInv
<1>7. RowShape' /\ AttemptsBounded'
  BY <1>1, <1>3, <1>4 DEF RowShape, AttemptsBounded, Closed, IndInv
<1>8. \A j \in Items :
        /\ row'[j].gen = row[j].gen
        /\ row'[j].holder = row[j].holder
        /\ row'[j].attempts = row[j].attempts
        /\ row'[j].expiresIn = row[j].expiresIn
        /\ row'[j].status = "absent" => row[j].status = "absent"
        /\ row'[j].status # "staged" => row'[j].status = row[j].status
  BY <1>3, <1>4
<1>9. \A p \in Dispatchers : \A j \in call[p].todo :
        j \in Items /\ (Owns(p, j)' <=> Owns(p, j))
  BY <1>1, <1>2, <1>8, Fields DEF Owns
<1>10. Fence' /\ Leases'
  BY <1>2, <1>8, <1>9 DEF Fence, Leases, IndInv
<1>11. Ledger'
  BY <1>2, <1>8 DEF Ledger, IndInv
<1>12. ClosedRowsAccounted'
  BY <1>2, <1>8 DEF ClosedRowsAccounted, Recorded, IndInv
<1>13. Reconciled'
  BY <1>2 DEF Reconciled, Sent, Recorded, Prior, Latest, IndInv
<1> QED  BY <1>5, <1>6, <1>7, <1>10, <1>11, <1>12, <1>13 DEF IndInv

-----------------------------------------------------------------------------
(* A claim takes over rows that are waiting, or whose lease has run out.   *)
LEMMA ClaimDueStep ==
  ASSUME IndInv, NEW p \in Dispatchers, ClaimDue(p)
  PROVE  IndInv'
<1>0. TypeOK /\ call[p].step = "idle"
  BY DEF ClaimDue, IndInv
<1>1. PICK batch \in SUBSET Items :
        /\ \A i \in batch : Due(i)
        /\ row' = [i \in Items |->
             IF i \in batch THEN Claimed(row[i], p) ELSE row[i]]
        /\ call' = [call EXCEPT ![p] =
             [step |-> "read", todo |-> batch, item |-> None, outcome |-> None,
              elapsed |-> 0,
              claim |-> [i \in Items |->
                IF i \in batch
                THEN [gen |-> row[i].gen + 1, attempts |-> row[i].attempts]
                ELSE NoClaim]]]
  BY DEF ClaimDue
<1>2. UNCHANGED <<audit, sends, faults, overrun>>
  BY DEF ClaimDue
<1>3. \A i \in batch :
        /\ i \in Items
        /\ row'[i].status = "dispatching"
        /\ row'[i].holder = p
        /\ row'[i].gen = row[i].gen + 1
        /\ row'[i].attempts = row[i].attempts
        /\ row'[i].expiresIn = ClaimTTL
  BY <1>1 DEF Claimed
<1>4. \A i \in Items \ batch : row'[i] = row[i]
  BY <1>1
<1>5. \A q \in Dispatchers \ {p} : call'[q] = call[q]
  BY <1>0, <1>1 DEF TypeOK
<1> DEFINE claim == [i \in Items |->
              IF i \in batch
              THEN [gen |-> row[i].gen + 1, attempts |-> row[i].attempts]
              ELSE NoClaim]
           c == [step |-> "read", todo |-> batch, item |-> None,
                 outcome |-> None, elapsed |-> 0, claim |-> claim]
<1>6. claim \in [Items -> [gen : Nat, attempts : Nat]]
  BY <1>0, Fields DEF NoClaim
<1>7. \A i \in batch :
        claim[i].gen = row[i].gen + 1 /\ claim[i].attempts = row[i].attempts
  OBVIOUS
<1>8. call'[p] = c /\ call' = [call EXCEPT ![p] = c]
  BY <1>0, <1>1 DEF TypeOK
<1> HIDE DEF claim
<1>9. c \in Call
  BY <1>6 DEF Call, Steps
<1>10. /\ call'[p].step = "read"
       /\ call'[p].todo = batch
       /\ call'[p].item = None
       /\ call'[p].claim = claim
  BY <1>8
<1>11. \A i \in batch :
         /\ row[i].status \in {"staged", "failed", "dispatching"}
         /\ row[i].status = "dispatching" => row[i].expiresIn = 0
  BY <1>1 DEF Due
<1>12. TypeOK'
  <2>1. \A i \in Items : Claimed(row[i], p) \in Row /\ row[i] \in Row
    BY <1>0, ClaimedType, Fields
  <2>2. row' \in [Items -> Row]
    BY <1>1, <2>1
  <2>3. call' \in [Dispatchers -> Call]
    BY <1>0, <1>8, <1>9 DEF TypeOK
  <2> QED  BY <1>0, <1>2, <2>2, <2>3 DEF TypeOK
<1>13. CallShape'
  BY <1>5, <1>10 DEF CallShape, Shaped, IndInv
<1>14. RowShape'
  BY <1>3, <1>4 DEF RowShape, IndInv
<1>15. \A i \in batch : row[i].attempts < MaxAttempts
  BY <1>11 DEF AttemptsBounded, Closed, IndInv
<1>16. AttemptsBounded'
  BY <1>3, <1>4, <1>15 DEF AttemptsBounded, IndInv
<1>17. \A i \in Items : row[i].gen \in Nat /\ row[i].gen <= row'[i].gen
  BY <1>0, <1>3, <1>4, Fields
<1>18. Fence'
  <2> SUFFICES ASSUME NEW q \in Dispatchers, NEW i \in call'[q].todo
               PROVE  /\ call'[q].claim[i].gen <= row'[i].gen
                      /\ call'[q].claim[i].attempts < MaxAttempts
                      /\ row'[i].status # "absent"
                      /\ Owns(q, i)' => row'[i].attempts = call'[q].claim[i].attempts
    BY DEF Fence
  <2>1. CASE q = p
    BY <1>3, <1>7, <1>10, <1>15, <1>17, <2>1
  <2>2. CASE q # p
    <3>1. call'[q] = call[q] /\ i \in call[q].todo /\ i \in Items
      BY <1>0, <1>5, <2>2, Fields
    <3>2. /\ call[q].claim[i].gen <= row[i].gen
          /\ call[q].claim[i].attempts < MaxAttempts
          /\ row[i].status # "absent"
          /\ Owns(q, i) => row[i].attempts = call[q].claim[i].attempts
      BY <3>1 DEF Fence, IndInv
    <3>3. call[q].claim[i].gen \in Nat
      BY <1>0, <3>1, Fields
    <3>4. CASE i \in batch
      BY <1>3, <1>17, <2>2, <3>1, <3>2, <3>3, <3>4 DEF Owns
    <3>5. CASE i \notin batch
      BY <1>4, <3>1, <3>2, <3>5 DEF Owns
    <3> QED  BY <3>4, <3>5
  <2> QED  BY <2>1, <2>2
<1>19. Ledger'
  <2>1. ASSUME NEW i \in Items, NEW a \in audit[i]
        PROVE  a.gen <= row'[i].gen
    <3>1. a.gen \in Nat /\ a.gen <= row[i].gen
      BY <1>0 DEF Ledger, IndInv, TypeOK
    <3> QED  BY <1>12, <1>17, <3>1, Fields DEF TypeOK, Row
  <2> QED  BY <1>2, <2>1 DEF Ledger, IndInv
<1>20. Progress'
  BY <1>2, <1>5, <1>10 DEF Progress, Attested, Recorded, IndInv
<1>21. ClosedRowsAccounted'
  BY <1>2, <1>3, <1>4 DEF ClosedRowsAccounted, Recorded, IndInv
<1>22. Leases'
  <2> SUFFICES ASSUME NEW q \in Dispatchers, NEW i \in call'[q].todo,
                      i \notin overrun
               PROVE  Owns(q, i)' /\ row'[i].expiresIn > 0
    BY <1>2 DEF Leases
  <2>1. CASE q = p
    BY <1>3, <1>7, <1>10, <2>1 DEF Owns
  <2>2. CASE q # p
    <3>1. call'[q] = call[q] /\ i \in call[q].todo /\ i \in Items
      BY <1>0, <1>5, <2>2, Fields
    <3>2. Owns(q, i) /\ row[i].expiresIn > 0
      BY <3>1 DEF Leases, IndInv
    <3>3. row[i].status = "dispatching"
      BY <3>1, <3>2 DEF Owns, RowShape, IndInv
    <3>4. i \notin batch
      BY <1>11, <3>2, <3>3
    <3> QED  BY <1>4, <3>1, <3>2, <3>4 DEF Owns
  <2> QED  BY <2>1, <2>2
<1>23. Reconciled'
  <2> SUFFICES ASSUME NEW j \in Items, j \notin overrun, Sent(j)
               PROVE  /\ Prior(j) # {}
                      /\ \A q \in Dispatchers :
                           call'[q].item = j => call'[q].step = "mark"
    BY <1>2 DEF Reconciled, Sent, Recorded, Prior, Latest
  <2>1. /\ Prior(j) # {}
        /\ \A q \in Dispatchers : call[q].item = j => call[q].step = "mark"
    BY DEF Reconciled, IndInv
  <2> QED  BY <1>5, <1>10, <2>1
<1> QED
  BY <1>12, <1>13, <1>14, <1>16, <1>18, <1>19, <1>20, <1>21, <1>22, <1>23
     DEF IndInv

-----------------------------------------------------------------------------
(* The clock changes what waits and what is leased, and nothing else.      *)
LEMMA Passed ==
  ASSUME TypeOK, Tick
  PROVE  /\ \A i \in Items :
              /\ row'[i].status = row[i].status
              /\ row'[i].holder = row[i].holder
              /\ row'[i].gen = row[i].gen
              /\ row'[i].attempts = row[i].attempts
              /\ row'[i].expiresIn = Earlier(row[i].expiresIn)
         /\ \A p \in Dispatchers :
              /\ call'[p].step = call[p].step
              /\ call'[p].todo = call[p].todo
              /\ call'[p].item = call[p].item
              /\ call'[p].outcome = call[p].outcome
              /\ call'[p].claim = call[p].claim
         /\ TypeOK'
<1>1. ASSUME NEW i \in Items
      PROVE  /\ row'[i].status = row[i].status
             /\ row'[i].holder = row[i].holder
             /\ row'[i].gen = row[i].gen
             /\ row'[i].attempts = row[i].attempts
             /\ row'[i].expiresIn = Earlier(row[i].expiresIn)
  <2> DEFINE left(r) == [r EXCEPT !.availableIn = Earlier(@),
                                  !.expiresIn = Earlier(@)]
  <2>1. row'[i] = left(row[i]) /\ row[i] \in Row
    BY Fields DEF Tick
  <2> QED  BY <2>1 DEF Row
<1>2. ASSUME NEW p \in Dispatchers
      PROVE  /\ call'[p] \in Call
             /\ call'[p].step = call[p].step
             /\ call'[p].todo = call[p].todo
             /\ call'[p].item = call[p].item
             /\ call'[p].outcome = call[p].outcome
             /\ call'[p].claim = call[p].claim
  <2>1. call'[p] = call[p] \/ call'[p] = [call[p] EXCEPT !.elapsed = @ + 1]
    BY DEF Tick
  <2>2. call[p] \in Call /\ call[p].elapsed + 1 \in Nat
    BY Fields
  <2> QED  BY <2>1, <2>2 DEF Call
<1>3. row' \in [Items -> Row]
  BY WaitedType, Fields DEF Tick
<1>4. call' \in [Dispatchers -> Call]
  BY <1>2 DEF Tick
<1>5. faults' \in Nat
  <2>1. Fault \/ faults' = faults
    BY DEF Tick
  <2> QED  BY <2>1 DEF Fault, TypeOK
<1>6. audit' = audit /\ sends' = sends /\ overrun' \in SUBSET Items
  BY DEF Tick, TypeOK, Overruns
<1> QED  BY <1>1, <1>2, <1>3, <1>4, <1>5, <1>6 DEF TypeOK

(* A lease that runs out under its owner leaves Leases for overrun.        *)
LEMMA TickStep ==
  ASSUME IndInv, Tick
  PROVE  IndInv'
<1>0. TypeOK
  BY DEF IndInv
<1>1. /\ \A i \in Items :
           /\ row'[i].status = row[i].status
           /\ row'[i].holder = row[i].holder
           /\ row'[i].gen = row[i].gen
           /\ row'[i].attempts = row[i].attempts
           /\ row'[i].expiresIn = Earlier(row[i].expiresIn)
      /\ \A p \in Dispatchers :
           /\ call'[p].step = call[p].step
           /\ call'[p].todo = call[p].todo
           /\ call'[p].item = call[p].item
           /\ call'[p].outcome = call[p].outcome
           /\ call'[p].claim = call[p].claim
      /\ TypeOK'
  BY <1>0, Passed
<1>2. audit' = audit /\ sends' = sends /\ overrun' = overrun \cup Overruns
  BY DEF Tick
<1>3. \A p \in Dispatchers : \A i \in call[p].todo :
        i \in Items /\ (Owns(p, i)' <=> Owns(p, i))
  BY <1>0, <1>1, Fields DEF Owns
<1>4. CallShape'
  BY <1>1 DEF CallShape, Shaped, IndInv
<1>5. RowShape' /\ AttemptsBounded'
  BY <1>1 DEF RowShape, AttemptsBounded, IndInv
<1>6. Fence'
  BY <1>1, <1>3 DEF Fence, IndInv
<1>7. Ledger' /\ ClosedRowsAccounted'
  BY <1>1, <1>2 DEF Ledger, ClosedRowsAccounted, Recorded, IndInv
<1>8. Progress'
  BY <1>1, <1>2 DEF Progress, Attested, Recorded, IndInv
<1>9. Leases'
  <2> SUFFICES ASSUME NEW p \in Dispatchers, NEW i \in call[p].todo,
                      i \notin overrun, i \notin Overruns
               PROVE  Owns(p, i) /\ row'[i].expiresIn > 0
    BY <1>1, <1>2, <1>3 DEF Leases
  <2>1. Owns(p, i) /\ row[i].expiresIn > 0 /\ i \in Items
    BY <1>3 DEF Leases, IndInv
  <2>2. row[i].expiresIn # 1
    BY <2>1 DEF Overruns
  <2>3. row[i].expiresIn \in Nat /\ row'[i].expiresIn = Earlier(row[i].expiresIn)
    BY <1>0, <1>1, <2>1, Fields
  <2> QED  BY <2>1, <2>2, <2>3 DEF Earlier
<1>10. Reconciled'
  <2> SUFFICES ASSUME NEW j \in Items, j \notin overrun, Sent(j)
               PROVE  /\ Prior(j) # {}
                      /\ \A q \in Dispatchers :
                           call'[q].item = j => call'[q].step = "mark"
    BY <1>2 DEF Reconciled, Sent, Recorded, Prior, Latest
  <2>1. /\ Prior(j) # {}
        /\ \A q \in Dispatchers : call[q].item = j => call[q].step = "mark"
    BY DEF Reconciled, IndInv
  <2> QED  BY <1>1, <2>1
<1> QED  BY <1>1, <1>4, <1>5, <1>6, <1>7, <1>8, <1>9, <1>10 DEF IndInv

-----------------------------------------------------------------------------
(* The empty outbox satisfies the inductive invariant.                     *)
LEMMA InitHolds == Init => IndInv
<1> SUFFICES ASSUME Init
             PROVE  IndInv
  OBVIOUS
<1>1. AbsentRow \in Row
  BY DEF AbsentRow, Row, Statuses
<1>2. TypeOK
  BY <1>1, IdleCallType DEF Init, TypeOK
<1>3. \A p \in Dispatchers : call[p] = IdleCall
  BY DEF Init
<1>4. \A i \in Items : row[i] = AbsentRow /\ audit[i] = {} /\ sends[i] = 0
  BY DEF Init
<1>5. CallShape /\ Fence /\ Progress /\ Leases
  BY <1>3 DEF CallShape, Shaped, Fence, Progress, Leases, IdleCall
<1>6. RowShape /\ AttemptsBounded /\ Ledger /\ ClosedRowsAccounted
  BY <1>4 DEF RowShape, AttemptsBounded, Ledger, ClosedRowsAccounted, AbsentRow
<1>7. Reconciled
  BY <1>4 DEF Reconciled, Sent, Recorded
<1> QED  BY <1>2, <1>5, <1>6, <1>7 DEF IndInv

(* Every action preserves the inductive invariant.                         *)
LEMMA InductionStep == IndInv /\ [Next]_vars => IndInv'
<1> SUFFICES ASSUME IndInv, [Next]_vars
             PROVE  IndInv'
  OBVIOUS
<1>1. ASSUME NEW p \in Dispatchers, MarkClaim(p)
      PROVE  IndInv'
  BY <1>1, SettleStep, LostClaimStep
<1>2. CASE UNCHANGED vars
  <2>1. UNCHANGED <<row, audit, sends, call, faults, overrun>>
    BY <1>2 DEF vars
  <2>2. TypeOK' /\ CallShape' /\ RowShape' /\ AttemptsBounded' /\ Ledger'
    BY <2>1 DEF IndInv, TypeOK, CallShape, Shaped, RowShape, AttemptsBounded,
                Ledger
  <2>3. Fence' /\ Leases'
    BY <2>1 DEF IndInv, Fence, Leases, Owns
  <2>4. Progress' /\ ClosedRowsAccounted'
    BY <2>1 DEF IndInv, Progress, Attested, ClosedRowsAccounted, Recorded
  <2>5. Reconciled'
    BY <2>1 DEF IndInv, Reconciled, Sent, Recorded, Prior, Latest
  <2> QED  BY <2>2, <2>3, <2>4, <2>5 DEF IndInv
<1> QED
  BY <1>1, <1>2, StageStep, ClaimDueStep, ReadLedgerStep, RefuseStep, SendStep,
     SaveAttemptStep, AbortStep, TickStep DEF Next, Work

(* Every reachable state satisfies the inductive invariant.                *)
THEOREM Invariance == Spec => []IndInv
  BY InitHolds, InductionStep, PTL DEF Spec

-----------------------------------------------------------------------------
(* The tables, the counters and every running call stay well typed.        *)
THEOREM TypeCorrect == Spec => []TypeOK
  BY Invariance, PTL DEF IndInv

(* Whatever calls overtake one another, an item is charged no more than    *)
(* MaxAttempts attempts, and is never offered again with them used up.     *)
THEOREM AttemptsAreBounded == Spec => []AttemptsBounded
  BY Invariance, PTL DEF IndInv

(* No row is closed without the attempt, and for delivered and ambiguous   *)
(* rows the send, that its status reports.                                 *)
THEOREM LedgerAccounts == Spec => []ClosedRowsAccounted
  BY Invariance, PTL DEF IndInv

(* The ledger stops the sends of an item: with every lease kept, no number *)
(* of crashes makes a dispatcher repeat a send recorded as made or as      *)
(* possibly made. *)
THEOREM RecordedSendsStop == Spec => RecordedSendIsNotRepeated
<1> DEFINE Ends ==
      \A i \in Items :
        i \notin overrun /\ (Recorded(i, "success") \/ Recorded(i, "ambiguous"))
          => sends'[i] = sends[i]
<1>1. IndInv /\ [Next]_vars => [Ends]_vars
  <2> SUFFICES ASSUME IndInv, Next, NEW i \in Items, i \notin overrun, Sent(i)
               PROVE  sends'[i] = sends[i]
    BY DEF Sent
  <2>1. ASSUME NEW p \in Dispatchers, NEW outcome \in Outcomes, Send(p, outcome)
        PROVE  sends'[i] = sends[i]
    <3>1. call[p].step = "send" /\ sends' = [sends EXCEPT ![call[p].item] = @ + 1]
      BY <2>1 DEF Send, Working
    <3>2. call[p].item # i
      BY <3>1 DEF IndInv, Reconciled
    <3> QED  BY <3>1, <3>2 DEF IndInv, TypeOK
  <2>2. CASE sends' = sends
    BY <2>2
  <2> QED  BY <2>1, <2>2 DEF Next, Work, Stage, ClaimDue, ReadLedger, Refuse,
           SaveAttempt, MarkClaim, Abort, Tick
<1> QED  BY <1>1, Invariance, PTL DEF Spec, RecordedSendIsNotRepeated

-----------------------------------------------------------------------------
(* What decides over a row; its two timers only run down.                  *)
Decided(r) == <<r.status, r.attempts, r.gen, r.holder>>

(* What is delivered, ambiguous or dead stays so, with the attempts that   *)
(* it took, however late a dispatcher that lost its claim comes to mark it.*)
ClosedIsFinal ==
  [][\A i \in Items :
       row[i].status \in Closed => Decided(row'[i]) = Decided(row[i])]_vars

(* No claim, and no mark of whatever claim, is accepted by a closed row.   *)
LEMMA ClosedStep ==
  ASSUME IndInv, Next, NEW i \in Items, row[i].status \in Closed
  PROVE  Decided(row'[i]) = Decided(row[i])
<1>0. /\ row \in [Items -> Row] /\ row[i] \in Row
      /\ row[i].status # "staged" /\ row[i].status # "failed"
      /\ row[i].status # "dispatching" /\ row[i].status # "absent"
  BY DEF IndInv, TypeOK, Closed
<1>1. CASE row'[i] = row[i]
  BY <1>1
<1>2. ASSUME NEW j \in Items, Stage(j)
      PROVE  row'[i] = row[i]
  BY <1>0, <1>2 DEF Stage
<1>3. ASSUME NEW p \in Dispatchers, ClaimDue(p)
      PROVE  row'[i] = row[i]
  <2>1. PICK batch \in SUBSET {j \in Items : Due(j)} :
          row' = [j \in Items |-> IF j \in batch THEN Claimed(row[j], p) ELSE row[j]]
    BY <1>3 DEF ClaimDue
  <2>2. ~Due(i)
    BY <1>0 DEF Due
  <2> QED  BY <2>1, <2>2
<1>4. ASSUME NEW p \in Dispatchers, MarkClaim(p)
      PROVE  row'[i] = row[i]
  <2>1. CASE Owns(p, call[p].item)
    <3>1. call[p].item # i
      BY <1>0, <2>1 DEF Owns, IndInv, RowShape, TypeOK
    <3> QED  BY <1>0, <1>4, <2>1, <3>1 DEF MarkClaim
  <2> QED  BY <1>4, <2>1 DEF MarkClaim
<1>5. CASE Tick
  <2>1. row'[i] = [row[i] EXCEPT !.availableIn = Earlier(@), !.expiresIn = Earlier(@)]
    BY <1>5 DEF Tick
  <2> QED  BY <1>0, <2>1 DEF Row, Decided
<1> QED
  BY <1>1, <1>2, <1>3, <1>4, <1>5
     DEF Next, Work, ReadLedger, Refuse, Send, SaveAttempt, Abort

(* A closed notification is never claimed, marked or reopened again.       *)
THEOREM Finality == Spec => ClosedIsFinal
<1>1. IndInv /\ [Next]_vars =>
        [\A i \in Items :
           row[i].status \in Closed => Decided(row'[i]) = Decided(row[i])]_vars
  BY ClosedStep
<1> QED  BY <1>1, Invariance, PTL DEF Spec, ClosedIsFinal

-----------------------------------------------------------------------------
(* A fenced update is a settlement of the queue.                           *)
LEMMA SettleRefines ==
  ASSUME IndInv, NEW p \in Dispatchers, MarkClaim(p), Owns(p, call[p].item)
  PROVE  Queue!Next
<1> DEFINE i == call[p].item
           r == ClosedRow(p, i)
<1>1. TypeOK /\ CallShape /\ call[p].step = "mark" /\ Attested(p)
  BY DEF MarkClaim, Working, IndInv, Progress
<1>2. i \in Items /\ i \in call[p].todo /\ call[p].outcome \in Outcomes
  BY <1>1, ItemInHand DEF CallShape, Shaped
<1>3. row' = [row EXCEPT ![i] = r] /\ sends' = sends
  BY DEF MarkClaim
<1>4. /\ r.gen = row[i].gen
      /\ r.holder = None
      /\ r.status \in {"delivered", "ambiguous", "dead", "failed"}
      /\ r.status = "delivered" => call[p].outcome = "success"
  BY <1>1, <1>2, ClosedRowCases DEF Retryable
<1> HIDE DEF r
<1>5. row'[i] = r /\ \A j \in Items \ {i} : row'[j] = row[j]
  BY <1>1, <1>2, <1>3 DEF TypeOK
<1>6. row[i].status = "dispatching" /\ row[i].holder = p
  BY <1>2 DEF Owns, RowShape, IndInv
<1>7. r.status = "delivered" => sends[i] > 0
  BY <1>1, <1>2, <1>4 DEF Attested, Recorded, Ledger, IndInv
<1>8. /\ PhaseOf(r.status) \in {"waiting", "delivered", "abandoned"}
      /\ PhaseOf(r.status) = "delivered" => r.status = "delivered"
      /\ PhaseOf("dispatching") = "claimed"
  BY <1>4 DEF PhaseOf
<1>9. /\ [j \in Items |-> PhaseOf(row'[j].status)] =
           [[j \in Items |-> PhaseOf(row[j].status)] EXCEPT ![i] = PhaseOf(r.status)]
      /\ [j \in Items |-> row'[j].holder] =
           [[j \in Items |-> row[j].holder] EXCEPT ![i] = None]
      /\ [j \in Items |-> row'[j].gen] = [j \in Items |-> row[j].gen]
  <2>1. \A j \in Items :
          /\ PhaseOf(row'[j].status) =
               IF j = i THEN PhaseOf(r.status) ELSE PhaseOf(row[j].status)
          /\ row'[j].holder = IF j = i THEN None ELSE row[j].holder
          /\ row'[j].gen = row[j].gen
    BY <1>4, <1>5
  <2> QED  BY <2>1
<1>10. PICK j \in Items, outcome \in {"waiting", "delivered", "abandoned"} :
         j = i /\ outcome = PhaseOf(r.status)
  BY <1>2, <1>8
<1>11. Queue!Settle(p, j, outcome)
  BY <1>2, <1>3, <1>6, <1>7, <1>8, <1>9, <1>10 DEF Queue!Settle
<1> QED  BY <1>11 DEF Queue!Next

(* A step of the dispatchers is a step of the fenced queue, or stutters.   *)
LEMMA RefinementStep ==
  IndInv /\ [Next]_vars => [Queue!Next]_(Queue!qvars)
<1> SUFFICES ASSUME IndInv, [Next]_vars
             PROVE  Queue!Next \/ UNCHANGED Queue!qvars
  OBVIOUS
<1>0. TypeOK
  BY DEF IndInv
<1>idle. ASSUME \A i \in Items : /\ row'[i].status = row[i].status
                                 /\ row'[i].holder = row[i].holder
                                 /\ row'[i].gen = row[i].gen,
                sends' = sends
         PROVE  UNCHANGED Queue!qvars
  BY <1>idle DEF Queue!qvars
<1>1. ASSUME NEW i \in Items, Stage(i)
      PROVE  Queue!Next
  <2>1. /\ row[i].status = "absent"
        /\ row'[i].status = "staged"
        /\ row'[i].holder = row[i].holder
        /\ row'[i].gen = row[i].gen
        /\ \A j \in Items \ {i} : row'[j] = row[j]
        /\ sends' = sends
    BY <1>1 DEF Stage, IndInv, TypeOK, Row
  <2>2. PhaseOf("absent") = "absent" /\ PhaseOf("staged") = "waiting"
    BY DEF PhaseOf
  <2>3. \A j \in Items : row'[j].holder = row[j].holder /\ row'[j].gen = row[j].gen
    BY <2>1
  <2>4. [j \in Items |-> PhaseOf(row'[j].status)] =
          [[j \in Items |-> PhaseOf(row[j].status)] EXCEPT ![i] = "waiting"]
    BY <2>1, <2>2
  <2>5. Queue!Add(i)
    BY <2>1, <2>2, <2>3, <2>4 DEF Queue!Add
  <2> QED  BY <2>5 DEF Queue!Next
<1>2. ASSUME NEW p \in Dispatchers, ClaimDue(p)
      PROVE  Queue!Next
  <2>1. PICK batch \in SUBSET Items :
          /\ \A i \in batch : Due(i)
          /\ row' = [i \in Items |->
               IF i \in batch THEN Claimed(row[i], p) ELSE row[i]]
          /\ sends' = sends
    BY <1>2 DEF ClaimDue
  <2>2. \A i \in batch : PhaseOf(row[i].status) \in {"waiting", "claimed"}
    BY <2>1 DEF Due, PhaseOf
  <2>3. \A i \in Items :
          IF i \in batch
          THEN /\ row'[i].status = "dispatching"
               /\ row'[i].holder = p
               /\ row'[i].gen = row[i].gen + 1
          ELSE row'[i] = row[i]
    BY <2>1 DEF Claimed
  <2>4. PhaseOf("dispatching") = "claimed"
    BY DEF PhaseOf
  <2>5. Queue!HandOut(p, batch)
    BY <2>1, <2>2, <2>3, <2>4 DEF Queue!HandOut
  <2> QED  BY <2>5 DEF Queue!Next
<1>3. ASSUME NEW p \in Dispatchers, NEW outcome \in Outcomes, Send(p, outcome)
      PROVE  Queue!Next
  <2>0. call[p].step = "send"
    BY <1>3 DEF Send, Working
  <2>1. PICK i \in Items : i = call[p].item /\ i \in call[p].todo
    BY <1>0, <2>0, ItemInHand DEF IndInv
  <2>2. row' = row /\ sends' = [sends EXCEPT ![i] = @ + 1]
    BY <1>3, <2>1 DEF Send
  <2>3. row[i].status # "absent" /\ row[i].status \in Statuses
    BY <1>0, <2>1, Fields DEF Fence, IndInv
  <2>4. PhaseOf(row[i].status) # "absent"
    BY <2>3 DEF PhaseOf, Statuses
  <2>5. {j \in Items : sends'[j] > 0} = {j \in Items : sends[j] > 0} \cup {i}
    BY <1>0, <2>2 DEF TypeOK
  <2>6. Queue!Send(i)
    BY <2>2, <2>4, <2>5 DEF Queue!Send
  <2> QED  BY <2>6 DEF Queue!Next
<1>4. ASSUME NEW p \in Dispatchers,
             \/ \E i \in Items : ReadLedger(p, i)
             \/ Refuse(p) \/ SaveAttempt(p) \/ Abort(p)
      PROVE  UNCHANGED Queue!qvars
  <2>1. row' = row /\ sends' = sends
    BY <1>4 DEF ReadLedger, Refuse, SaveAttempt, Abort
  <2> QED  BY <1>idle, <2>1
<1>5. ASSUME NEW p \in Dispatchers, MarkClaim(p)
      PROVE  Queue!Next \/ UNCHANGED Queue!qvars
  <2>1. CASE Owns(p, call[p].item)
    BY <1>5, <2>1, SettleRefines
  <2>2. CASE ~Owns(p, call[p].item)
    BY <1>5, <1>idle, <2>2 DEF MarkClaim
  <2> QED  BY <2>1, <2>2
<1>6. CASE Tick
  <2>1. sends' = sends
    BY <1>6 DEF Tick
  <2> QED  BY <1>0, <1>6, <1>idle, <2>1, Passed
<1>7. CASE UNCHANGED vars
  BY <1>7, <1>idle DEF vars
<1> QED  BY <1>1, <1>2, <1>3, <1>4, <1>5, <1>6, <1>7 DEF Next, Work

(* The dispatchers keep the promise of the fenced queue: only the latest   *)
(* claim of a row decides it, after a send if it is reported delivered, and*)
(* no step reopens a closed row.                                           *)
THEOREM Refinement == Spec => ImplementsFencedQueue
<1>1. Init => Queue!Init
  BY DEF Init, Queue!Init, AbsentRow, PhaseOf
<1>2. IndInv /\ [Next]_vars => [Queue!Next]_(Queue!qvars)
  BY RefinementStep
<1> QED  BY <1>1, <1>2, Invariance, PTL DEF Spec, Queue!Spec, ImplementsFencedQueue

-----------------------------------------------------------------------------
(* Sends and their reasons.                                                *)

(* No two calls were handed the same generation of a row. *)
DistinctClaims ==
  \A p, q \in Dispatchers : \A i \in call[p].todo \cap call[q].todo :
    p # q => call[p].claim[i].gen # call[q].claim[i].gen

(* A claim has no attempt row before its call comes to mark it. *)
Unrecorded ==
  \A p \in Dispatchers : \A i \in call[p].todo :
    ~(call[p].step = "mark" /\ call[p].item = i) =>
      \A a \in audit[i] : a.gen # call[p].claim[i].gen

(* The account of an item: a send has been paid for by a fault or by a     *)
(* recorded retryable failure, or it is the one send the item is due.      *)
(* Calls that may still send it though their claim is stale were charged   *)
(* when it became stale.                                                   *)
Retried(i) == {a \in audit[i] : a.outcome \in Retryable}

Current(p, i) == Owns(p, i) /\ row[i].expiresIn > 0

MaySend(p, i) ==
  i \in call[p].todo /\ (call[p].item = i => call[p].step = "send")

Stragglers(i) == {p \in Dispatchers : MaySend(p, i) /\ ~Current(p, i)}

(* The owner of the live lease has come past the send, and its outcome is  *)
(* not a failure the ledger already shows. *)
Sending(p, i) ==
  /\ call[p].item = i
  /\ \/ call[p].step = "save"
     \/ call[p].step = "mark" /\ call[p].outcome \notin Retryable
  /\ Current(p, i)

Dispatched(i) ==
  row[i].status \in Closed \/ \E p \in Dispatchers : Sending(p, i)

Balanced(i) ==
  /\ IsFiniteSet(Stragglers(i)) /\ IsFiniteSet(Retried(i))
  /\ sends[i] + Cardinality(Stragglers(i)) <=
       faults + Cardinality(Retried(i)) + (IF Dispatched(i) THEN 1 ELSE 0)

AccountInv ==
  DistinctClaims /\ Unrecorded /\ \A i \in Items : Balanced(i)

(* Removing members never adds to a count, and adding one adds at most one. *)
LEMMA Fewer ==
  ASSUME NEW S, NEW T, IsFiniteSet(S), T \subseteq S
  PROVE  /\ IsFiniteSet(T) /\ Cardinality(T) \in Nat /\ Cardinality(S) \in Nat
         /\ Cardinality(T) <= Cardinality(S)
  BY FS_Subset, FS_CardinalityType

(* A set with a member taken out counts one less.                          *)
LEMMA OneLess ==
  ASSUME NEW S, NEW x \in S, NEW T, IsFiniteSet(S), T \subseteq S \ {x}
  PROVE  /\ IsFiniteSet(T) /\ Cardinality(T) \in Nat /\ Cardinality(S) \in Nat
         /\ Cardinality(T) + 1 <= Cardinality(S)
<1>1. /\ IsFiniteSet(S \ {x})
      /\ Cardinality(S \ {x}) = Cardinality(S) - 1
  BY FS_RemoveElement
<1> QED  BY <1>1, Fewer, FS_CardinalityType

(* A set with a member put in counts at most one more.                     *)
LEMMA OneMore ==
  ASSUME NEW S, NEW x, NEW T, IsFiniteSet(S), T \subseteq S \cup {x}
  PROVE  /\ IsFiniteSet(T) /\ Cardinality(T) \in Nat /\ Cardinality(S) \in Nat
         /\ Cardinality(T) <= Cardinality(S) + 1
<1>1. /\ IsFiniteSet(S \cup {x})
      /\ Cardinality(S \cup {x}) \in {Cardinality(S), Cardinality(S) + 1}
  BY FS_AddElement
<1>2. Cardinality(S) \in Nat
  BY FS_CardinalityType
<1> QED  BY <1>1, <1>2, Fewer

(* A step that sends nothing for an item keeps its account, if no call     *)
(* becomes a straggler and the dispatch is lost only to a fault or to a    *)
(* retryable failure that the step records.                                *)
LEMMA Kept ==
  ASSUME TypeOK, NEW i \in Items, Balanced(i), sends'[i] = sends[i],
         Stragglers(i)' \subseteq Stragglers(i),
         NEW a, audit[i] \subseteq audit'[i], audit'[i] \subseteq audit[i] \cup {a},
         \/ faults' = faults + 1
         \/ /\ faults' = faults
            /\ \/ Dispatched(i) => Dispatched(i)'
               \/ a \in Retried(i)' /\ a \notin Retried(i)
  PROVE  Balanced(i)'
<1> DEFINE S == Stragglers(i)
           T == Stragglers(i)'
           R == Retried(i)
           Q == Retried(i)'
           credit == IF Dispatched(i) THEN 1 ELSE 0
           credit2 == IF Dispatched(i)' THEN 1 ELSE 0
<1>1. /\ IsFiniteSet(S) /\ IsFiniteSet(R) /\ T \subseteq S
      /\ sends[i] + Cardinality(S) <= faults + Cardinality(R) + credit
  BY DEF Balanced
<1>2. sends[i] \in Nat /\ faults \in Nat
  BY DEF TypeOK
<1>3. R \subseteq Q /\ Q \subseteq R \cup {a}
  BY DEF Retried
<1>4. credit \in {0, 1} /\ credit2 \in {0, 1}
  OBVIOUS
<1>5. \/ faults' = faults + 1
      \/ faults' = faults /\ credit <= credit2
      \/ faults' = faults /\ a \in Q /\ R \subseteq Q \ {a}
  BY <1>3
<1> HIDE DEF S, T, R, Q, credit, credit2
<1>6. /\ IsFiniteSet(Q) /\ Cardinality(Q) \in Nat /\ Cardinality(R) \in Nat
      /\ Cardinality(R) <= Cardinality(Q)
  BY <1>1, <1>3, OneMore, Fewer
<1>7. a \in Q /\ R \subseteq Q \ {a} => Cardinality(R) + 1 <= Cardinality(Q)
  BY <1>6, OneLess
<1>8. /\ IsFiniteSet(T) /\ Cardinality(T) \in Nat /\ Cardinality(S) \in Nat
      /\ Cardinality(T) <= Cardinality(S)
  BY <1>1, Fewer
<1>9. sends[i] + Cardinality(T) <= faults' + Cardinality(Q) + credit2
  BY <1>1, <1>2, <1>4, <1>5, <1>6, <1>7, <1>8
<1> QED  BY <1>6, <1>8, <1>9 DEF Balanced, T, Q, credit2

(* A send keeps the account if it was charged in advance or if it is the   *)
(* one that was due.                                                       *)
LEMMA Repeated ==
  ASSUME TypeOK, NEW i \in Items, Balanced(i), sends'[i] = sends[i] + 1,
         Stragglers(i)' \subseteq Stragglers(i), audit' = audit,
         Dispatched(i) => Dispatched(i)', faults' = faults,
         \/ ~Dispatched(i) /\ Dispatched(i)'
         \/ \E p \in Stragglers(i) : p \notin Stragglers(i)'
  PROVE  Balanced(i)'
<1> DEFINE S == Stragglers(i)
           T == Stragglers(i)'
           R == Retried(i)
           credit == IF Dispatched(i) THEN 1 ELSE 0
           credit2 == IF Dispatched(i)' THEN 1 ELSE 0
<1>1. /\ IsFiniteSet(S) /\ IsFiniteSet(R) /\ T \subseteq S
      /\ sends[i] + Cardinality(S) <= faults + Cardinality(R) + credit
  BY DEF Balanced
<1>2. sends[i] \in Nat /\ faults \in Nat /\ Retried(i)' = R
  BY DEF TypeOK, Retried
<1>3. credit \in {0, 1} /\ credit2 \in {0, 1} /\ credit <= credit2
  OBVIOUS
<1>4. \/ credit = 0 /\ credit2 = 1
      \/ \E p \in S : p \notin T
  OBVIOUS
<1> HIDE DEF S, T, R, credit, credit2
<1>5. /\ IsFiniteSet(T) /\ Cardinality(T) \in Nat /\ Cardinality(S) \in Nat
      /\ Cardinality(T) <= Cardinality(S) /\ Cardinality(R) \in Nat
  BY <1>1, Fewer
<1>6. (\E p \in S : p \notin T) => Cardinality(T) + 1 <= Cardinality(S)
  BY <1>1, OneLess
<1>7. sends[i] + 1 + Cardinality(T) <= faults + Cardinality(R) + credit2
  BY <1>1, <1>2, <1>3, <1>4, <1>5, <1>6
<1>8. /\ IsFiniteSet(Stragglers(i)') /\ IsFiniteSet(Retried(i)')
      /\ sends'[i] + Cardinality(Stragglers(i)')
           <= faults' + Cardinality(Retried(i)') + (IF Dispatched(i)' THEN 1 ELSE 0)
  BY <1>1, <1>2, <1>5, <1>7 DEF T, credit2
<1> QED  BY <1>8 DEF Balanced

(* A lease that runs out under a call that may still send is a fault, which*)
(* pays in advance for the send.                                           *)
LEMMA Overrun ==
  ASSUME TypeOK, NEW i \in Items, Balanced(i), sends'[i] = sends[i],
         NEW p, Stragglers(i)' \subseteq Stragglers(i) \cup {p},
         audit' = audit, ~Dispatched(i), faults' = faults + 1
  PROVE  Balanced(i)'
<1> DEFINE S == Stragglers(i)
           T == Stragglers(i)'
           R == Retried(i)
           credit2 == IF Dispatched(i)' THEN 1 ELSE 0
<1>1. /\ IsFiniteSet(S) /\ IsFiniteSet(R) /\ T \subseteq S \cup {p}
      /\ sends[i] + Cardinality(S) <= faults + Cardinality(R) + 0
  BY DEF Balanced
<1>2. sends[i] \in Nat /\ faults \in Nat /\ Retried(i)' = R
  BY DEF TypeOK, Retried
<1>3. credit2 \in {0, 1}
  OBVIOUS
<1> HIDE DEF S, T, R, credit2
<1>4. /\ IsFiniteSet(T) /\ Cardinality(T) \in Nat /\ Cardinality(S) \in Nat
      /\ Cardinality(T) <= Cardinality(S) + 1
  BY <1>1, OneMore
<1>5. Cardinality(R) \in Nat
  BY <1>1, Fewer
<1>6. sends[i] + Cardinality(T) <= faults + 1 + Cardinality(R) + credit2
  BY <1>1, <1>2, <1>3, <1>4, <1>5
<1>7. /\ IsFiniteSet(Stragglers(i)') /\ IsFiniteSet(Retried(i)')
      /\ sends'[i] + Cardinality(Stragglers(i)')
           <= faults' + Cardinality(Retried(i)') + (IF Dispatched(i)' THEN 1 ELSE 0)
  BY <1>1, <1>2, <1>4, <1>6 DEF T, credit2
<1> QED  BY <1>7 DEF Balanced

-----------------------------------------------------------------------------
(* What the steps do to the claims and to the account.                     *)

(* A call that works on or ends never gets back to what it has left.       *)
LEMMA CallGoesOn ==
  ASSUME IndInv, NEW p \in Dispatchers, Work(p) \/ Abort(p)
  PROVE  /\ Advances(p)
         /\ \A i \in call'[p].todo :
              call[p].step = "mark" /\ call[p].item = i =>
                call'[p].step = "mark" /\ call'[p].item = i
         /\ \A i \in Items : MaySend(p, i)' => MaySend(p, i)
<1>0. TypeOK /\ CallShape /\ (call[p].step \in {"idle", "read"} => call[p].item = None)
  BY DEF IndInv, CallShape, Shaped
<1>1. ASSUME NEW i \in Items, ReadLedger(p, i)
      PROVE  /\ Advances(p) /\ call[p].step = "read" /\ call'[p].item = i
             /\ call'[p].step \in {"send", "mark"} /\ i \in call[p].todo
  <2>1. i \in call[p].todo /\ call[p].step = "read"
    BY <1>1 DEF ReadLedger, Working
  <2>2. CASE Prior(i) = {}
    <3>1. GoTo(p, "send", i, None)
      BY <1>1, <2>2 DEF ReadLedger
    <3> QED  BY <1>0, <2>1, <3>1, GoToAdvances
  <2>3. CASE Prior(i) # {}
    <3>1. PICK outcome \in Prior(i) : GoTo(p, "mark", i, outcome)
      BY <1>1, <2>3 DEF ReadLedger
    <3>2. outcome \in Outcomes
      BY DEF Prior, Outcomes
    <3> QED  BY <1>0, <2>1, <3>1, <3>2, GoToAdvances
  <2> QED  BY <2>2, <2>3
<1>2. ASSUME call[p].step \in {"send", "save"},
             NEW step \in {"save", "mark"}, NEW outcome \in Outcomes,
             GoTo(p, step, call[p].item, outcome)
      PROVE  /\ Advances(p) /\ call'[p].step = step
             /\ call'[p].item = call[p].item
  <2>1. call[p].item \in call[p].todo
    BY <1>0, <1>2, ItemInHand
  <2> QED  BY <1>0, <1>2, <2>1, GoToAdvances
<1>3. CASE \E i \in Items : ReadLedger(p, i)
  BY <1>0, <1>1, <1>3 DEF MaySend, Advances
<1>4. CASE Refuse(p) \/ \E outcome \in Outcomes : Send(p, outcome)
  <2>1. /\ call[p].step = "send"
        /\ \E outcome \in Outcomes : GoTo(p, "save", call[p].item, outcome)
    BY <1>4 DEF Refuse, Send, Working, Outcomes
  <2>2. /\ Advances(p) /\ call'[p].step = "save"
        /\ call'[p].item = call[p].item
    BY <1>2, <2>1
  <2> QED  BY <2>1, <2>2 DEF MaySend, Advances
<1>5. CASE SaveAttempt(p)
  <2>1. /\ call[p].step = "save"
        /\ GoTo(p, "mark", call[p].item, call[p].outcome)
        /\ call[p].outcome \in Outcomes
    BY <1>0, <1>5 DEF SaveAttempt, Working, CallShape, Shaped
  <2>2. /\ Advances(p) /\ call'[p].step = "mark"
        /\ call'[p].item = call[p].item
    BY <1>2, <2>1
  <2> QED  BY <2>1, <2>2 DEF MaySend, Advances
<1>6. CASE MarkClaim(p) /\ NextItem(p)
  <2>1. /\ Advances(p) /\ call'[p].item = None
        /\ call[p].item \notin call'[p].todo
    BY <1>0, <1>6, NextItemAdvances
  <2> QED  BY <2>1, ItemsAssumption DEF MaySend, Advances
<1>7. CASE call' = [call EXCEPT ![p] = IdleCall]
  <2>1. Advances(p) /\ call'[p].todo = {}
    BY <1>0, <1>7, IdleAdvances DEF IdleCall, TypeOK
  <2> QED  BY <2>1 DEF MaySend
<1> QED  BY <1>3, <1>4, <1>5, <1>6, <1>7 DEF Work, Abort, MarkClaim

(* What a claim makes of the rows and of the call that makes it.           *)
LEMMA ClaimFacts ==
  ASSUME IndInv, NEW p \in Dispatchers, ClaimDue(p)
  PROVE  \E batch \in SUBSET Items :
           /\ \A i \in batch :
                /\ row[i].status \notin Closed
                /\ row[i].status = "dispatching" => row[i].expiresIn = 0
                /\ row'[i].holder = p
                /\ row'[i].gen = row[i].gen + 1
                /\ row'[i].expiresIn = ClaimTTL
                /\ call'[p].claim[i].gen = row[i].gen + 1
           /\ \A i \in Items \ batch : row'[i] = row[i]
           /\ call[p].todo = {} /\ call'[p].todo = batch
           /\ call'[p].step = "read" /\ call'[p].item = None
           /\ \A q \in Dispatchers \ {p} : call'[q] = call[q]
<1>0. TypeOK /\ call[p].todo = {}
  BY DEF ClaimDue, IndInv, CallShape, Shaped
<1>1. PICK batch \in SUBSET Items :
        /\ \A i \in batch : Due(i)
        /\ row' = [i \in Items |->
             IF i \in batch THEN Claimed(row[i], p) ELSE row[i]]
        /\ call' = [call EXCEPT ![p] =
             [step |-> "read", todo |-> batch, item |-> None, outcome |-> None,
              elapsed |-> 0,
              claim |-> [i \in Items |->
                IF i \in batch
                THEN [gen |-> row[i].gen + 1, attempts |-> row[i].attempts]
                ELSE NoClaim]]]
  BY DEF ClaimDue
<1>2. \A i \in batch :
        /\ row[i].status \notin Closed
        /\ row[i].status = "dispatching" => row[i].expiresIn = 0
        /\ row'[i].holder = p
        /\ row'[i].gen = row[i].gen + 1
        /\ row'[i].expiresIn = ClaimTTL
  BY <1>1 DEF Due, Closed, Claimed
<1>3. \A i \in Items \ batch : row'[i] = row[i]
  BY <1>1
<1>4. /\ call'[p].todo = batch /\ call'[p].step = "read" /\ call'[p].item = None
      /\ \A i \in batch : call'[p].claim[i].gen = row[i].gen + 1
  BY <1>0, <1>1 DEF TypeOK
<1>5. \A q \in Dispatchers \ {p} : call'[q] = call[q]
  BY <1>0, <1>1 DEF TypeOK
<1> QED  BY <1>0, <1>2, <1>3, <1>4, <1>5

(* Generations are handed out once.                                        *)
LEMMA DistinctClaimsStep ==
  ASSUME IndInv, [Next]_vars, DistinctClaims
  PROVE  DistinctClaims'
<1>0. TypeOK
  BY DEF IndInv
<1>1. ASSUME NEW p \in Dispatchers, Work(p) \/ Abort(p)
      PROVE  DistinctClaims'
  <2>1. Advances(p)
    BY <1>1, CallGoesOn
  <2> QED  BY <2>1 DEF DistinctClaims, Advances
<1>2. ASSUME NEW p \in Dispatchers, ClaimDue(p)
      PROVE  DistinctClaims'
  <2>1. PICK batch \in SUBSET Items :
          /\ \A i \in batch : call'[p].claim[i].gen = row[i].gen + 1
          /\ call'[p].todo = batch
          /\ \A q \in Dispatchers \ {p} : call'[q] = call[q]
    BY <1>2, ClaimFacts
  <2>2. ASSUME NEW q \in Dispatchers \ {p}, NEW i \in batch, i \in call[q].todo
        PROVE  call[q].claim[i].gen # row[i].gen + 1
    <3>1. /\ call[q].claim[i].gen \in Nat /\ row[i].gen \in Nat
          /\ call[q].claim[i].gen <= row[i].gen
      BY <1>0, <2>2, Fields DEF IndInv, Fence
    <3> QED  BY <3>1
  <2> QED  BY <2>1, <2>2 DEF DistinctClaims
<1>3. ASSUME \A p \in Dispatchers :
               call'[p].todo = call[p].todo /\ call'[p].claim = call[p].claim
      PROVE  DistinctClaims'
  BY <1>3 DEF DistinctClaims
<1>4. CASE Tick
  BY <1>0, <1>3, <1>4, Passed
<1>5. CASE (\E i \in Items : Stage(i)) \/ UNCHANGED vars
  BY <1>3, <1>5 DEF Stage, vars
<1> QED  BY <1>1, <1>2, <1>4, <1>5 DEF Next

(* A call saves an attempt for a claim once.                               *)
LEMMA UnrecordedStep ==
  ASSUME IndInv, [Next]_vars, DistinctClaims, Unrecorded
  PROVE  Unrecorded'
<1>0. TypeOK
  BY DEF IndInv
<1>1. ASSUME NEW p \in Dispatchers, Work(p) \/ Abort(p), audit' = audit
      PROVE  Unrecorded'
  <2>1. /\ Advances(p)
        /\ \A i \in call'[p].todo :
             call[p].step = "mark" /\ call[p].item = i =>
               call'[p].step = "mark" /\ call'[p].item = i
    BY <1>1, CallGoesOn
  <2> QED  BY <1>1, <2>1 DEF Unrecorded, Advances
<1>2. ASSUME NEW p \in Dispatchers, SaveAttempt(p)
      PROVE  Unrecorded'
  <2> DEFINE i == call[p].item
             new == [gen |-> call[p].claim[i].gen, outcome |-> call[p].outcome]
  <2>1. /\ call[p].step = "save" /\ GoTo(p, "mark", i, call[p].outcome)
        /\ audit' = [audit EXCEPT ![i] = @ \cup {new}]
    BY <1>2 DEF SaveAttempt, Working
  <2>2. i \in Items /\ i \in call[p].todo
    BY <1>0, <2>1, ItemInHand DEF IndInv
  <2>3. Advances(p) /\ call'[p].step = "mark" /\ call'[p].item = i
    BY <1>0, <2>1, <2>2, GoToAdvances DEF IndInv, CallShape, Shaped
  <2>4. ASSUME NEW q \in Dispatchers, NEW j \in call'[q].todo,
               ~(call'[q].step = "mark" /\ call'[q].item = j), NEW a \in audit'[j]
        PROVE  a.gen # call'[q].claim[j].gen
    <3>1. j \in call[q].todo /\ call'[q].claim[j] = call[q].claim[j] /\ j \in Items
      BY <1>0, <2>3, Fields DEF Advances
    <3>2. ~(call[q].step = "mark" /\ call[q].item = j)
      BY <2>1, <2>3, <2>4 DEF Advances
    <3>3. CASE a \in audit[j]
      BY <3>1, <3>2, <3>3 DEF Unrecorded
    <3>4. CASE a \notin audit[j]
      <4>1. j = i /\ a.gen = call[p].claim[i].gen
        BY <1>0, <2>1, <2>2, <3>1, <3>4 DEF TypeOK
      <4>2. q # p
        BY <2>3, <2>4, <4>1
      <4> QED  BY <2>2, <3>1, <4>1, <4>2 DEF DistinctClaims
    <3> QED  BY <3>3, <3>4
  <2> QED  BY <2>4 DEF Unrecorded
<1>3. ASSUME NEW p \in Dispatchers, ClaimDue(p)
      PROVE  Unrecorded'
  <2>1. PICK batch \in SUBSET Items :
          /\ \A i \in batch : call'[p].claim[i].gen = row[i].gen + 1
          /\ call'[p].todo = batch
          /\ \A q \in Dispatchers \ {p} : call'[q] = call[q]
    BY <1>3, ClaimFacts
  <2>2. ASSUME NEW i \in batch, NEW a \in audit[i]
        PROVE  a.gen # row[i].gen + 1
    <3>1. a.gen \in Nat /\ row[i].gen \in Nat /\ a.gen <= row[i].gen
      BY <1>0, Fields DEF IndInv, Ledger, TypeOK
    <3> QED  BY <3>1
  <2> QED  BY <1>3, <2>1, <2>2 DEF Unrecorded, ClaimDue
<1>4. ASSUME audit' = audit,
             \A p \in Dispatchers :
               /\ call'[p].todo = call[p].todo /\ call'[p].claim = call[p].claim
               /\ call'[p].item = call[p].item /\ call'[p].step = call[p].step
      PROVE  Unrecorded'
  BY <1>4 DEF Unrecorded
<1>5. CASE Tick
  <2>1. audit' = audit
    BY <1>5 DEF Tick
  <2> QED  BY <1>0, <1>4, <1>5, <2>1, Passed
<1>6. CASE (\E i \in Items : Stage(i)) \/ UNCHANGED vars
  BY <1>4, <1>6 DEF Stage, vars
<1>7. \A p \in Dispatchers :
        Work(p) \/ Abort(p) => SaveAttempt(p) \/ audit' = audit
  BY DEF Work, ReadLedger, Refuse, Send, MarkClaim, Abort
<1> QED  BY <1>1, <1>2, <1>3, <1>5, <1>6, <1>7 DEF Next

(* One call at most has the current claim of a row, and the row is being   *)
(* dispatched. *)
LEMMA CurrentClaim ==
  ASSUME IndInv, NEW p \in Dispatchers, NEW i \in Items, Owns(p, i)
  PROVE  /\ row[i].status = "dispatching"
         /\ row[i].status \notin Closed
         /\ \A q \in Dispatchers : Owns(q, i) => q = p
  BY DEF IndInv, RowShape, Owns, Closed

(* A step of a call that leaves the rows alone makes nobody a straggler;   *)
(* the dispatch it may lose is its own.                                    *)
LEMMA GoesOnQuietly ==
  ASSUME IndInv, NEW p \in Dispatchers, Work(p) \/ Abort(p), row' = row,
         NEW i \in Items
  PROVE  /\ Stragglers(i)' \subseteq Stragglers(i)
         /\ Dispatched(i) => Dispatched(i)' \/ Sending(p, i)
<1>1. Advances(p) /\ (MaySend(p, i)' => MaySend(p, i))
  BY CallGoesOn
<1>2. \A q \in Dispatchers :
        i \in call'[q].todo => (Current(q, i)' <=> Current(q, i))
  BY <1>1 DEF Current, Owns, Advances
<1>3. \A q \in Dispatchers : MaySend(q, i)' => MaySend(q, i) /\ i \in call'[q].todo
  BY <1>1 DEF MaySend, Advances
<1>4. Stragglers(i)' \subseteq Stragglers(i)
  BY <1>2, <1>3 DEF Stragglers
<1>5. ASSUME NEW q \in Dispatchers, Sending(q, i), q # p
      PROVE  Sending(q, i)'
  BY <1>1, <1>5 DEF Sending, Current, Owns, Advances
<1> QED  BY <1>4, <1>5 DEF Dispatched

(* A fenced update ends the claim of its owner only, and closes the row    *)
(* unless the ledger shows a retryable failure.                            *)
LEMMA SettlesQuietly ==
  ASSUME IndInv, NEW p \in Dispatchers, MarkClaim(p), Owns(p, call[p].item),
         NEW i \in Items
  PROVE  /\ Stragglers(i)' \subseteq Stragglers(i)
         /\ Dispatched(i) => Dispatched(i)'
<1> DEFINE j == call[p].item
           r == ClosedRow(p, j)
<1>1. TypeOK /\ CallShape /\ call[p].step = "mark"
  BY DEF MarkClaim, Working, IndInv
<1>2. j \in Items /\ call[p].outcome \in Outcomes
  BY <1>1, ItemInHand DEF CallShape, Shaped
<1>3. /\ r.holder = None
      /\ call[p].outcome \notin Retryable => r.status \in Closed
  BY <1>1, <1>2, ClosedRowCases DEF Closed
<1>4. row' = [row EXCEPT ![j] = r]
  BY DEF MarkClaim
<1> HIDE DEF r
<1>5. row'[j] = r /\ \A k \in Items \ {j} : row'[k] = row[k]
  BY <1>1, <1>2, <1>4 DEF TypeOK
<1>6. Work(p) /\ Advances(p) /\ (MaySend(p, i)' => MaySend(p, i))
  <2>1. Work(p)
    BY DEF Work
  <2> QED  BY <2>1, CallGoesOn
<1>7. row[j].status \notin Closed /\ \A q \in Dispatchers : Owns(q, j) => q = p
  BY <1>2, CurrentClaim
<1>8. \A q \in Dispatchers :
        MaySend(q, i)' => MaySend(q, i) /\ call'[q].claim[i] = call[q].claim[i]
  BY <1>6 DEF MaySend, Advances
<1>9. \A q \in Dispatchers :
        MaySend(q, i)' /\ Current(q, i) => Current(q, i)'
  <2> SUFFICES ASSUME NEW q \in Dispatchers, MaySend(q, i)', Current(q, i)
               PROVE  Current(q, i)'
    OBVIOUS
  <2>1. i # j
    <3> SUFFICES ASSUME i = j
                 PROVE  FALSE
      OBVIOUS
    <3>1. q = p
      BY <1>7 DEF Current
    <3>2. MaySend(p, j)
      BY <1>8, <3>1
    <3> QED  BY <1>1, <3>2 DEF MaySend
  <2> QED  BY <1>5, <1>8, <2>1 DEF Current, Owns
<1>10. Stragglers(i)' \subseteq Stragglers(i)
  BY <1>8, <1>9 DEF Stragglers
<1>11. ASSUME Dispatched(i)
       PROVE  Dispatched(i)'
  <2>1. CASE i # j
    <3>1. \A q \in Dispatchers : Sending(q, i) => Sending(q, i)'
      BY <1>5, <1>6, <2>1 DEF Sending, Current, Owns, Advances
    <3> QED  BY <1>5, <1>11, <2>1, <3>1 DEF Dispatched
  <2>2. CASE i = j
    <3>1. PICK q \in Dispatchers : Sending(q, i)
      BY <1>7, <1>11, <2>2 DEF Dispatched
    <3>2. q = p
      BY <1>7, <2>2, <3>1 DEF Sending, Current
    <3>3. call[p].outcome \notin Retryable
      BY <1>1, <3>1, <3>2 DEF Sending
    <3> QED  BY <1>3, <1>5, <2>2, <3>3 DEF Dispatched
  <2> QED  BY <2>1, <2>2
<1> QED  BY <1>10, <1>11

(* A claim is for rows that are not closed and that nobody holds any more. *)
LEMMA ClaimQuietly ==
  ASSUME IndInv, NEW p \in Dispatchers, ClaimDue(p), NEW i \in Items
  PROVE  /\ Stragglers(i)' \subseteq Stragglers(i)
         /\ Dispatched(i) => Dispatched(i)'
<1>1. PICK batch \in SUBSET Items :
        /\ \A j \in batch :
             /\ row[j].status \notin Closed
             /\ row[j].status = "dispatching" => row[j].expiresIn = 0
             /\ row'[j].holder = p
             /\ row'[j].gen = row[j].gen + 1
             /\ row'[j].expiresIn = ClaimTTL
             /\ call'[p].claim[j].gen = row[j].gen + 1
        /\ \A j \in Items \ batch : row'[j] = row[j]
        /\ call[p].todo = {} /\ call'[p].todo = batch
        /\ call'[p].step = "read" /\ call'[p].item = None
        /\ \A q \in Dispatchers \ {p} : call'[q] = call[q]
  BY ClaimFacts
<1>2. ASSUME i \in batch, NEW q \in Dispatchers
      PROVE  ~Current(q, i)
  BY <1>1, <1>2, CurrentClaim DEF Current
<1>3. ASSUME NEW q \in Dispatchers, MaySend(q, i)', ~Current(q, i)'
      PROVE  MaySend(q, i) /\ ~Current(q, i)
  <2>1. CASE q = p
    <3>1. i \in batch
      BY <1>1, <1>3, <2>1 DEF MaySend
    <3>2. Current(p, i)'
      BY <1>1, <3>1, DurationsAssumption DEF Current, Owns
    <3> QED  BY <1>3, <2>1, <3>2
  <2>2. CASE q # p
    <3>1. MaySend(q, i)
      BY <1>1, <1>3, <2>2 DEF MaySend
    <3>2. i \notin batch => ~Current(q, i)
      BY <1>1, <1>3, <2>2 DEF Current, Owns
    <3> QED  BY <1>2, <3>1, <3>2
  <2> QED  BY <2>1, <2>2
<1>4. Stragglers(i)' \subseteq Stragglers(i)
  BY <1>3 DEF Stragglers
<1>5. ASSUME Dispatched(i)
      PROVE  Dispatched(i)'
  <2>1. i \notin batch
    BY <1>1, <1>2, <1>5 DEF Dispatched, Sending
  <2>2. \A q \in Dispatchers : Sending(q, i) => q # p
    BY <1>1, ItemInHand DEF Sending, IndInv
  <2>3. \A q \in Dispatchers : Sending(q, i) => Sending(q, i)'
    BY <1>1, <2>1, <2>2 DEF Sending, Current, Owns
  <2> QED  BY <1>1, <1>5, <2>1, <2>3 DEF Dispatched
<1> QED  BY <1>4, <1>5

(* The clock: a lease that runs out under its call is a fault; all else is *)
(* as before.                                                              *)
LEMMA TickAccount ==
  ASSUME IndInv, Tick, NEW i \in Items, Balanced(i)
  PROVE  Balanced(i)'
<1>0. TypeOK /\ row[i].expiresIn \in Nat
  BY Fields DEF IndInv
<1>1. /\ row'[i].status = row[i].status /\ row'[i].holder = row[i].holder
      /\ row'[i].gen = row[i].gen
      /\ row'[i].expiresIn = Earlier(row[i].expiresIn)
      /\ \A q \in Dispatchers :
           /\ call'[q].step = call[q].step /\ call'[q].todo = call[q].todo
           /\ call'[q].item = call[q].item /\ call'[q].claim = call[q].claim
           /\ call'[q].outcome = call[q].outcome
  BY <1>0, Passed
<1>2. sends' = sends /\ audit' = audit
  BY DEF Tick
<1>3. \A q \in Dispatchers :
        /\ MaySend(q, i)' <=> MaySend(q, i)
        /\ Owns(q, i)' <=> Owns(q, i)
        /\ row[i].expiresIn # 1 => (Current(q, i)' <=> Current(q, i))
        /\ Current(q, i)' => Current(q, i)
  BY <1>0, <1>1 DEF MaySend, Owns, Current, Earlier
<1>4. CASE \E q \in Dispatchers :
             i \in call[q].todo /\ Owns(q, i) /\ row[i].expiresIn = 1
  <2>1. PICK p \in Dispatchers :
          i \in call[p].todo /\ Owns(p, i) /\ row[i].expiresIn = 1
    BY <1>4
  <2>2. row[i].status \notin Closed /\ \A q \in Dispatchers : Owns(q, i) => q = p
    BY <2>1, CurrentClaim
  <2>3. faults' = faults + 1
    BY <2>1 DEF Tick, Overruns, Fault
  <2>4. \A q \in Dispatchers \ {p} : q \in Stragglers(i)' => q \in Stragglers(i)
    BY <1>3, <2>2 DEF Stragglers, Current
  <2>5. CASE ~MaySend(p, i)
    <3>1. Stragglers(i)' \subseteq Stragglers(i)
      BY <1>3, <2>4, <2>5 DEF Stragglers
    <3> QED  BY <1>0, <1>2, <2>3, <3>1, Kept
  <2>6. CASE MaySend(p, i)
    <3>1. ~Dispatched(i)
      BY <2>2, <2>6 DEF Dispatched, Sending, Current, MaySend
    <3>2. Stragglers(i)' \subseteq Stragglers(i) \cup {p}
      BY <2>4 DEF Stragglers
    <3> QED  BY <1>0, <1>2, <2>3, <3>1, <3>2, Overrun
  <2> QED  BY <2>5, <2>6
<1>5. CASE \A q \in Dispatchers :
             ~(i \in call[q].todo /\ Owns(q, i) /\ row[i].expiresIn = 1)
  <2>1. \A q \in Dispatchers :
          i \in call[q].todo => (Current(q, i)' <=> Current(q, i))
    BY <1>3, <1>5 DEF Current
  <2>2. Stragglers(i)' \subseteq Stragglers(i)
    BY <1>3, <2>1 DEF Stragglers, MaySend
  <2>3. \A q \in Dispatchers : Sending(q, i) => i \in call[q].todo
    BY <1>0, ItemInHand DEF Sending, IndInv
  <2>4. \A q \in Dispatchers : Sending(q, i) => Sending(q, i)'
    BY <1>1, <2>1, <2>3 DEF Sending
  <2>5. Dispatched(i) => Dispatched(i)'
    BY <1>1, <2>4 DEF Dispatched
  <2>6. faults' = faults \/ faults' = faults + 1
    BY DEF Tick, Fault
  <2> QED  BY <1>0, <1>2, <2>2, <2>5, <2>6, Kept
<1> QED  BY <1>4, <1>5

(* Every step keeps the account of every item.                             *)
LEMMA AccountStep ==
  ASSUME IndInv, [Next]_vars, Unrecorded, NEW i \in Items, Balanced(i)
  PROVE  Balanced(i)'
<1>0. TypeOK /\ CallShape /\ faults \in Nat /\ sends \in [Items -> Nat]
  BY DEF IndInv, TypeOK
<1>1. ASSUME NEW j \in Items, Stage(j)
      PROVE  Balanced(i)'
  <2>1. /\ row[j].status = "absent" /\ call' = call
        /\ row'[i].holder = row[i].holder /\ row'[i].gen = row[i].gen
        /\ row'[i].expiresIn = row[i].expiresIn
        /\ i # j => row'[i] = row[i]
    BY <1>0, <1>1 DEF Stage, TypeOK, Row
  <2>2. \A q \in Dispatchers : Current(q, i)' <=> Current(q, i)
    BY <2>1 DEF Current, Owns
  <2>3. /\ Stragglers(i)' \subseteq Stragglers(i)
        /\ Dispatched(i) => Dispatched(i)'
    BY <2>1, <2>2 DEF Stragglers, MaySend, Dispatched, Sending, Closed
  <2> QED  BY <1>0, <1>1, <2>3, Kept DEF Stage
<1>2. ASSUME NEW p \in Dispatchers, ClaimDue(p)
      PROVE  Balanced(i)'
  BY <1>0, <1>2, ClaimQuietly, Kept DEF ClaimDue
<1>3. ASSUME NEW p \in Dispatchers, (\E j \in Items : ReadLedger(p, j)) \/ Refuse(p)
      PROVE  Balanced(i)'
  <2>1. /\ Work(p) /\ call[p].step \in {"read", "send"}
        /\ UNCHANGED <<row, audit, sends, faults>>
    BY <1>3 DEF Work, ReadLedger, Refuse, Working
  <2>2. ~Sending(p, i)
    BY <2>1 DEF Sending
  <2>3. /\ Stragglers(i)' \subseteq Stragglers(i)
        /\ Dispatched(i) => Dispatched(i)'
    BY <2>1, <2>2, GoesOnQuietly
  <2> QED  BY <1>0, <2>1, <2>3, Kept
<1>4. ASSUME NEW p \in Dispatchers, NEW outcome \in Outcomes, Send(p, outcome)
      PROVE  Balanced(i)'
  <2> DEFINE j == call[p].item
  <2>1. /\ Work(p) /\ call[p].step = "send" /\ GoTo(p, "save", j, outcome)
        /\ UNCHANGED <<row, audit, faults>>
        /\ sends'[i] = IF i = j THEN sends[i] + 1 ELSE sends[i]
    BY <1>0, <1>4 DEF Work, Send, Working
  <2>2. j \in Items /\ j \in call[p].todo
    BY <1>0, <2>1, ItemInHand
  <2>3. /\ Stragglers(i)' \subseteq Stragglers(i)
        /\ Dispatched(i) => Dispatched(i)'
    BY <2>1, GoesOnQuietly DEF Sending
  <2>4. /\ call'[p].step = "save" /\ call'[p].item = j
        /\ call'[p].claim = call[p].claim
    BY <1>0, <2>1, <2>2, GoToAdvances
  <2>5. Current(p, j)' <=> Current(p, j)
    BY <2>1, <2>4 DEF Current, Owns
  <2>6. CASE i # j
    BY <1>0, <2>1, <2>3, <2>6, Kept
  <2>7. CASE i = j /\ Current(p, j)
    <3>1. ~Dispatched(i)
      BY <2>1, <2>7, CurrentClaim DEF Dispatched, Sending, Current
    <3>2. Dispatched(i)'
      BY <2>4, <2>5, <2>7 DEF Dispatched, Sending
    <3> QED  BY <1>0, <2>1, <2>3, <2>7, <3>1, <3>2, Repeated
  <2>8. CASE i = j /\ ~Current(p, j)
    <3>1. p \in Stragglers(i)
      BY <2>1, <2>2, <2>8 DEF Stragglers, MaySend
    <3>2. p \notin Stragglers(i)'
      BY <2>4, <2>8 DEF Stragglers, MaySend
    <3> QED  BY <1>0, <2>1, <2>3, <2>8, <3>1, <3>2, Repeated
  <2> QED  BY <2>6, <2>7, <2>8
<1>5. ASSUME NEW p \in Dispatchers, SaveAttempt(p)
      PROVE  Balanced(i)'
  <2> DEFINE j == call[p].item
             new == [gen |-> call[p].claim[j].gen, outcome |-> call[p].outcome]
  <2>1. /\ Work(p) /\ call[p].step = "save"
        /\ GoTo(p, "mark", j, call[p].outcome)
        /\ UNCHANGED <<row, sends, faults>>
        /\ audit' = [audit EXCEPT ![j] = @ \cup {new}]
    BY <1>5 DEF Work, SaveAttempt, Working
  <2>2. j \in Items /\ j \in call[p].todo /\ call[p].outcome \in Outcomes
    BY <1>0, <2>1, ItemInHand DEF CallShape, Shaped
  <2>3. /\ Stragglers(i)' \subseteq Stragglers(i)
        /\ Dispatched(i) => Dispatched(i)' \/ Sending(p, i)
    BY <2>1, GoesOnQuietly
  <2>4. /\ call'[p].step = "mark" /\ call'[p].item = j
        /\ call'[p].claim = call[p].claim /\ call'[p].outcome = call[p].outcome
    BY <1>0, <2>1, <2>2, GoToAdvances
  <2>5. audit[i] \subseteq audit'[i] /\ audit'[i] \subseteq audit[i] \cup {new}
    BY <1>0, <2>1, <2>2 DEF TypeOK
  <2>6. CASE Sending(p, i) /\ call[p].outcome \in Retryable
    <3>1. i = j
      BY <2>6 DEF Sending
    <3>2. new \in audit'[i]
      BY <1>0, <2>1, <2>2, <3>1 DEF TypeOK
    <3>3. new \notin audit[i]
      BY <2>1, <2>2, <3>1 DEF Unrecorded
    <3>4. new \in Retried(i)' /\ new \notin Retried(i)
      BY <2>6, <3>2, <3>3 DEF Retried
    <3> HIDE DEF new
    <3> QED  BY <1>0, <2>1, <2>3, <2>5, <3>4, Kept
  <2>7. CASE ~(Sending(p, i) /\ call[p].outcome \in Retryable)
    <3>1. Sending(p, i) => Sending(p, i)'
      BY <2>1, <2>4, <2>7 DEF Sending, Current, Owns
    <3>2. Dispatched(i) => Dispatched(i)'
      BY <2>3, <3>1 DEF Dispatched
    <3> HIDE DEF new
    <3> QED  BY <1>0, <2>1, <2>3, <2>5, <3>2, Kept
  <2> QED  BY <2>6, <2>7
<1>6. ASSUME NEW p \in Dispatchers, MarkClaim(p)
      PROVE  Balanced(i)'
  <2>1. UNCHANGED <<audit, sends, faults>> /\ Work(p)
    BY <1>6 DEF MarkClaim, Work
  <2>2. CASE Owns(p, call[p].item)
    BY <1>0, <1>6, <2>1, <2>2, SettlesQuietly, Kept
  <2>3. CASE ~Owns(p, call[p].item)
    <3>1. row' = row /\ ~Sending(p, i)
      BY <1>6, <2>3 DEF MarkClaim, Sending, Current
    <3> QED  BY <1>0, <2>1, <3>1, GoesOnQuietly, Kept
  <2> QED  BY <2>2, <2>3
<1>7. ASSUME NEW p \in Dispatchers, Abort(p)
      PROVE  Balanced(i)'
  <2>1. UNCHANGED <<row, audit, sends>> /\ faults' = faults + 1
    BY <1>7 DEF Abort, Fault
  <2> QED  BY <1>0, <1>7, <2>1, GoesOnQuietly, Kept
<1>8. CASE Tick
  BY <1>8, TickAccount
<1>9. CASE UNCHANGED vars
  BY <1>9 DEF vars, Balanced, Stragglers, MaySend, Dispatched, Sending, Current,
              Owns, Retried
<1> QED
  BY <1>1, <1>2, <1>3, <1>4, <1>5, <1>6, <1>7, <1>8, <1>9 DEF Next, Work

(* No second send without a reason: every send of an item but one is       *)
(* explained by a retryable failure in its ledger or by a fault of its     *)
(* own, however many calls race for the item and whatever they hold.       *)
THEOREM ResendsAreExplained == Spec => []ResendsHaveReason
<1>1. Init => AccountInv
  <2> SUFFICES ASSUME Init
               PROVE  AccountInv
    OBVIOUS
  <2>1. DistinctClaims /\ Unrecorded
    BY DEF Init, IdleCall, DistinctClaims, Unrecorded
  <2>2. ASSUME NEW i \in Items
        PROVE  Balanced(i)
    <3>1. /\ Stragglers(i) = {} /\ Retried(i) = {} /\ sends[i] = 0 /\ faults = 0
      BY <2>2 DEF Init, Stragglers, MaySend, Retried, IdleCall
    <3> QED  BY <3>1, FS_EmptySet DEF Balanced
  <2> QED  BY <2>1, <2>2 DEF AccountInv
<1>2. IndInv /\ AccountInv /\ [Next]_vars => AccountInv'
  BY DistinctClaimsStep, UnrecordedStep, AccountStep DEF AccountInv
<1>3. IndInv /\ AccountInv => ResendsHaveReason
  <2> SUFFICES ASSUME IndInv, AccountInv, NEW i \in Items
               PROVE  sends[i] <= 1 + faults + Cardinality(Retried(i))
    BY DEF ResendsHaveReason, Retried
  <2>1. sends[i] \in Nat /\ faults \in Nat
    BY DEF IndInv, TypeOK
  <2>2. /\ Balanced(i) /\ Cardinality(Stragglers(i)) \in Nat
        /\ Cardinality(Retried(i)) \in Nat
    BY FS_CardinalityType DEF AccountInv, Balanced
  <2>3. sends[i] + Cardinality(Stragglers(i)) <= faults + Cardinality(Retried(i)) + 1
    BY <2>1, <2>2 DEF Balanced
  <2> QED  BY <2>1, <2>2, <2>3
<1> QED  BY <1>1, <1>2, <1>3, Invariance, PTL DEF Spec
=============================================================================
