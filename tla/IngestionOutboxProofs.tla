------------------------ MODULE IngestionOutboxProofs ------------------------
(***************************************************************************)
(* Theorems about IngestionOutbox for every set of items and publishers,   *)
(* every lease, backoff and threshold, and any number of faults.           *)
(***************************************************************************)
EXTENDS IngestionOutbox, TLAPS, FiniteSetTheorems

-----------------------------------------------------------------------------
(* The inductive invariant, in named parts.                                *)

Sending == {"recordSuccess", "markPublished", "recordFailure", "markFailure"}

(* A call works on an item of its batch; no batch, no call. *)
CallShape ==
  \A p \in Publishers :
    /\ call[p].step = "idle" => call[p].todo = {}
    /\ call[p].step = "publish" => call[p].item = None
    /\ call[p].step \in Sending => call[p].item \in call[p].todo

(* Timers run only in the state they belong to. *)
Timers ==
  \A i \in Items :
    /\ row[i].status # "failed" => row[i].availableIn = 0
    /\ row[i].status # "publishing" => row[i].expiresIn = 0

(* A claimed row was staged and its generation only grows; the fence       *)
(* accepts a claim only while the row is being published and no attempt    *)
(* has been counted since.                                                 *)
Fence ==
  \A p \in Publishers : \A i \in call[p].todo :
    /\ call[p].claim[i].gen <= row[i].gen
    /\ row[i].status # "absent"
    /\ Owns(p, i) => /\ row[i].status = "publishing"
                     /\ call[p].claim[i].attempts = row[i].attempts

(* Two calls never hold the same generation of one row. *)
DistinctGenerations ==
  \A p, q \in Publishers : \A i \in call[p].todo \cap call[q].todo :
    call[p].claim[i].gen = call[q].claim[i].gen => p = q

(* An attempt row names a generation that was handed out, and the one of a *)
(* running claim appears only once the call has recorded it.               *)
AttemptRows ==
  /\ \A i \in Items : \A a \in audit[i] : a.gen <= row[i].gen
  /\ \A p \in Publishers : \A i \in call[p].todo :
       (i # call[p].item \/ call[p].step = "recordSuccess") =>
         \A a \in audit[i] : a.gen # call[p].claim[i].gen

(* What a call has done for its item before it may mark it published. *)
Progress ==
  \A p \in Publishers :
    LET i == call[p].item IN
    /\ call[p].step \in {"recordSuccess", "markPublished"} => sends[i] > 0
    /\ call[p].step = "markPublished" =>
         \E a \in audit[i] : a.success /\ a.gen = call[p].claim[i].gen

(* A row in its owner's hands expires no sooner than its owner's age says. *)
Leases ==
  \A p \in Publishers : \A i \in call[p].todo :
    /\ Owns(p, i) => row[i].expiresIn + call[p].elapsed >= ClaimTTL
    /\ call[p].elapsed < ClaimTTL => Owns(p, i) \/ row[i].status = "published"

IndInv ==
  /\ TypeOK
  /\ CallShape
  /\ Timers
  /\ Fence
  /\ DeadIffExhausted
  /\ DistinctGenerations
  /\ AttemptRows
  /\ Progress
  /\ PublishedWasSent
  /\ Leases

USE PublishersAssumption, ItemsAssumption, AttemptsAssumption,
    DurationsAssumption, BoundsAssumption

-----------------------------------------------------------------------------
(* The rows and calls that the operators of the model build are well typed.*)
LEMMA ClaimedType ==
  ASSUME NEW r \in Row, NEW p \in Publishers
  PROVE  Claimed(r, p) \in Row
  BY DEF Claimed, Row, Statuses

(* A settled row is a row.                                                 *)
LEMMA SettledType ==
  ASSUME NEW r \in Row, NEW status \in Statuses, NEW n \in Nat, NEW wait \in Nat
  PROVE  Settled(r, status, n, wait) \in Row
  BY DEF Settled, Row

(* A row that the clock has passed over is still a row.                    *)
LEMMA WaitedType ==
  ASSUME NEW r \in Row
  PROVE  [r EXCEPT !.availableIn = Earlier(@), !.expiresIn = Earlier(@)] \in Row
<1>1. Earlier(r.availableIn) \in Nat /\ Earlier(r.expiresIn) \in Nat
  BY DEF Row, Earlier
<1> QED  BY <1>1 DEF Row

(* The state of a publisher between calls is a call.                       *)
LEMMA IdleCallType == IdleCall \in Call
<1>1. [i \in Items |-> NoClaim] \in [Items -> [gen : Nat, attempts : Nat]]
  BY DEF NoClaim
<1> QED  BY <1>1 DEF IdleCall, Call, Steps

(* A saved attempt leaves a table of attempts.                             *)
LEMMA WithAttemptType ==
  ASSUME TypeOK, NEW p \in Publishers, call[p].item \in Items,
         NEW success \in BOOLEAN
  PROVE  WithAttempt(p, success) \in [Items -> SUBSET Attempt]
<1>1. call[p].claim[call[p].item].gen \in Nat
  BY DEF TypeOK, Call
<1> QED  BY <1>1 DEF WithAttempt, TypeOK, Attempt

(* Moving a call to another statement leaves a call.                       *)
LEMMA GoToType ==
  ASSUME TypeOK, NEW p \in Publishers, NEW step \in Steps, GoTo(p, step)
  PROVE  call' \in [Publishers -> Call]
<1>0. call[p] \in Call
  BY DEF TypeOK
<1>1. [call[p] EXCEPT !.step = step] \in Call
  BY <1>0 DEF Call
<1> QED  BY <1>1 DEF GoTo, TypeOK

(* Moving a call to the next item of its batch leaves a call.              *)
LEMMA NextItemType ==
  ASSUME TypeOK, NEW p \in Publishers, NextItem(p)
  PROVE  call' \in [Publishers -> Call]
<1> DEFINE left == call[p].todo \ {call[p].item}
<1>1. [step |-> "publish", todo |-> left, item |-> None,
       claim |-> call[p].claim, elapsed |-> call[p].elapsed] \in Call
  BY DEF TypeOK, Call, Steps
<1> QED  BY <1>1, IdleCallType DEF NextItem, TypeOK

(* The start of an item, or of the loop, leaves a call.                    *)
LEMMA StartItemType ==
  ASSUME TypeOK, NEW p \in Publishers, NEW i \in Items, NEW step \in Steps,
         StartItem(p, i, step)
  PROVE  call' \in [Publishers -> Call]
<1>0. call[p] \in Call
  BY DEF TypeOK
<1>1. [call[p] EXCEPT !.item = i, !.step = step] \in Call
  BY <1>0 DEF Call
<1> QED  BY <1>1 DEF StartItem, TypeOK

(* markClaimPublished writes a row.                                        *)
LEMMA PublishedType ==
  ASSUME TypeOK, NEW i \in Items
  PROVE  Published(i) \in [Items -> Row]
<1>1. Settled(row[i], "published", row[i].attempts, row[i].availableIn) \in Row
  BY SettledType DEF TypeOK, Row, Statuses
<1> QED  BY <1>1 DEF Published, TypeOK

(* The delay before a retry is a natural number.                           *)
LEMMA RetryDelayType ==
  ASSUME TypeOK, NEW p \in Publishers, NEW n \in Nat
  PROVE  RetryDelay(p, n) \in Nat
<1>1. call[p].elapsed \in Nat
  BY DEF TypeOK, Call
<1>2. n * BackoffUnit \in Nat
  OBVIOUS
<1> DEFINE left == n * BackoffUnit - call[p].elapsed
<1>3. left \in Int
  BY <1>1, <1>2
<1> HIDE DEF left
<1>4. (IF left > 0 THEN left ELSE 0) \in Nat
  BY <1>3
<1> QED  BY <1>4 DEF RetryDelay, left

(* markClaimFailed and markClaimDead write a row.                          *)
LEMMA FailedRowType ==
  ASSUME TypeOK, NEW p \in Publishers, NEW i \in Items
  PROVE  FailedRow(p, i) \in Row
<1> DEFINE n == call[p].claim[i].attempts + 1
           count == row[i].attempts + 1
<1>1. n \in Nat /\ count \in Nat /\ row[i].availableIn \in Nat /\ row[i] \in Row
  BY DEF TypeOK, Call, Row
<1>2. RetryDelay(p, n) \in Nat
  BY <1>1, RetryDelayType
<1>3. /\ Settled(row[i], "dead", count, row[i].availableIn) \in Row
      /\ Settled(row[i], "failed", count, RetryDelay(p, n)) \in Row
  BY <1>1, <1>2, SettledType DEF Statuses
<1> QED  BY <1>3 DEF FailedRow

-----------------------------------------------------------------------------
(* Every step keeps the tables and the calls well typed; the stronger parts*)
(* of IndInv bound the batch positions and the attempt counts.             *)
LEMMA TypeStep == IndInv /\ [Next]_vars => TypeOK'
<1> SUFFICES ASSUME IndInv, [Next]_vars
             PROVE  TypeOK'
  OBVIOUS
<1>0. TypeOK /\ CallShape
  BY DEF IndInv
<1>1. ASSUME NEW i \in Items, Stage(i)
      PROVE  TypeOK'
  <2>1. [row[i] EXCEPT !.status = "pending"] \in Row
    BY <1>0 DEF TypeOK, Row, Statuses
  <2> QED  BY <1>0, <1>1, <2>1 DEF Stage, TypeOK
<1>2. ASSUME NEW p \in Publishers, ClaimDue(p)
      PROVE  TypeOK'
  <2>1. PICK batch \in SUBSET Items :
          /\ row' = [i \in Items |->
               IF i \in batch THEN Claimed(row[i], p) ELSE row[i]]
          /\ call' = [call EXCEPT ![p] =
               [step |-> "publish", todo |-> batch, item |-> None, elapsed |-> 0,
                claim |-> [i \in Items |->
                  IF i \in batch
                  THEN [gen |-> row[i].gen + 1, attempts |-> row[i].attempts]
                  ELSE NoClaim]]]
    BY <1>2 DEF ClaimDue
  <2>2. \A i \in Items : row[i] \in Row /\ Claimed(row[i], p) \in Row
    BY <1>0, ClaimedType DEF TypeOK
  <2> DEFINE claim == [i \in Items |->
                  IF i \in batch
                  THEN [gen |-> row[i].gen + 1, attempts |-> row[i].attempts]
                  ELSE NoClaim]
  <2>3. claim \in [Items -> [gen : Nat, attempts : Nat]]
    BY <2>2 DEF Row, NoClaim
  <2> HIDE DEF claim
  <2>4. [step |-> "publish", todo |-> batch, item |-> None, elapsed |-> 0,
         claim |-> claim] \in Call
    BY <2>3 DEF Call, Steps
  <2>5. row' \in [Items -> Row]
    BY <2>1, <2>2
  <2>6. call' \in [Publishers -> Call]
    BY <1>0, <2>1, <2>4 DEF TypeOK, claim
  <2> QED  BY <1>0, <1>2, <2>5, <2>6 DEF ClaimDue, TypeOK
<1>3. ASSUME NEW p \in Publishers, NEW i \in Items, Publish(p, i)
      PROVE  TypeOK'
  <2>1. call' \in [Publishers -> Call]
    BY <1>0, <1>3, StartItemType DEF Publish, Steps
  <2>2. sends' \in [Items -> Nat]
    BY <1>0, <1>3 DEF Publish, TypeOK
  <2> QED  BY <1>0, <1>3, <2>1, <2>2 DEF Publish, StartItem, TypeOK
<1>4. ASSUME NEW p \in Publishers, NEW i \in Items, PublishRejected(p, i)
      PROVE  TypeOK'
  <2>1. call' \in [Publishers -> Call]
    BY <1>0, <1>4, StartItemType DEF PublishRejected, Steps
  <2> QED  BY <1>0, <1>4, <2>1 DEF PublishRejected, StartItem, TypeOK
<1>5. ASSUME NEW p \in Publishers, NEW i \in Items, PublishUnacknowledged(p, i)
      PROVE  TypeOK'
  <2>1. call' \in [Publishers -> Call]
    BY <1>0, <1>5, StartItemType DEF PublishUnacknowledged, Steps
  <2>2. sends' \in [Items -> Nat]
    BY <1>0, <1>5 DEF PublishUnacknowledged, TypeOK
  <2> QED  BY <1>0, <1>5, <2>1, <2>2
           DEF PublishUnacknowledged, StartItem, Fault, TypeOK
<1>6. ASSUME NEW p \in Publishers, RecordSuccess(p)
      PROVE  TypeOK'
  <2>1. call' \in [Publishers -> Call]
    BY <1>0, <1>6, GoToType DEF RecordSuccess, Steps
  <2>2. WithAttempt(p, TRUE) \in [Items -> SUBSET Attempt]
    BY <1>0, <1>6, WithAttemptType
       DEF RecordSuccess, Working, CallShape, Sending, TypeOK, Call
  <2> QED  BY <1>0, <1>6, <2>1, <2>2 DEF RecordSuccess, TypeOK
<1>7. ASSUME NEW p \in Publishers, RecordSuccessThrows(p)
      PROVE  TypeOK'
  <2>1. call' \in [Publishers -> Call]
    BY <1>0, <1>7, GoToType DEF RecordSuccessThrows, Steps
  <2>2. WithAttempt(p, TRUE) \in [Items -> SUBSET Attempt]
    BY <1>0, <1>7, WithAttemptType
       DEF RecordSuccessThrows, Working, CallShape, Sending, TypeOK, Call
  <2>3. audit' = audit \/ audit' = WithAttempt(p, TRUE)
    BY <1>7 DEF RecordSuccessThrows
  <2>4. faults' \in Nat
    BY <1>0, <1>7 DEF RecordSuccessThrows, Fault, TypeOK
  <2>5. row' = row /\ sends' = sends
    BY <1>7 DEF RecordSuccessThrows
  <2>6. audit' \in [Items -> SUBSET Attempt]
    BY <1>0, <2>2, <2>3 DEF TypeOK
  <2> QED  BY <1>0, <2>1, <2>4, <2>5, <2>6 DEF TypeOK
<1>8. ASSUME NEW p \in Publishers, RecordFailure(p)
      PROVE  TypeOK'
  <2>1. call' \in [Publishers -> Call]
    BY <1>0, <1>8, GoToType DEF RecordFailure, Steps
  <2>2. WithAttempt(p, FALSE) \in [Items -> SUBSET Attempt]
    BY <1>0, <1>8, WithAttemptType
       DEF RecordFailure, Working, CallShape, Sending, TypeOK, Call
  <2> QED  BY <1>0, <1>8, <2>1, <2>2 DEF RecordFailure, TypeOK
<1>9. ASSUME NEW p \in Publishers, MarkClaimPublished(p)
      PROVE  TypeOK'
  <2>1. call[p].item \in Items
    BY <1>0, <1>9 DEF MarkClaimPublished, Working, CallShape, Sending, TypeOK, Call
  <2>2. Published(call[p].item) \in [Items -> Row]
    BY <1>0, <2>1, PublishedType
  <2>3. call' \in [Publishers -> Call]
    BY <1>0, <1>9, GoToType, NextItemType DEF MarkClaimPublished, Steps
  <2> QED  BY <1>0, <1>9, <2>2, <2>3 DEF MarkClaimPublished, TypeOK
<1>10. ASSUME NEW p \in Publishers, MarkPublishedThrows(p)
       PROVE  TypeOK'
  <2>1. call[p].item \in Items
    BY <1>0, <1>10 DEF MarkPublishedThrows, Working, CallShape, Sending, TypeOK, Call
  <2>2. Published(call[p].item) \in [Items -> Row]
    BY <1>0, <2>1, PublishedType
  <2>3. call' \in [Publishers -> Call]
    BY <1>0, <1>10, GoToType DEF MarkPublishedThrows, Steps
  <2>4. row' = row \/ row' = Published(call[p].item)
    BY <1>10 DEF MarkPublishedThrows
  <2> QED  BY <1>0, <1>10, <2>2, <2>3, <2>4 DEF MarkPublishedThrows, Fault, TypeOK
<1>11. ASSUME NEW p \in Publishers, MarkClaimFailedOrDead(p)
       PROVE  TypeOK'
  <2>1. call[p].item \in Items
    BY <1>0, <1>11 DEF MarkClaimFailedOrDead, Working, CallShape, Sending, TypeOK, Call
  <2>2. FailedRow(p, call[p].item) \in Row
    BY <1>0, <2>1, FailedRowType
  <2>3. call' \in [Publishers -> Call]
    BY <1>0, <1>11, NextItemType DEF MarkClaimFailedOrDead
  <2>4. row' \in [Items -> Row]
    BY <1>0, <1>11, <2>2 DEF MarkClaimFailedOrDead, TypeOK
  <2> QED  BY <1>0, <1>11, <2>3, <2>4 DEF MarkClaimFailedOrDead, TypeOK
<1>12. ASSUME NEW p \in Publishers, Abort(p)
       PROVE  TypeOK'
  BY <1>0, <1>12, IdleCallType DEF Abort, Fault, TypeOK
<1>13. ASSUME Tick
       PROVE  TypeOK'
  <2>1. row' \in [Items -> Row]
    BY <1>0, <1>13, WaitedType DEF Tick, TypeOK
  <2>2. ASSUME NEW p \in Publishers
        PROVE  [call[p] EXCEPT !.elapsed = @ + 1] \in Call
    <3>1. call[p] \in Call /\ call[p].elapsed + 1 \in Nat
      BY <1>0 DEF TypeOK, Call
    <3> QED  BY <3>1 DEF Call
  <2>3. call' \in [Publishers -> Call]
    BY <1>0, <1>13, <2>2 DEF Tick, TypeOK
  <2>4. faults' \in Nat
    <3>1. Fault \/ faults' = faults
      BY <1>13 DEF Tick
    <3> QED  BY <1>0, <3>1 DEF Fault, TypeOK
  <2> QED  BY <1>0, <1>13, <2>1, <2>3, <2>4 DEF Tick, TypeOK
<1>14. CASE UNCHANGED vars
  BY <1>0, <1>14 DEF vars, TypeOK
<1> QED
  BY <1>1, <1>2, <1>3, <1>4, <1>5, <1>6, <1>7, <1>8, <1>9, <1>10, <1>11,
     <1>12, <1>13, <1>14 DEF Next, Work, Disturb

-----------------------------------------------------------------------------
(* What a step of p does to its call when it neither starts an item nor    *)
(* gets to mark one published.                                             *)
Advances(p) ==
  /\ \A q \in Publishers \ {p} : call'[q] = call[q]
  /\ call'[p].todo \subseteq call[p].todo
  /\ \A j \in call'[p].todo :
       /\ call'[p].claim[j] = call[p].claim[j]
       /\ call'[p].elapsed = call[p].elapsed
       /\ j # call'[p].item => j # call[p].item
  /\ call'[p].step \notin {"recordSuccess", "markPublished"}
  /\ call'[p].step = "idle" => call'[p].todo = {}
  /\ call'[p].step = "publish" => call'[p].item = None
  /\ call'[p].step \in Sending => call'[p].item \in call'[p].todo

(* What a fenced update of p does to the row of its item. *)
Settles(p) ==
  LET i == call[p].item IN
  /\ \A j \in Items \ {i} : row'[j] = row[j]
  /\ row'[i].holder = None
  /\ row'[i].gen = row[i].gen
  /\ row'[i].expiresIn = 0
  /\ row'[i].status \in {"published", "failed", "dead"}
  /\ row'[i].status # "failed" => row'[i].availableIn = 0
  /\ row'[i].status = "dead" <=> row'[i].attempts >= MaxAttempts
  /\ \/ /\ row'[i].status = "published"
        /\ call[p].step = "markPublished"
        /\ row'[i].attempts = row[i].attempts
     \/ /\ row'[i].status # "published"
        /\ row'[i].attempts = row[i].attempts + 1
        /\ i \notin call'[p].todo

(* A call that has an item in hand is past its claim.                      *)
LEMMA ItemInHand ==
  ASSUME IndInv, NEW p \in Publishers, call[p].step \in Sending
  PROVE  call[p].item \in Items /\ call[p].item \in call[p].todo
  BY DEF IndInv, CallShape, TypeOK, Call

(* A statement of a call, going to the next, only moves its own call on.   *)
LEMMA GoToAdvances ==
  ASSUME IndInv, NEW p \in Publishers, call[p].step \in Sending,
         NEW step \in {"recordFailure", "markFailure"}, GoTo(p, step)
  PROVE  Advances(p)
<1>1. /\ call'[p] = [call[p] EXCEPT !.step = step]
      /\ \A q \in Publishers \ {p} : call'[q] = call[q]
  BY DEF GoTo, IndInv, TypeOK
<1>2. /\ call'[p].step = step
      /\ call'[p].todo = call[p].todo /\ call'[p].item = call[p].item
      /\ call'[p].claim = call[p].claim /\ call'[p].elapsed = call[p].elapsed
  BY <1>1 DEF IndInv, TypeOK, Call
<1> QED  BY <1>1, <1>2, ItemInHand DEF Advances

(* So does going to the next item of the batch.                            *)
LEMMA NextItemAdvances ==
  ASSUME IndInv, NEW p \in Publishers, NextItem(p)
  PROVE  Advances(p)
<1> DEFINE left == call[p].todo \ {call[p].item}
<1>1. \A q \in Publishers \ {p} : call'[q] = call[q]
  BY DEF NextItem, IndInv, TypeOK
<1>2. CASE left = {}
  <2>1. call'[p] = IdleCall
    BY <1>2 DEF NextItem, IndInv, TypeOK
  <2> QED  BY <1>1, <2>1 DEF IdleCall, Advances, Sending
<1>3. CASE left # {}
  <2>1. call'[p] = [step |-> "publish", todo |-> left, item |-> None,
                    claim |-> call[p].claim, elapsed |-> call[p].elapsed]
    BY <1>3 DEF NextItem, IndInv, TypeOK
  <2> QED  BY <1>1, <2>1 DEF Advances, Sending
<1> QED  BY <1>2, <1>3

(* So does a crash, which returns the publisher to idle.                   *)
LEMMA AbortAdvances ==
  ASSUME IndInv, NEW p \in Publishers, Abort(p)
  PROVE  Advances(p)
  BY DEF Abort, IdleCall, Advances, Sending, IndInv, TypeOK

(* saveAttempt adds at most one row and keeps those the table has          *)
(* (ON CONFLICT DO NOTHING).                                               *)
LEMMA WithAttemptRows ==
  ASSUME IndInv, NEW p \in Publishers, call[p].step \in Sending,
         NEW success \in BOOLEAN
  PROVE  \A i \in Items :
           /\ audit[i] \subseteq WithAttempt(p, success)[i]
           /\ \A a \in WithAttempt(p, success)[i] \ audit[i] :
                i = call[p].item /\ a.gen = call[p].claim[i].gen
  BY DEF WithAttempt, IndInv, TypeOK

-----------------------------------------------------------------------------
(* The steps of a call that leave the table alone. *)
LEMMA AdvanceStep ==
  ASSUME IndInv, TypeOK', NEW p \in Publishers, Advances(p),
         row' = row, sends' = sends,
         \A i \in Items :
           /\ audit[i] \subseteq audit'[i]
           /\ \A a \in audit'[i] \ audit[i] :
                /\ call[p].step \in Sending
                /\ i = call[p].item
                /\ a.gen = call[p].claim[i].gen
  PROVE  IndInv'
<1>1. CallShape'
  BY DEF IndInv, CallShape, Advances
<1>2. Timers' /\ DeadIffExhausted'
  BY DEF IndInv, Timers, DeadIffExhausted
<1>3. \A q \in Publishers : \A i \in call'[q].todo :
        /\ i \in call[q].todo /\ i \in Items
        /\ call'[q].claim[i] = call[q].claim[i]
        /\ call'[q].elapsed = call[q].elapsed
  BY DEF Advances, IndInv, TypeOK, Call
<1>4. Fence' /\ Leases'
  <2>1. \A q \in Publishers : \A i \in call'[q].todo : Owns(q, i)' <=> Owns(q, i)
    BY <1>3 DEF Owns
  <2> QED  BY <1>3, <2>1 DEF Fence, Leases, IndInv
<1>5. DistinctGenerations'
  <2> SUFFICES ASSUME NEW q \in Publishers, NEW r \in Publishers,
                      NEW j \in call'[q].todo \cap call'[r].todo,
                      call'[q].claim[j].gen = call'[r].claim[j].gen
               PROVE  q = r
    BY DEF DistinctGenerations
  <2>1. call[q].claim[j].gen = call[r].claim[j].gen
    BY <1>3
  <2> QED  BY <1>3, <2>1 DEF IndInv, DistinctGenerations
<1>6. AttemptRows'
  <2>1. ASSUME NEW i \in Items, NEW a \in audit'[i]
        PROVE  a.gen <= row'[i].gen
    <3>1. CASE a \in audit[i]
      BY <3>1 DEF IndInv, AttemptRows
    <3>2. CASE a \notin audit[i]
      BY <3>2, ItemInHand DEF IndInv, Fence
    <3> QED  BY <3>1, <3>2
  <2>2. ASSUME NEW q \in Publishers, NEW i \in call'[q].todo,
               i # call'[q].item \/ call'[q].step = "recordSuccess",
               NEW a \in audit'[i]
        PROVE  a.gen # call'[q].claim[i].gen
    <3>1. i # call[q].item \/ call[q].step = "recordSuccess"
      BY <2>2 DEF Advances
    <3>2. q # p \/ i # call[q].item
      BY <2>2 DEF Advances
    <3>3. CASE a \in audit[i]
      BY <1>3, <3>1, <3>3 DEF IndInv, AttemptRows
    <3>4. CASE a \notin audit[i]
      <4>1. /\ call[p].step \in Sending /\ i = call[p].item
            /\ a.gen = call[p].claim[i].gen
        BY <1>3, <3>4
      <4>2. q # p /\ i \in call[p].todo \cap call[q].todo
        BY <1>3, <3>2, <4>1, ItemInHand
      <4> QED  BY <1>3, <4>1, <4>2 DEF IndInv, DistinctGenerations
    <3> QED  BY <3>3, <3>4
  <2> QED  BY <2>1, <2>2 DEF AttemptRows
<1>7. Progress'
  <2> SUFFICES ASSUME NEW q \in Publishers,
                      call'[q].step \in {"recordSuccess", "markPublished"}
               PROVE  /\ sends'[call'[q].item] > 0
                      /\ call'[q].step = "markPublished" =>
                           \E a \in audit'[call'[q].item] :
                             a.success /\ a.gen = call'[q].claim[call'[q].item].gen
    BY DEF Progress
  <2>1. q # p /\ call'[q] = call[q] /\ call[q].step \in Sending
    BY DEF Advances, Sending
  <2> QED  BY <2>1, ItemInHand DEF IndInv, Progress
<1>8. PublishedWasSent'
  BY DEF IndInv, PublishedWasSent
<1> QED  BY <1>1, <1>2, <1>4, <1>5, <1>6, <1>7, <1>8 DEF IndInv

(* The steps in which the owner of an item closes it or gives it back. *)
LEMMA SettleStep ==
  ASSUME IndInv, TypeOK', NEW p \in Publishers, Advances(p), Settles(p),
         call[p].step \in Sending, Owns(p, call[p].item),
         UNCHANGED <<audit, sends>>
  PROVE  IndInv'
<1> DEFINE i == call[p].item
           status == row'[i].status
           n == row'[i].attempts
<1>1. i \in Items /\ i \in call[p].todo
  BY ItemInHand
<1>2. /\ status \in {"published", "failed", "dead"}
      /\ row'[i].holder = None /\ row'[i].gen = row[i].gen
      /\ row'[i].expiresIn = 0
      /\ status # "failed" => row'[i].availableIn = 0
      /\ status = "dead" <=> n >= MaxAttempts
      /\ \/ /\ status = "published" /\ call[p].step = "markPublished"
            /\ n = row[i].attempts
         \/ /\ status # "published" /\ i \notin call'[p].todo
            /\ n = row[i].attempts + 1
  BY DEF Settles
<1>3. \A j \in Items \ {i} : row'[j] = row[j]
  BY DEF Settles
<1>4. row[i].status = "publishing" /\ row[i].attempts \in Nat
  BY <1>1 DEF IndInv, Fence, TypeOK, Row
<1> HIDE DEF i
<1>5. CallShape'
  BY DEF IndInv, CallShape, Advances
<1>6. Timers'
  BY <1>2, <1>3 DEF IndInv, Timers
<1>7. \A q \in Publishers : \A j \in call'[q].todo :
        /\ j \in call[q].todo /\ j \in Items
        /\ call'[q].claim[j] = call[q].claim[j]
        /\ call'[q].elapsed = call[q].elapsed
  BY DEF Advances, IndInv, TypeOK, Call
<1>8. \A q \in Publishers : \A j \in call'[q].todo :
        /\ row'[j].gen = row[j].gen
        /\ Owns(q, j)' <=> j # i /\ Owns(q, j)
  BY <1>2, <1>3, <1>7, PublishersAssumption DEF Owns
<1>9. Fence'
  <2>1. \A q \in Publishers : \A j \in call'[q].todo : row'[j].status # "absent"
    BY <1>2, <1>3, <1>7 DEF Fence, IndInv
  <2> QED  BY <1>3, <1>7, <1>8, <2>1 DEF Fence, IndInv
<1>10. DeadIffExhausted'
  <2>1. row[i].attempts < MaxAttempts
    BY <1>1, <1>4 DEF IndInv, DeadIffExhausted
  <2>2. n <= MaxAttempts /\ (status = "dead" <=> n = MaxAttempts)
    BY <1>2, <1>4, <2>1
  <2> QED  BY <1>2, <1>3, <2>2 DEF IndInv, DeadIffExhausted
<1>11. DistinctGenerations'
  <2> SUFFICES ASSUME NEW q \in Publishers, NEW r \in Publishers,
                      NEW j \in call'[q].todo \cap call'[r].todo,
                      call'[q].claim[j].gen = call'[r].claim[j].gen
               PROVE  q = r
    BY DEF DistinctGenerations
  <2>1. call[q].claim[j].gen = call[r].claim[j].gen
    BY <1>7
  <2> QED  BY <1>7, <2>1 DEF IndInv, DistinctGenerations
<1>12. AttemptRows'
  <2>1. \A j \in Items : row'[j].gen = row[j].gen
    BY <1>2, <1>3
  <2>2. \A q \in Publishers : \A j \in call'[q].todo :
          (j # call'[q].item \/ call'[q].step = "recordSuccess")
            => (j # call[q].item \/ call[q].step = "recordSuccess")
    BY DEF Advances
  <2> QED  BY <1>7, <2>1, <2>2 DEF IndInv, AttemptRows
<1>13. Progress'
  <2>1. \A q \in Publishers :
          call'[q].step \in {"recordSuccess", "markPublished"} =>
            call'[q] = call[q]
    BY DEF Advances
  <2> QED  BY <2>1 DEF IndInv, Progress
<1>14. PublishedWasSent'
  <2>1. status = "published" => sends[i] > 0 /\ \E a \in audit[i] : a.success
    BY <1>2 DEF IndInv, Progress, i
  <2> QED  BY <1>2, <1>3, <2>1 DEF IndInv, PublishedWasSent
<1>15. Leases'
  <2> SUFFICES ASSUME NEW q \in Publishers, NEW j \in call'[q].todo
               PROVE  /\ Owns(q, j)' =>
                           row'[j].expiresIn + call'[q].elapsed >= ClaimTTL
                      /\ call'[q].elapsed < ClaimTTL =>
                           Owns(q, j)' \/ row'[j].status = "published"
    BY DEF Leases
  <2>1. CASE j # i
    BY <1>3, <1>7, <1>8, <2>1 DEF IndInv, Leases
  <2>2. CASE j = i /\ q # p
    <3>1. ~Owns(q, i)
      BY <1>1, <1>7, <2>2 DEF Owns, IndInv, DistinctGenerations, i
    <3>2. row[i].status # "published"
      BY <1>4
    <3> QED  BY <1>7, <1>8, <2>2, <3>1, <3>2 DEF IndInv, Leases
  <2>3. CASE j = i /\ q = p
    BY <1>2, <1>8, <2>3 DEF i
  <2> QED  BY <2>1, <2>2, <2>3
<1> QED
  BY <1>5, <1>6, <1>9, <1>10, <1>11, <1>12, <1>13, <1>14, <1>15 DEF IndInv

-----------------------------------------------------------------------------
(* Staging, and the start of an item. *)
LEMMA StageStep ==
  ASSUME IndInv, TypeOK', NEW i \in Items, Stage(i)
  PROVE  IndInv'
<1>1. /\ row[i].status = "absent" /\ row'[i].status = "pending"
      /\ row'[i].holder = row[i].holder
      /\ row'[i].gen = row[i].gen /\ row'[i].attempts = row[i].attempts
      /\ row'[i].availableIn = row[i].availableIn
      /\ row'[i].expiresIn = row[i].expiresIn
  BY DEF Stage, IndInv, TypeOK, Row
<1>2. \A j \in Items \ {i} : row'[j] = row[j]
  BY DEF Stage, IndInv, TypeOK
<1>3. UNCHANGED <<audit, sends, call>>
  BY DEF Stage
<1>4. \A q \in Publishers : \A j \in call[q].todo :
        /\ j \in Items /\ (Owns(q, j)' <=> Owns(q, j))
        /\ row'[j].gen = row[j].gen /\ row'[j].expiresIn = row[j].expiresIn
        /\ row'[j].attempts = row[j].attempts
        /\ row'[j].status # "absent"
        /\ row[j].status \in {"publishing", "published"} =>
             row'[j].status = row[j].status
  <2>1. /\ \A q \in Publishers : call[q].todo \subseteq Items
        /\ \A q \in Publishers : \A j \in call[q].todo : row[j].status # "absent"
    BY DEF IndInv, Fence, TypeOK, Call
  <2>2. \A j \in Items :
          /\ row'[j].gen = row[j].gen /\ row'[j].holder = row[j].holder
          /\ row'[j].expiresIn = row[j].expiresIn
          /\ row'[j].attempts = row[j].attempts
          /\ row[j].status # "absent" => row'[j].status = row[j].status
    BY <1>1, <1>2
  <2> QED  BY <1>3, <2>1, <2>2 DEF Owns
<1>5. CallShape' /\ Progress' /\ DistinctGenerations'
  BY <1>3 DEF IndInv, CallShape, Progress, DistinctGenerations
<1>6. Timers' /\ PublishedWasSent'
  BY <1>1, <1>2, <1>3 DEF IndInv, Timers, PublishedWasSent
<1>7. DeadIffExhausted'
  BY <1>1, <1>2 DEF IndInv, DeadIffExhausted
<1>8. Fence' /\ Leases'
  BY <1>3, <1>4 DEF IndInv, Fence, Leases
<1>9. AttemptRows'
  BY <1>1, <1>2, <1>3 DEF IndInv, AttemptRows
<1> QED  BY <1>5, <1>6, <1>7, <1>8, <1>9 DEF IndInv

(* The start of an item, sent or rejected, keeps the invariant.            *)
LEMMA StartStep ==
  ASSUME IndInv, TypeOK', NEW p \in Publishers, NEW i \in Items,
         NEW step \in {"recordSuccess", "recordFailure"},
         StartItem(p, i, step),
         \A j \in Items : sends[j] > 0 => sends'[j] > 0,
         step = "recordSuccess" => sends'[i] > 0
  PROVE  IndInv'
<1>1. /\ call[p].step = "publish" /\ i \in call[p].todo
      /\ call'[p].step = step /\ call'[p].item = i
      /\ call'[p].todo = call[p].todo /\ call'[p].claim = call[p].claim
      /\ call'[p].elapsed = call[p].elapsed
  BY DEF StartItem, Working, IndInv, TypeOK, Call
<1>2. \A q \in Publishers \ {p} : call'[q] = call[q]
  BY DEF StartItem, IndInv, TypeOK
<1>3. UNCHANGED <<row, audit>>
  BY DEF StartItem
<1>4. \A q \in Publishers :
        /\ call'[q].todo = call[q].todo /\ call'[q].claim = call[q].claim
        /\ call'[q].elapsed = call[q].elapsed
  BY <1>1, <1>2
<1>5. CallShape'
  BY <1>1, <1>2 DEF IndInv, CallShape, Sending
<1>6. Timers' /\ DeadIffExhausted' /\ PublishedWasSent'
  BY <1>3 DEF IndInv, Timers, DeadIffExhausted, PublishedWasSent
<1>7. Fence' /\ Leases'
  <2>1. \A q \in Publishers : \A j \in Items : Owns(q, j)' <=> Owns(q, j)
    BY <1>3, <1>4 DEF Owns
  <2>2. \A q \in Publishers : call[q].todo \subseteq Items
    BY DEF IndInv, TypeOK, Call
  <2> QED  BY <1>3, <1>4, <2>1, <2>2 DEF IndInv, Fence, Leases
<1>8. DistinctGenerations'
  BY <1>4 DEF IndInv, DistinctGenerations
<1>9. AttemptRows'
  <2>1. \A j \in call[p].todo : j # call[p].item
    BY <1>1, ItemsAssumption DEF IndInv, CallShape, TypeOK, Call
  <2> QED  BY <1>1, <1>2, <1>3, <1>4, <2>1 DEF IndInv, AttemptRows
<1>10. Progress'
  <2>1. \A q \in Publishers \ {p} : call[q].step \in Sending => call[q].item \in Items
    BY ItemInHand
  <2> QED  BY <1>1, <1>2, <1>3, <2>1 DEF IndInv, Progress, Sending
<1> QED  BY <1>5, <1>6, <1>7, <1>8, <1>9, <1>10 DEF IndInv

(* The success row is written before the item may be marked published. *)
LEMMA RecordSuccessStep ==
  ASSUME IndInv, TypeOK', NEW p \in Publishers, RecordSuccess(p)
  PROVE  IndInv'
<1> DEFINE i == call[p].item
           gen == call[p].claim[i].gen
<1>1. call[p].step = "recordSuccess" /\ i \in Items /\ i \in call[p].todo
  BY ItemInHand DEF RecordSuccess, Working, Sending
<1>2. \A a \in audit[i] : a.gen # gen
  BY <1>1 DEF IndInv, AttemptRows
<1>3. /\ audit'[i] = audit[i] \cup {[gen |-> gen, success |-> TRUE]}
      /\ \A j \in Items \ {i} : audit'[j] = audit[j]
  BY <1>1, <1>2 DEF RecordSuccess, WithAttempt, IndInv, TypeOK
<1>4. /\ call'[p].step = "markPublished" /\ call'[p].item = i
      /\ call'[p].todo = call[p].todo /\ call'[p].claim = call[p].claim
      /\ call'[p].elapsed = call[p].elapsed
  BY DEF RecordSuccess, GoTo, IndInv, TypeOK, Call
<1>5. \A q \in Publishers \ {p} : call'[q] = call[q]
  BY DEF RecordSuccess, GoTo, IndInv, TypeOK
<1>6. \A q \in Publishers :
        /\ call'[q].todo = call[q].todo /\ call'[q].claim = call[q].claim
        /\ call'[q].item = call[q].item /\ call'[q].elapsed = call[q].elapsed
  BY <1>4, <1>5
<1>7. row' = row /\ sends' = sends
  BY DEF RecordSuccess
<1> HIDE DEF i, gen
<1>8. CallShape'
  BY <1>1, <1>4, <1>5 DEF IndInv, CallShape, Sending
<1>9. Timers' /\ DeadIffExhausted'
  BY <1>7 DEF IndInv, Timers, DeadIffExhausted
<1>10. Fence' /\ Leases'
  <2>1. \A q \in Publishers : \A j \in Items : Owns(q, j)' <=> Owns(q, j)
    BY <1>6, <1>7 DEF Owns
  <2>2. \A q \in Publishers : call[q].todo \subseteq Items
    BY DEF IndInv, TypeOK, Call
  <2> QED  BY <1>6, <1>7, <2>1, <2>2 DEF IndInv, Fence, Leases
<1>11. DistinctGenerations'
  BY <1>6 DEF IndInv, DistinctGenerations
<1>12. AttemptRows'
  <2>1. gen <= row[i].gen
    BY <1>1 DEF IndInv, Fence, i, gen
  <2>2. \A j \in Items : \A a \in audit'[j] : a.gen <= row'[j].gen
    BY <1>3, <1>7, <2>1 DEF IndInv, AttemptRows
  <2>3. ASSUME NEW q \in Publishers, NEW j \in call[q].todo,
               j # call[q].item \/ call'[q].step = "recordSuccess",
               NEW a \in audit'[j]
        PROVE  a.gen # call[q].claim[j].gen
    <3>1. j \in Items /\ (q # p \/ j # i)
      BY <1>4, <2>3 DEF IndInv, TypeOK, Call, i
    <3>2. j # call[q].item \/ call[q].step = "recordSuccess"
      BY <1>4, <1>5, <2>3 DEF i
    <3>3. CASE a \in audit[j]
      BY <3>2, <3>3 DEF IndInv, AttemptRows
    <3>4. CASE a \notin audit[j]
      <4>1. j = i /\ a.gen = gen
        BY <1>3, <3>1, <3>4
      <4> QED  BY <1>1, <3>1, <4>1 DEF IndInv, DistinctGenerations, gen, i
    <3> QED  BY <3>3, <3>4
  <2> QED  BY <1>6, <2>2, <2>3 DEF AttemptRows
<1>13. Progress'
  <2>1. [gen |-> gen, success |-> TRUE] \in audit'[i]
    BY <1>3
  <2>2. \E a \in audit'[i] : a.success /\ a.gen = gen
    BY <2>1
  <2>3. sends'[i] > 0
    BY <1>1, <1>7 DEF IndInv, Progress, i
  <2>4. ASSUME NEW q \in Publishers \ {p}, call[q].step \in Sending
        PROVE  call[q].item \in Items /\ audit[call[q].item] \subseteq audit'[call[q].item]
    BY <1>3, <2>4, ItemInHand
  <2>5. call'[p].item = i /\ call'[p].claim[i].gen = gen
    BY <1>4 DEF i, gen
  <2> SUFFICES ASSUME NEW q \in Publishers \ {p}
               PROVE  LET j == call[q].item IN
                      /\ call[q].step \in {"recordSuccess", "markPublished"} =>
                           sends[j] > 0
                      /\ call[q].step = "markPublished" =>
                           \E a \in audit'[j] :
                             a.success /\ a.gen = call[q].claim[j].gen
    BY <1>4, <1>5, <1>7, <2>2, <2>3, <2>5 DEF Progress
  <2> QED  BY <2>4 DEF IndInv, Progress, Sending
<1>14. PublishedWasSent'
  BY <1>3, <1>7 DEF IndInv, PublishedWasSent
<1> QED
  BY <1>8, <1>9, <1>10, <1>11, <1>12, <1>13, <1>14 DEF IndInv

-----------------------------------------------------------------------------
(* A claim takes the next generation of each row of its batch. *)
LEMMA ClaimDueStep ==
  ASSUME IndInv, TypeOK', NEW p \in Publishers, ClaimDue(p)
  PROVE  IndInv'
<1>1. PICK batch \in SUBSET Items :
        /\ \A i \in batch : Due(i)
        /\ row' = [i \in Items |->
             IF i \in batch THEN Claimed(row[i], p) ELSE row[i]]
        /\ call' = [call EXCEPT ![p] =
             [step |-> "publish", todo |-> batch, item |-> None, elapsed |-> 0,
              claim |-> [i \in Items |->
                IF i \in batch
                THEN [gen |-> row[i].gen + 1, attempts |-> row[i].attempts]
                ELSE NoClaim]]]
  BY DEF ClaimDue
<1>2. \A i \in batch :
        /\ i \in Items
        /\ row'[i].status = "publishing" /\ row'[i].holder = p
        /\ row'[i].gen = row[i].gen + 1 /\ row'[i].attempts = row[i].attempts
        /\ row'[i].expiresIn = ClaimTTL /\ row'[i].availableIn = row[i].availableIn
  BY <1>1 DEF Claimed
<1>3. \A i \in Items \ batch : row'[i] = row[i]
  BY <1>1
<1>4. /\ call'[p].step = "publish" /\ call'[p].todo = batch
      /\ call'[p].item = None /\ call'[p].elapsed = 0
      /\ \A i \in batch : /\ call'[p].claim[i].gen = row'[i].gen
                          /\ call'[p].claim[i].attempts = row'[i].attempts
  BY <1>1, <1>2 DEF IndInv, TypeOK
<1>5. \A q \in Publishers \ {p} : call'[q] = call[q]
  BY <1>1 DEF IndInv, TypeOK
<1>6. \A i \in batch :
        /\ row[i].status \in {"pending", "failed", "publishing"}
        /\ row[i].availableIn = 0
        /\ row[i].status = "publishing" => row[i].expiresIn = 0
  BY <1>1 DEF Due, IndInv, Timers
<1>7. audit' = audit /\ sends' = sends
  BY DEF ClaimDue
<1>8. /\ \A i \in Items : row[i].gen \in Nat /\ row'[i].gen \in Nat
      /\ \A q \in Publishers : call[q].todo \subseteq Items
      /\ \A q \in Publishers : \A i \in Items : call[q].claim[i].gen \in Nat
  BY DEF IndInv, TypeOK, Row, Call
<1>9. \A q \in Publishers \ {p} : \A i \in call[q].todo \cap batch :
        call[q].claim[i].gen < row'[i].gen
  BY <1>2, <1>8 DEF IndInv, Fence
<1>10. CallShape'
  BY <1>4, <1>5 DEF IndInv, CallShape, Sending
<1>11. Timers'
  BY <1>2, <1>3, <1>6 DEF IndInv, Timers
<1>12. Fence'
  <2> SUFFICES ASSUME NEW q \in Publishers, NEW i \in call'[q].todo
               PROVE  /\ call'[q].claim[i].gen <= row'[i].gen
                      /\ row'[i].status # "absent"
                      /\ Owns(q, i)' =>
                           /\ row'[i].status = "publishing"
                           /\ call'[q].claim[i].attempts = row'[i].attempts
    BY DEF Fence
  <2>1. CASE q = p
    BY <1>2, <1>4, <1>8, <2>1
  <2>2. CASE q # p /\ i \in batch
    BY <1>2, <1>5, <1>8, <1>9, <2>2 DEF Owns
  <2>3. CASE q # p /\ i \notin batch
    BY <1>3, <1>5, <1>8, <2>3 DEF Owns, IndInv, Fence
  <2> QED  BY <2>1, <2>2, <2>3
<1>13. DeadIffExhausted'
  <2>1. \A i \in batch : /\ row'[i].attempts <= MaxAttempts
                         /\ row'[i].status # "dead"
                         /\ row'[i].attempts # MaxAttempts
    BY <1>2, <1>6 DEF IndInv, DeadIffExhausted
  <2> QED  BY <1>3, <2>1 DEF IndInv, DeadIffExhausted
<1>14. DistinctGenerations'
  <2> SUFFICES ASSUME NEW q \in Publishers, NEW r \in Publishers,
                      NEW i \in call'[q].todo \cap call'[r].todo,
                      call'[q].claim[i].gen = call'[r].claim[i].gen
               PROVE  q = r
    BY DEF DistinctGenerations
  <2>1. CASE q # p /\ r # p
    BY <1>5, <2>1 DEF IndInv, DistinctGenerations
  <2>2. CASE q = p /\ r # p
    BY <1>4, <1>5, <1>8, <1>9, <2>2
  <2>3. CASE q # p /\ r = p
    BY <1>4, <1>5, <1>8, <1>9, <2>3
  <2> QED  BY <2>1, <2>2, <2>3
<1>15. AttemptRows'
  <2>1. ASSUME NEW i \in Items, NEW a \in audit'[i]
        PROVE  a.gen <= row'[i].gen /\ (i \in batch => a.gen # row'[i].gen)
    <3>1. a.gen \in Nat /\ a.gen <= row[i].gen
      BY <1>7 DEF IndInv, AttemptRows, TypeOK, Attempt
    <3>2. CASE i \in batch
      BY <1>2, <1>8, <3>1, <3>2
    <3>3. CASE i \notin batch
      BY <1>3, <3>1, <3>3
    <3> QED  BY <3>2, <3>3
  <2>2. ASSUME NEW q \in Publishers, NEW i \in call'[q].todo,
               i # call'[q].item \/ call'[q].step = "recordSuccess",
               NEW a \in audit'[i]
        PROVE  a.gen # call'[q].claim[i].gen
    <3>1. CASE q = p
      <4>1. i \in batch /\ i \in Items
        BY <1>4, <3>1
      <4> QED  BY <1>4, <2>1, <3>1, <4>1
    <3>2. CASE q # p
      BY <1>5, <1>7, <2>2, <3>2 DEF IndInv, AttemptRows
    <3> QED  BY <3>1, <3>2
  <2> QED  BY <2>1, <2>2 DEF AttemptRows
<1>16. Progress'
  BY <1>4, <1>5, <1>7 DEF IndInv, Progress
<1>17. PublishedWasSent'
  BY <1>2, <1>3, <1>7 DEF IndInv, PublishedWasSent
<1>18. Leases'
  <2> SUFFICES ASSUME NEW q \in Publishers, NEW i \in call'[q].todo
               PROVE  /\ Owns(q, i)' =>
                           row'[i].expiresIn + call'[q].elapsed >= ClaimTTL
                      /\ call'[q].elapsed < ClaimTTL =>
                           Owns(q, i)' \/ row'[i].status = "published"
    BY DEF Leases
  <2>1. CASE q = p
    <3>1. i \in batch /\ Owns(q, i)'
      BY <1>2, <1>4, <2>1 DEF Owns
    <3>2. row'[i].expiresIn = ClaimTTL /\ call'[q].elapsed = 0
      BY <1>2, <1>4, <2>1, <3>1
    <3> QED  BY <3>1, <3>2
  <2>2. CASE q # p /\ i \in batch
    <3>1. ~Owns(q, i)'
      BY <1>2, <2>2 DEF Owns
    <3>2. i \in call[q].todo /\ call'[q] = call[q]
      BY <1>5, <2>2
    <3>3. Owns(q, i) => row[i].expiresIn = 0
      BY <1>6, <2>2, <3>2 DEF IndInv, Fence
    <3>4. call[q].elapsed \in Nat
      BY DEF IndInv, TypeOK, Call
    <3>5. ~(call[q].elapsed < ClaimTTL)
      <4>1. CASE Owns(q, i)
        BY <3>2, <3>3, <3>4, <4>1 DEF IndInv, Leases
      <4>2. CASE ~Owns(q, i)
        BY <1>6, <2>2, <3>2, <4>2 DEF IndInv, Leases
      <4> QED  BY <4>1, <4>2
    <3> QED  BY <3>1, <3>2, <3>5
  <2>3. CASE q # p /\ i \notin batch
    BY <1>3, <1>5, <1>8, <2>3 DEF Owns, IndInv, Leases
  <2> QED  BY <2>1, <2>2, <2>3
<1> QED
  BY <1>10, <1>11, <1>12, <1>13, <1>14, <1>15, <1>16, <1>17, <1>18 DEF IndInv

-----------------------------------------------------------------------------
(* Time takes from the lease what it adds to the age of its call. *)
LEMMA MaxElapsedBound == MaxElapsed \in Nat /\ MaxElapsed >= ClaimTTL
<1>1. MaxAttempts * BackoffUnit \in Nat
  OBVIOUS
<1> DEFINE longest == MaxAttempts * BackoffUnit
<1> HIDE DEF longest
<1>2. ClaimTTL + longest \in Nat /\ ClaimTTL + longest >= ClaimTTL
  BY <1>1 DEF longest
<1> QED  BY <1>2 DEF MaxElapsed, longest

LEMMA TickStep ==
  ASSUME IndInv, TypeOK', Tick
  PROVE  IndInv'
<1>1. \A i \in Items :
        /\ row'[i].status = row[i].status /\ row'[i].holder = row[i].holder
        /\ row'[i].gen = row[i].gen /\ row'[i].attempts = row[i].attempts
        /\ row'[i].availableIn = Earlier(row[i].availableIn)
        /\ row'[i].expiresIn = Earlier(row[i].expiresIn)
  <2> TAKE i \in Items
  <2> DEFINE left(r) == [r EXCEPT !.availableIn = Earlier(@),
                                  !.expiresIn = Earlier(@)]
  <2>1. row'[i] = left(row[i])
    BY DEF Tick
  <2>2. row[i] \in Row
    BY DEF IndInv, TypeOK
  <2> QED  BY <2>1, <2>2 DEF Row
<1>2. \A p \in Publishers :
        /\ call'[p].step = call[p].step /\ call'[p].todo = call[p].todo
        /\ call'[p].item = call[p].item /\ call'[p].claim = call[p].claim
        /\ \/ call'[p].elapsed = call[p].elapsed + 1
           \/ /\ call'[p].elapsed = call[p].elapsed
              /\ call[p].step = "idle" \/ call[p].elapsed >= MaxElapsed
  <2> TAKE p \in Publishers
  <2>1. \/ call'[p] = [call[p] EXCEPT !.elapsed = @ + 1]
        \/ /\ call'[p] = call[p]
           /\ call[p].step = "idle" \/ call[p].elapsed >= MaxElapsed
    BY DEF Tick, Working
  <2>2. call[p] \in Call
    BY DEF IndInv, TypeOK
  <2> QED  BY <2>1, <2>2 DEF Call
<1>3. audit' = audit /\ sends' = sends
  BY DEF Tick
<1>4. \A p \in Publishers : \A i \in call[p].todo :
        i \in Items /\ (Owns(p, i)' <=> Owns(p, i))
  BY <1>1, <1>2 DEF Owns, IndInv, TypeOK, Call
<1>5. CallShape' /\ DistinctGenerations'
  BY <1>2 DEF IndInv, CallShape, DistinctGenerations
<1>6. Timers'
  BY <1>1 DEF IndInv, Timers, Earlier
<1>7. Fence'
  BY <1>1, <1>2, <1>4 DEF IndInv, Fence
<1>8. DeadIffExhausted' /\ PublishedWasSent'
  BY <1>1, <1>3 DEF IndInv, DeadIffExhausted, PublishedWasSent
<1>9. AttemptRows' /\ Progress'
  BY <1>1, <1>2, <1>3 DEF IndInv, AttemptRows, Progress
<1>10. Leases'
  <2> SUFFICES ASSUME NEW p \in Publishers, NEW i \in call'[p].todo
               PROVE  /\ Owns(p, i)' =>
                           row'[i].expiresIn + call'[p].elapsed >= ClaimTTL
                      /\ call'[p].elapsed < ClaimTTL =>
                           Owns(p, i)' \/ row'[i].status = "published"
    BY DEF Leases
  <2>1. /\ i \in Items /\ i \in call[p].todo
        /\ row[i].expiresIn \in Nat /\ call[p].elapsed \in Nat
        /\ call[p].step # "idle"
    BY <1>2, <1>4 DEF IndInv, TypeOK, Row, Call, CallShape
  <2>2. Owns(p, i) => row[i].expiresIn + call[p].elapsed >= ClaimTTL
    BY <2>1 DEF IndInv, Leases
  <2>3. /\ row'[i].expiresIn = Earlier(row[i].expiresIn)
        /\ \/ call'[p].elapsed = call[p].elapsed + 1
           \/ /\ call'[p].elapsed = call[p].elapsed
              /\ call[p].elapsed >= MaxElapsed
    BY <1>1, <1>2, <2>1
  <2>4. Owns(p, i)' => row'[i].expiresIn + call'[p].elapsed >= ClaimTTL
    BY <1>4, <2>1, <2>2, <2>3, MaxElapsedBound DEF Earlier
  <2>5. call'[p].elapsed < ClaimTTL => call[p].elapsed < ClaimTTL
    BY <2>1, <2>3
  <2> QED  BY <1>1, <1>4, <2>1, <2>4, <2>5 DEF IndInv, Leases
<1> QED  BY <1>5, <1>6, <1>7, <1>8, <1>9, <1>10 DEF IndInv

-----------------------------------------------------------------------------
(* The two fenced updates. *)
LEMMA PublishedSettles ==
  ASSUME IndInv, NEW p \in Publishers, call[p].step = "markPublished",
         Owns(p, call[p].item), row' = Published(call[p].item)
  PROVE  Settles(p)
<1> DEFINE i == call[p].item
<1>1. i \in Items /\ i \in call[p].todo
  BY ItemInHand DEF Sending
<1>2. row[i].status = "publishing" /\ row[i].attempts \in Nat
  BY <1>1 DEF IndInv, Fence, TypeOK, Row
<1>3. row[i].availableIn = 0 /\ row[i].attempts # MaxAttempts
                             /\ row[i].attempts <= MaxAttempts
  BY <1>1, <1>2 DEF IndInv, Timers, DeadIffExhausted
<1>4. ~(row[i].attempts >= MaxAttempts)
  BY <1>2, <1>3
<1>5. /\ row'[i] = Settled(row[i], "published", row[i].attempts, row[i].availableIn)
      /\ \A j \in Items \ {i} : row'[j] = row[j]
  BY <1>1 DEF Published, IndInv, TypeOK
<1> QED  BY <1>3, <1>4, <1>5 DEF Settled, Settles

(* markClaimFailed and markClaimDead are fenced updates of the item in hand.*)
LEMMA FailedSettles ==
  ASSUME IndInv, NEW p \in Publishers, call[p].step = "markFailure",
         Owns(p, call[p].item), NextItem(p),
         row' = [row EXCEPT ![call[p].item] = FailedRow(p, call[p].item)]
  PROVE  Settles(p)
<1> DEFINE i == call[p].item
           count == row[i].attempts + 1
<1>1. i \in Items /\ i \in call[p].todo
  BY ItemInHand DEF Sending
<1>2. row[i].status = "publishing" /\ call[p].claim[i].attempts = row[i].attempts
  BY <1>1 DEF IndInv, Fence
<1>3. row[i].availableIn = 0
  BY <1>1, <1>2 DEF IndInv, Timers
<1>4. i \notin call'[p].todo
  BY DEF NextItem, IdleCall, IndInv, TypeOK
<1>5. row'[i] = FailedRow(p, i) /\ \A j \in Items \ {i} : row'[j] = row[j]
  BY <1>1 DEF IndInv, TypeOK
<1>6. CASE count >= MaxAttempts
  <2>1. row'[i] = Settled(row[i], "dead", count, 0)
    BY <1>2, <1>3, <1>5, <1>6 DEF FailedRow
  <2> QED  BY <1>4, <1>5, <1>6, <2>1 DEF Settled, Settles
<1>7. CASE ~(count >= MaxAttempts)
  <2>1. row'[i] = Settled(row[i], "failed", count, RetryDelay(p, count))
    BY <1>2, <1>5, <1>7 DEF FailedRow
  <2>2. /\ row'[i].status = "failed" /\ row'[i].attempts = count
        /\ row'[i].holder = None /\ row'[i].gen = row[i].gen
        /\ row'[i].expiresIn = 0
    BY <2>1 DEF Settled
  <2> QED  BY <1>4, <1>5, <1>7, <2>2 DEF Settles
<1> QED  BY <1>6, <1>7

-----------------------------------------------------------------------------
(* The empty outbox satisfies the inductive invariant.                     *)
LEMMA InitHolds == Init => IndInv
<1> SUFFICES ASSUME Init
             PROVE  IndInv
  OBVIOUS
<1>1. AbsentRow \in Row
  BY DEF AbsentRow, Row, Statuses
<1>2. TypeOK
  BY <1>1, IdleCallType DEF Init, TypeOK
<1>3. \A p \in Publishers : call[p] = IdleCall
  BY DEF Init
<1>4. \A i \in Items : row[i] = AbsentRow /\ audit[i] = {} /\ sends[i] = 0
  BY DEF Init
<1>5. CallShape /\ Fence /\ DistinctGenerations /\ Progress /\ Leases
  BY <1>3 DEF CallShape, Fence, DistinctGenerations, Progress, Leases, IdleCall,
              Sending
<1>6. Timers /\ DeadIffExhausted /\ AttemptRows /\ PublishedWasSent
  BY <1>3, <1>4 DEF Timers, DeadIffExhausted, AttemptRows, PublishedWasSent,
                    AbsentRow, IdleCall
<1> QED  BY <1>2, <1>5, <1>6 DEF IndInv

(* Every action preserves the inductive invariant.                         *)
LEMMA InductionStep == IndInv /\ [Next]_vars => IndInv'
<1> SUFFICES ASSUME IndInv, [Next]_vars
             PROVE  IndInv'
  OBVIOUS
<1>0. TypeOK'
  BY TypeStep
<1>1. ASSUME NEW i \in Items, Stage(i)
      PROVE  IndInv'
  BY <1>0, <1>1, StageStep
<1>2. ASSUME NEW p \in Publishers, ClaimDue(p)
      PROVE  IndInv'
  BY <1>0, <1>2, ClaimDueStep
<1>3. ASSUME NEW p \in Publishers, NEW i \in Items, Publish(p, i)
      PROVE  IndInv'
  <2>1. sends'[i] > 0 /\ \A j \in Items : sends[j] > 0 => sends'[j] > 0
    BY <1>3 DEF Publish, IndInv, TypeOK
  <2> QED  BY <1>0, <1>3, <2>1, StartStep DEF Publish
<1>4. ASSUME NEW p \in Publishers, NEW i \in Items, PublishRejected(p, i)
      PROVE  IndInv'
  BY <1>0, <1>4, StartStep DEF PublishRejected
<1>5. ASSUME NEW p \in Publishers, NEW i \in Items, PublishUnacknowledged(p, i)
      PROVE  IndInv'
  <2>1. \A j \in Items : sends[j] > 0 => sends'[j] > 0
    BY <1>5 DEF PublishUnacknowledged, IndInv, TypeOK
  <2> QED  BY <1>0, <1>5, <2>1, StartStep DEF PublishUnacknowledged
<1>6. ASSUME NEW p \in Publishers, RecordSuccess(p)
      PROVE  IndInv'
  BY <1>0, <1>6, RecordSuccessStep
<1>7. ASSUME NEW p \in Publishers, RecordSuccessThrows(p)
      PROVE  IndInv'
  <2>1. call[p].step \in Sending
    BY <1>7 DEF RecordSuccessThrows, Working, Sending
  <2>2. Advances(p)
    BY <1>7, <2>1, GoToAdvances DEF RecordSuccessThrows
  <2>3. audit' = audit \/ audit' = WithAttempt(p, TRUE)
    BY <1>7 DEF RecordSuccessThrows
  <2>4. row' = row /\ sends' = sends
    BY <1>7 DEF RecordSuccessThrows
  <2> QED  BY <1>0, <2>1, <2>2, <2>3, <2>4, WithAttemptRows, AdvanceStep
<1>8. ASSUME NEW p \in Publishers, RecordFailure(p)
      PROVE  IndInv'
  <2>1. call[p].step \in Sending
    BY <1>8 DEF RecordFailure, Working, Sending
  <2>2. Advances(p)
    BY <1>8, <2>1, GoToAdvances DEF RecordFailure
  <2>3. audit' = WithAttempt(p, FALSE) /\ row' = row /\ sends' = sends
    BY <1>8 DEF RecordFailure
  <2> QED  BY <1>0, <2>1, <2>2, <2>3, WithAttemptRows, AdvanceStep
<1>9. ASSUME NEW p \in Publishers, MarkClaimPublished(p)
      PROVE  IndInv'
  <2> DEFINE i == call[p].item
  <2>1. call[p].step = "markPublished" /\ call[p].step \in Sending
    BY <1>9 DEF MarkClaimPublished, Working, Sending
  <2>2. UNCHANGED <<audit, sends>>
    BY <1>9 DEF MarkClaimPublished
  <2>3. CASE ~Owns(p, i)
    <3>1. row' = row /\ Advances(p)
      BY <1>9, <2>1, <2>3, GoToAdvances DEF MarkClaimPublished
    <3> QED  BY <1>0, <2>2, <3>1, AdvanceStep
  <2>4. CASE Owns(p, i)
    <3>1. row' = Published(i) /\ Advances(p)
      BY <1>9, <2>4, NextItemAdvances DEF MarkClaimPublished
    <3> QED  BY <1>0, <2>1, <2>2, <2>4, <3>1, PublishedSettles, SettleStep
  <2> QED  BY <2>3, <2>4
<1>10. ASSUME NEW p \in Publishers, MarkPublishedThrows(p)
       PROVE  IndInv'
  <2> DEFINE i == call[p].item
  <2>1. call[p].step = "markPublished" /\ call[p].step \in Sending
    BY <1>10 DEF MarkPublishedThrows, Working, Sending
  <2>2. UNCHANGED <<audit, sends>> /\ Advances(p)
    BY <1>10, <2>1, GoToAdvances DEF MarkPublishedThrows
  <2>3. row' = row \/ (Owns(p, i) /\ row' = Published(i))
    BY <1>10 DEF MarkPublishedThrows
  <2> QED  BY <1>0, <2>1, <2>2, <2>3, AdvanceStep, PublishedSettles, SettleStep
<1>11. ASSUME NEW p \in Publishers, MarkClaimFailedOrDead(p)
       PROVE  IndInv'
  <2> DEFINE i == call[p].item
  <2>1. call[p].step = "markFailure" /\ call[p].step \in Sending
    BY <1>11 DEF MarkClaimFailedOrDead, Working, Sending
  <2>2. NextItem(p) /\ Advances(p) /\ UNCHANGED <<audit, sends>>
    BY <1>11, NextItemAdvances DEF MarkClaimFailedOrDead
  <2>3. CASE ~Owns(p, i)
    BY <1>0, <1>11, <2>2, <2>3, AdvanceStep DEF MarkClaimFailedOrDead
  <2>4. CASE Owns(p, i)
    <3>1. Settles(p)
      BY <1>11, <2>1, <2>2, <2>4, FailedSettles DEF MarkClaimFailedOrDead
    <3> QED  BY <1>0, <2>1, <2>2, <2>4, <3>1, SettleStep
  <2> QED  BY <2>3, <2>4
<1>12. ASSUME NEW p \in Publishers, Abort(p)
       PROVE  IndInv'
  BY <1>0, <1>12, AbortAdvances, AdvanceStep DEF Abort
<1>13. CASE Tick
  BY <1>0, <1>13, TickStep
<1>14. CASE UNCHANGED vars
  BY <1>0, <1>14 DEF vars, IndInv, CallShape, Timers, Fence, Owns,
     DeadIffExhausted, DistinctGenerations, AttemptRows, Progress,
     PublishedWasSent, Leases
<1> QED
  BY <1>1, <1>2, <1>3, <1>4, <1>5, <1>6, <1>7, <1>8, <1>9, <1>10, <1>11,
     <1>12, <1>13, <1>14 DEF Next, Work, Disturb

(* Every state the publishers reach, with any number of items, publishers, *)
(* faults and attempts and any claim TTL, satisfies the inductive invariant,*)
(* of which the invariants below are parts or consequences.                *)
THEOREM Invariance == Spec => []IndInv
  BY InitHolds, InductionStep, PTL DEF Spec

-----------------------------------------------------------------------------
(* The tables, the counters and every running call stay well typed.        *)
THEOREM TypeCorrect == Spec => []TypeOK
  BY Invariance, PTL DEF IndInv

(* Whatever publishers overtake one another, an item is dead exactly when  *)
(* MaxAttempts of its attempts have been counted.                          *)
THEOREM DeadPolicy == Spec => []DeadIffExhausted
  BY Invariance, PTL DEF IndInv

(* No publisher marks an item published without a send and a success row.  *)
THEOREM NoPhantomPublish == Spec => []PublishedWasSent
  BY Invariance, PTL DEF IndInv

(* A call younger than the lease still owns what it has left to publish.   *)
THEOREM LeaseExclusion == Spec => []LeaseProtectsBatch
<1>1. IndInv => LeaseProtectsBatch
  BY DEF IndInv, Leases, LeaseProtectsBatch
<1> QED  BY <1>1, Invariance, PTL

-----------------------------------------------------------------------------
(* Every step of the publishers is one of the fenced queue, or stutters. *)
LEMMA SettleRefines ==
  ASSUME IndInv, NEW p \in Publishers, call[p].step \in Sending,
         Owns(p, call[p].item), Settles(p), sends' = sends
  PROVE  Queue!Next
<1> DEFINE i == call[p].item
           status == row'[i].status
<1>0. i \in Items /\ i \in call[p].todo
  BY ItemInHand
<1>1. row[i].status = "publishing" /\ row[i].holder = p
  BY <1>0 DEF IndInv, Fence, Owns
<1>2. /\ status \in {"published", "failed", "dead"} /\ row'[i].holder = None
      /\ row'[i].gen = row[i].gen
      /\ \A j \in Items \ {i} : row'[j] = row[j]
      /\ status = "published" => sends[i] > 0
  BY DEF Settles, IndInv, Progress
<1>3. \A j \in Items : row'[j].gen = row[j].gen
  BY <1>2
<1>4. /\ PhaseOf(status) \in {"waiting", "delivered", "abandoned"}
      /\ PhaseOf(status) = "delivered" => status = "published"
  BY <1>2 DEF PhaseOf
<1>5. PhaseOf("publishing") = "claimed"
  BY DEF PhaseOf
<1>6. \A j \in Items :
        /\ PhaseOf(row'[j].status) =
             IF j = i THEN PhaseOf(status) ELSE PhaseOf(row[j].status)
        /\ row'[j].holder = IF j = i THEN None ELSE row[j].holder
  BY <1>2
<1>7. /\ [j \in Items |-> PhaseOf(row'[j].status)] =
           [[j \in Items |-> PhaseOf(row[j].status)] EXCEPT ![i] = PhaseOf(status)]
      /\ [j \in Items |-> row'[j].holder] =
           [[j \in Items |-> row[j].holder] EXCEPT ![i] = None]
  BY <1>6
<1>8. [j \in Items |-> row'[j].gen] = [j \in Items |-> row[j].gen]
  BY <1>3
<1>9. PICK j \in Items, outcome \in {"waiting", "delivered", "abandoned"} :
        j = i /\ outcome = PhaseOf(status)
  BY <1>0, <1>4
<1>10. Queue!Settle(p, j, outcome)
  BY <1>1, <1>2, <1>4, <1>5, <1>7, <1>8, <1>9 DEF Queue!Settle
<1> QED  BY <1>10 DEF Queue!Next

(* A step of the publishers is a step of the fenced queue, or stutters.    *)
LEMMA RefinementStep ==
  IndInv /\ [Next]_vars => [Queue!Next]_(Queue!qvars)
<1> SUFFICES ASSUME IndInv, [Next]_vars
             PROVE  Queue!Next \/ UNCHANGED Queue!qvars
  OBVIOUS
<1>0. /\ \A i \in Items : sends[i] \in Nat
      /\ \A p \in Publishers : call[p].todo \subseteq Items
  BY DEF IndInv, TypeOK, Call
<1>idle. ASSUME \A i \in Items : /\ row'[i].status = row[i].status
                                 /\ row'[i].holder = row[i].holder
                                 /\ row'[i].gen = row[i].gen,
                sends' = sends
         PROVE  UNCHANGED Queue!qvars
  BY <1>idle DEF Queue!qvars
<1>send. ASSUME NEW i \in Items, NEW p \in Publishers, i \in call[p].todo,
                row' = row, sends' = [sends EXCEPT ![i] = @ + 1]
         PROVE  Queue!Next
  <2>1. row[i].status # "absent" /\ row[i].status \in Statuses
    BY <1>send DEF IndInv, Fence, TypeOK, Row
  <2>2. PhaseOf(row[i].status) # "absent"
    BY <2>1 DEF PhaseOf, Statuses
  <2>3. {j \in Items : sends'[j] > 0} = {j \in Items : sends[j] > 0} \cup {i}
    BY <1>0, <1>send DEF IndInv, TypeOK
  <2>4. Queue!Send(i)
    BY <1>send, <2>2, <2>3 DEF Queue!Send
  <2> QED  BY <2>4 DEF Queue!Next
<1>1. ASSUME NEW i \in Items, Stage(i)
      PROVE  Queue!Next
  <2>1. /\ row[i].status = "absent" /\ row'[i].status = "pending"
        /\ row'[i].holder = row[i].holder /\ row'[i].gen = row[i].gen
        /\ \A j \in Items \ {i} : row'[j] = row[j]
        /\ sends' = sends
    BY <1>1 DEF Stage, IndInv, TypeOK, Row
  <2>2. PhaseOf("absent") = "absent" /\ PhaseOf("pending") = "waiting"
    BY DEF PhaseOf
  <2>3. \A j \in Items : row'[j].holder = row[j].holder /\ row'[j].gen = row[j].gen
    BY <2>1
  <2>4. [j \in Items |-> PhaseOf(row'[j].status)] =
          [[j \in Items |-> PhaseOf(row[j].status)] EXCEPT ![i] = "waiting"]
    BY <2>1, <2>2
  <2>5. Queue!Add(i)
    BY <2>1, <2>2, <2>3, <2>4 DEF Queue!Add
  <2> QED  BY <2>5 DEF Queue!Next
<1>2. ASSUME NEW p \in Publishers, ClaimDue(p)
      PROVE  Queue!Next
  <2>1. PICK batch \in SUBSET Items :
          /\ \A i \in batch : Due(i)
          /\ row' = [i \in Items |->
               IF i \in batch THEN Claimed(row[i], p) ELSE row[i]]
          /\ sends' = sends
    BY <1>2 DEF ClaimDue
  <2>2. \A i \in batch : PhaseOf(row[i].status) \in {"waiting", "claimed"}
    BY <2>1 DEF Due, PhaseOf
  <2>3. \A i \in Items :
          IF i \in batch
          THEN /\ row'[i].status = "publishing" /\ row'[i].holder = p
               /\ row'[i].gen = row[i].gen + 1
          ELSE row'[i] = row[i]
    BY <2>1 DEF Claimed
  <2>4. PhaseOf("publishing") = "claimed"
    BY DEF PhaseOf
  <2>5. Queue!HandOut(p, batch)
    BY <2>1, <2>2, <2>3, <2>4 DEF Queue!HandOut
  <2> QED  BY <2>5 DEF Queue!Next
<1>3. ASSUME NEW p \in Publishers, NEW i \in Items,
             Publish(p, i) \/ PublishUnacknowledged(p, i)
      PROVE  Queue!Next
  BY <1>3, <1>send DEF Publish, PublishUnacknowledged, StartItem
<1>4. ASSUME NEW p \in Publishers,
             \/ \E i \in Items : PublishRejected(p, i)
             \/ RecordSuccess(p) \/ RecordSuccessThrows(p) \/ RecordFailure(p)
             \/ Abort(p)
      PROVE  UNCHANGED Queue!qvars
  <2>1. row' = row /\ sends' = sends
    BY <1>4 DEF PublishRejected, StartItem, RecordSuccess, RecordSuccessThrows,
                RecordFailure, Abort
  <2> QED  BY <1>idle, <2>1
<1>5. ASSUME NEW p \in Publishers, MarkClaimPublished(p) \/ MarkPublishedThrows(p)
      PROVE  Queue!Next \/ UNCHANGED Queue!qvars
  <2> DEFINE i == call[p].item
  <2>1. call[p].step = "markPublished" /\ sends' = sends
    BY <1>5 DEF MarkClaimPublished, MarkPublishedThrows, Working
  <2>2. row' = row \/ (Owns(p, i) /\ row' = Published(i))
    BY <1>5 DEF MarkClaimPublished, MarkPublishedThrows
  <2>3. CASE row' = row
    BY <1>idle, <2>1, <2>3
  <2>4. CASE Owns(p, i) /\ row' = Published(i)
    BY <2>1, <2>4, PublishedSettles, SettleRefines DEF Sending
  <2> QED  BY <2>2, <2>3, <2>4
<1>6. ASSUME NEW p \in Publishers, MarkClaimFailedOrDead(p)
      PROVE  Queue!Next \/ UNCHANGED Queue!qvars
  <2> DEFINE i == call[p].item
  <2>1. call[p].step = "markFailure" /\ sends' = sends
    BY <1>6 DEF MarkClaimFailedOrDead, Working
  <2>2. CASE ~Owns(p, i)
    BY <1>6, <1>idle, <2>1, <2>2 DEF MarkClaimFailedOrDead
  <2>3. CASE Owns(p, i)
    <3>1. Settles(p)
      BY <1>6, <2>1, <2>3, FailedSettles DEF MarkClaimFailedOrDead
    <3> QED  BY <2>1, <2>3, <3>1, SettleRefines DEF Sending
  <2> QED  BY <2>2, <2>3
<1>7. CASE Tick
  <2>1. \A i \in Items : row[i] \in Row
    BY DEF IndInv, TypeOK
  <2> DEFINE left(r) == [r EXCEPT !.availableIn = Earlier(@),
                                  !.expiresIn = Earlier(@)]
  <2>2. \A i \in Items : row'[i] = left(row[i])
    BY <1>7 DEF Tick
  <2>3. sends' = sends
    BY <1>7 DEF Tick
  <2>4. \A i \in Items : /\ row'[i].status = row[i].status
                         /\ row'[i].holder = row[i].holder
                         /\ row'[i].gen = row[i].gen
    BY <2>1, <2>2 DEF Row
  <2> QED  BY <1>idle, <2>3, <2>4
<1>8. CASE UNCHANGED vars
  BY <1>8, <1>idle DEF vars
<1> QED
  BY <1>1, <1>2, <1>3, <1>4, <1>5, <1>6, <1>7, <1>8 DEF Next, Work, Disturb

(* The outbox and its publishers implement the fenced queue: only the      *)
(* latest claim of a row closes it or gives it back, after a send if it is *)
(* closed as published, and no step ever reopens it.                       *)
THEOREM Refinement == Spec => ImplementsFencedQueue
<1>1. Init => Queue!Init
  BY DEF Init, Queue!Init, AbsentRow, PhaseOf
<1>2. IndInv /\ [Next]_vars => [Queue!Next]_(Queue!qvars)
  BY RefinementStep
<1> QED  BY <1>1, <1>2, Invariance, PTL DEF Spec, Queue!Spec, ImplementsFencedQueue

-----------------------------------------------------------------------------
(* No step changes the status of an item that is published or dead.        *)
LEMMA ClosedStep ==
  ASSUME IndInv, [Next]_vars, NEW i \in Items, row[i].status \in Closed
  PROVE  row'[i] = row[i]
<1>0. /\ row[i].status # "pending" /\ row[i].status # "failed"
      /\ row[i].status # "publishing" /\ row[i].status # "absent"
      /\ row \in [Items -> Row]
  BY DEF Closed, IndInv, TypeOK
<1>1. ASSUME NEW p \in Publishers, NEW j \in call[p].todo, Owns(p, j)
      PROVE  j # i
  BY <1>0, <1>1 DEF IndInv, Fence
<1>2. CASE row' = row
  BY <1>2
<1>3. CASE \E j \in Items : Stage(j)
  BY <1>0, <1>3 DEF Stage
<1>4. CASE \E p \in Publishers : ClaimDue(p)
  <2>1. PICK p \in Publishers, batch \in SUBSET {j \in Items : Due(j)} :
          row' = [j \in Items |-> IF j \in batch THEN Claimed(row[j], p) ELSE row[j]]
    BY <1>4 DEF ClaimDue
  <2>2. ~Due(i)
    BY <1>0 DEF Due
  <2> QED  BY <2>1, <2>2
<1>5. CASE \E p \in Publishers : MarkClaimPublished(p) \/ MarkPublishedThrows(p)
  <2>1. PICK p \in Publishers : MarkClaimPublished(p) \/ MarkPublishedThrows(p)
    BY <1>5
  <2>2. call[p].item \in call[p].todo /\ call[p].item \in Items
    BY <2>1, ItemInHand DEF MarkClaimPublished, MarkPublishedThrows, Working, Sending
  <2>3. \/ row' = row
        \/ Owns(p, call[p].item) /\ row' = Published(call[p].item)
    BY <2>1 DEF MarkClaimPublished, MarkPublishedThrows
  <2> QED  BY <1>0, <1>1, <2>2, <2>3 DEF Published
<1>6. CASE \E p \in Publishers : MarkClaimFailedOrDead(p)
  <2>1. PICK p \in Publishers : MarkClaimFailedOrDead(p)
    BY <1>6
  <2>2. call[p].item \in call[p].todo /\ call[p].item \in Items
    BY <2>1, ItemInHand DEF MarkClaimFailedOrDead, Working, Sending
  <2> QED  BY <1>0, <1>1, <2>1, <2>2 DEF MarkClaimFailedOrDead
<1>7. CASE Tick
  <2>1. row[i].availableIn = 0 /\ row[i].expiresIn = 0
    BY <1>0 DEF IndInv, Timers
  <2> DEFINE left(r) == [r EXCEPT !.availableIn = Earlier(@),
                                  !.expiresIn = Earlier(@)]
  <2>2. row'[i] = left(row[i])
    BY <1>7 DEF Tick
  <2>3. left(row[i]) = row[i]
    <3>1. row[i] = [status |-> row[i].status, attempts |-> row[i].attempts,
                    gen |-> row[i].gen, holder |-> row[i].holder,
                    availableIn |-> row[i].availableIn,
                    expiresIn |-> row[i].expiresIn]
      BY <1>0 DEF Row
    <3>2. Earlier(0) = 0
      BY DEF Earlier
    <3>3. left(row[i]) =
            [status |-> row[i].status, attempts |-> row[i].attempts,
             gen |-> row[i].gen, holder |-> row[i].holder,
             availableIn |-> 0, expiresIn |-> 0]
      BY <2>1, <3>1, <3>2
    <3> QED  BY <2>1, <3>1, <3>3
  <2> QED  BY <2>2, <2>3
<1> QED
  BY <1>2, <1>3, <1>4, <1>5, <1>6, <1>7
     DEF Next, Work, Disturb, vars, Publish, PublishRejected,
         PublishUnacknowledged, StartItem, RecordSuccess, RecordSuccessThrows,
         RecordFailure, Abort

(* A published or dead row is never written again: a publisher that lost   *)
(* its claim cannot reopen, retry or overwrite it.                         *)
THEOREM Finality == Spec => ClosedIsFinal
<1>1. IndInv /\ [Next]_vars =>
        [\A i \in Items : row[i].status \in Closed => row'[i] = row[i]]_vars
  BY ClosedStep
<1> QED  BY <1>1, Invariance, PTL DEF Spec, ClosedIsFinal

-----------------------------------------------------------------------------
(* Copies and faults.                                                      *)
(*                                                                         *)
(* The account of an item: a copy has been paid for by a fault, or it is   *)
(* the one copy the item is due.  Publishers that may still send it though *)
(* their lease is gone are charged in advance, when the lease runs out.    *)

Current(p, i) == Owns(p, i) /\ row[i].expiresIn > 0

Stragglers(i) ==
  {p \in Publishers :
     i \in call[p].todo /\ i # call[p].item /\ ~Current(p, i)}

(* The copy the item is due: sent by the holder of the live lease, which   *)
(* has yet to say so, or marked published.                                 *)
Delivered(i) ==
  \/ row[i].status = "published"
  \/ \E p \in Publishers :
       /\ call[p].item = i /\ call[p].step \in {"recordSuccess", "markPublished"}
       /\ Current(p, i)

Balanced(i) ==
  /\ IsFiniteSet(Stragglers(i))
  /\ sends[i] + Cardinality(Stragglers(i))
       <= faults + (IF Delivered(i) THEN 1 ELSE 0)

Accounted == \A i \in Items : Balanced(i)

(* Removing members never adds to a count, and adding one adds at most one. *)
LEMMA Fewer ==
  ASSUME NEW S, NEW T, IsFiniteSet(S), T \subseteq S
  PROVE  /\ IsFiniteSet(T) /\ Cardinality(T) \in Nat /\ Cardinality(S) \in Nat
         /\ Cardinality(T) <= Cardinality(S)
  BY FS_Subset, FS_CardinalityType

(* A set with a member taken out counts one less.                          *)
LEMMA OneLess ==
  ASSUME NEW S, NEW x \in S, NEW T, IsFiniteSet(S), T \subseteq S \ {x}
  PROVE  /\ IsFiniteSet(T) /\ Cardinality(T) \in Nat /\ Cardinality(S) \in Nat
         /\ Cardinality(T) + 1 <= Cardinality(S)
<1>1. /\ IsFiniteSet(S \ {x})
      /\ Cardinality(S \ {x}) = Cardinality(S) - 1
  BY FS_RemoveElement
<1> QED  BY <1>1, Fewer, FS_CardinalityType

(* A set with a member put in counts at most one more.                     *)
LEMMA OneMore ==
  ASSUME NEW S, NEW x, NEW T, IsFiniteSet(S), T \subseteq S \cup {x}
  PROVE  /\ IsFiniteSet(T) /\ Cardinality(T) \in Nat /\ Cardinality(S) \in Nat
         /\ Cardinality(T) <= Cardinality(S) + 1
<1>1. /\ IsFiniteSet(S \cup {x})
      /\ Cardinality(S \cup {x}) \in {Cardinality(S), Cardinality(S) + 1}
  BY FS_AddElement
<1>2. Cardinality(S) \in Nat
  BY FS_CardinalityType
<1> QED  BY <1>1, <1>2, Fewer

(* A step that sends no copy of an item keeps its account, if it loses     *)
(* neither a publisher's entitlement nor the delivery except by a fault.   *)
LEMMA Kept ==
  ASSUME TypeOK, NEW i \in Items, Balanced(i), sends'[i] = sends[i],
         Stragglers(i)' \subseteq Stragglers(i),
         \/ faults' = faults + 1
         \/ faults' = faults /\ (Delivered(i) => Delivered(i)')
  PROVE  Balanced(i)'
<1> DEFINE S == Stragglers(i)
           T == Stragglers(i)'
           credit == IF Delivered(i) THEN 1 ELSE 0
           credit2 == IF Delivered(i)' THEN 1 ELSE 0
<1>1. IsFiniteSet(S) /\ T \subseteq S /\ sends[i] + Cardinality(S) <= faults + credit
  BY DEF Balanced
<1>2. sends[i] \in Nat /\ faults \in Nat
  BY DEF TypeOK
<1>3. faults + credit <= faults' + credit2
  BY <1>2
<1>4. faults + credit \in Nat /\ faults' + credit2 \in Nat
  BY <1>2
<1> HIDE DEF S, T, credit, credit2
<1>5. IsFiniteSet(T) /\ sends[i] + Cardinality(T) <= faults' + credit2
  BY <1>1, <1>2, <1>3, <1>4, Fewer
<1> QED  BY <1>5 DEF Balanced, T, credit2

(* A step that sends a copy keeps the account if it is a fault, if the     *)
(* copy was charged in advance or if it is the one that was due.           *)
LEMMA Copied ==
  ASSUME TypeOK, NEW i \in Items, Balanced(i), sends'[i] = sends[i] + 1,
         Stragglers(i)' \subseteq Stragglers(i),
         Delivered(i) => Delivered(i)',
         \/ faults' = faults + 1
         \/ /\ faults' = faults
            /\ \/ ~Delivered(i) /\ Delivered(i)'
               \/ \E p \in Stragglers(i) : p \notin Stragglers(i)'
  PROVE  Balanced(i)'
<1> DEFINE S == Stragglers(i)
           T == Stragglers(i)'
           credit == IF Delivered(i) THEN 1 ELSE 0
           credit2 == IF Delivered(i)' THEN 1 ELSE 0
<1>1. IsFiniteSet(S) /\ T \subseteq S /\ sends[i] + Cardinality(S) <= faults + credit
  BY DEF Balanced
<1>2. sends[i] \in Nat /\ faults \in Nat /\ faults' \in Nat
  BY DEF TypeOK
<1>3. credit \in {0, 1} /\ credit2 \in {0, 1} /\ credit <= credit2
  OBVIOUS
<1>4. \/ faults' = faults + 1
      \/ faults' = faults /\ credit = 0 /\ credit2 = 1
      \/ faults' = faults /\ \E p \in S : p \notin T
  OBVIOUS
<1> HIDE DEF S, T, credit, credit2
<1>5. IsFiniteSet(T) /\ Cardinality(T) \in Nat /\ Cardinality(S) \in Nat
      /\ Cardinality(T) <= Cardinality(S)
  BY <1>1, Fewer
<1>6. (\E p \in S : p \notin T) => Cardinality(T) + 1 <= Cardinality(S)
  BY <1>1, OneLess
<1>7. sends[i] + 1 + Cardinality(T) <= faults' + credit2
  BY <1>1, <1>2, <1>3, <1>4, <1>5, <1>6
<1> QED  BY <1>5, <1>7 DEF Balanced, T, credit2

(* A lease that runs out under a publisher that may still send is a fault, *)
(* which pays in advance for the copy.                                     *)
LEMMA Overrun ==
  ASSUME TypeOK, NEW i \in Items, Balanced(i), sends'[i] = sends[i],
         NEW p, Stragglers(i)' \subseteq Stragglers(i) \cup {p},
         Delivered(i) => Delivered(i)', faults' = faults + 1
  PROVE  Balanced(i)'
<1> DEFINE S == Stragglers(i)
           T == Stragglers(i)'
           credit == IF Delivered(i) THEN 1 ELSE 0
           credit2 == IF Delivered(i)' THEN 1 ELSE 0
<1>1. /\ IsFiniteSet(S) /\ T \subseteq S \cup {p}
      /\ sends[i] + Cardinality(S) <= faults + credit
  BY DEF Balanced
<1>2. sends[i] \in Nat /\ faults \in Nat /\ faults' \in Nat
  BY DEF TypeOK
<1>3. credit \in {0, 1} /\ credit2 \in {0, 1} /\ credit <= credit2
  OBVIOUS
<1> HIDE DEF S, T, credit, credit2
<1>4. /\ IsFiniteSet(T) /\ Cardinality(T) \in Nat /\ Cardinality(S) \in Nat
      /\ Cardinality(T) <= Cardinality(S) + 1
  BY <1>1, OneMore
<1>5. sends[i] + Cardinality(T) <= faults' + credit2
  BY <1>1, <1>2, <1>3, <1>4
<1> QED  BY <1>4, <1>5 DEF Balanced, T, credit2

-----------------------------------------------------------------------------
(* Who may still send what, step by step.                                  *)

(* One publisher at most has the current claim of a row, and the row is    *)
(* being published.                                                        *)
LEMMA CurrentClaim ==
  ASSUME IndInv, NEW p \in Publishers, NEW i \in call[p].todo, Owns(p, i)
  PROVE  /\ row[i].status = "publishing" /\ row[i].holder = p
         /\ \A q \in Publishers : Owns(q, i) => q = p
  BY DEF IndInv, Fence, Owns

(* A delivery that is not yet marked is that of the current claim.         *)
LEMMA DeliveredBy ==
  ASSUME IndInv, NEW i \in Items, Delivered(i)
  PROVE  \/ row[i].status = "published"
         \/ \E p \in Publishers :
              /\ call[p].item = i /\ i \in call[p].todo /\ Current(p, i)
              /\ call[p].step \in {"recordSuccess", "markPublished"}
              /\ row[i].status = "publishing"
  BY DEF Delivered, Current, IndInv, CallShape, Sending, Fence

(* A step that only moves a call on makes nobody a straggler; the delivery *)
(* it may lose is its own.                                                 *)
LEMMA AdvancesQuietly ==
  ASSUME IndInv, NEW p \in Publishers, Advances(p), row' = row, NEW i \in Items
  PROVE  /\ Stragglers(i)' \subseteq Stragglers(i)
         /\ \/ Delivered(i) => Delivered(i)'
            \/ /\ call[p].item = i /\ Current(p, i)
               /\ call[p].step \in {"recordSuccess", "markPublished"}
<1>1. ASSUME NEW q \in Stragglers(i)'
      PROVE  q \in Stragglers(i)
  <2>1. q \in Publishers /\ i \in call'[q].todo /\ i # call'[q].item
        /\ ~Current(q, i)'
    BY DEF Stragglers
  <2>2. i \in call[q].todo /\ i # call[q].item
        /\ call'[q].claim[i] = call[q].claim[i]
    BY <2>1 DEF Advances
  <2>3. ~Current(q, i)
    BY <2>1, <2>2 DEF Current, Owns
  <2> QED  BY <2>1, <2>2, <2>3 DEF Stragglers
<1>2. ASSUME Delivered(i), ~Delivered(i)'
      PROVE  /\ call[p].item = i /\ Current(p, i)
             /\ call[p].step \in {"recordSuccess", "markPublished"}
  <2>1. row[i].status # "published"
    BY <1>2 DEF Delivered
  <2>2. PICK q \in Publishers :
          /\ call[q].item = i /\ Current(q, i)
          /\ call[q].step \in {"recordSuccess", "markPublished"}
    BY <1>2, <2>1 DEF Delivered
  <2>3. CASE q # p
    <3>1. call'[q] = call[q]
      BY <2>3 DEF Advances
    <3>2. Delivered(i)'
      BY <2>2, <3>1 DEF Delivered, Current, Owns
    <3> QED  BY <1>2, <3>2
  <2> QED  BY <2>2, <2>3
<1> QED  BY <1>1, <1>2

(* A fenced update takes the row from its owner, and leaves the others     *)
(* what they were.                                                         *)
LEMMA SettlesQuietly ==
  ASSUME IndInv, NEW p \in Publishers, Advances(p), Settles(p),
         call[p].step \in Sending, Owns(p, call[p].item), NEW i \in Items,
         \/ row'[call[p].item].status = "published"
         \/ call[p].step = "markFailure"
  PROVE  /\ Stragglers(i)' \subseteq Stragglers(i)
         /\ Delivered(i) => Delivered(i)'
<1> DEFINE j == call[p].item
<1>0. j \in Items /\ j \in call[p].todo
  BY ItemInHand
<1>1. \A q \in Publishers : Owns(q, j) => q = p
  BY <1>0, CurrentClaim
<1>2. row'[j].holder = None /\ \A k \in Items \ {j} : row'[k] = row[k]
  BY DEF Settles
<1>3. ASSUME NEW q \in Stragglers(i)'
      PROVE  q \in Stragglers(i)
  <2>1. q \in Publishers /\ i \in call'[q].todo /\ i # call'[q].item
        /\ ~Current(q, i)'
    BY DEF Stragglers
  <2>2. i \in call[q].todo /\ i # call[q].item
        /\ call'[q].claim[i] = call[q].claim[i]
    BY <2>1 DEF Advances
  <2>3. ~Current(q, i)
    <3>1. CASE i = j
      BY <1>1, <2>1, <2>2, <3>1 DEF Current
    <3>2. CASE i # j
      BY <1>2, <2>1, <2>2, <3>2 DEF Current, Owns
    <3> QED  BY <3>1, <3>2
  <2> QED  BY <2>1, <2>2, <2>3 DEF Stragglers
<1>4. ASSUME Delivered(i)
      PROVE  Delivered(i)'
  <2>1. CASE i = j /\ row'[j].status = "published"
    BY <2>1 DEF Delivered
  <2>2. CASE i = j /\ call[p].step = "markFailure"
    <3>1. row[j].status = "publishing"
      BY <1>0, CurrentClaim
    <3>2. PICK q \in Publishers :
            /\ call[q].item = i /\ Current(q, i)
            /\ call[q].step \in {"recordSuccess", "markPublished"}
      BY <1>4, <2>2, <3>1 DEF Delivered
    <3> QED  BY <1>1, <2>2, <3>2 DEF Current
  <2>3. CASE i # j
    <3>1. row'[i] = row[i]
      BY <1>2, <2>3
    <3>2. CASE row[i].status = "published"
      BY <3>1, <3>2 DEF Delivered
    <3>3. CASE row[i].status # "published"
      <4>1. PICK q \in Publishers :
              /\ call[q].item = i /\ Current(q, i)
              /\ call[q].step \in {"recordSuccess", "markPublished"}
        BY <1>4, <3>3 DEF Delivered
      <4>2. q # p /\ call'[q] = call[q]
        BY <2>3, <4>1 DEF Advances
      <4> QED  BY <3>1, <4>1, <4>2 DEF Delivered, Current, Owns
    <3> QED  BY <3>2, <3>3
  <2> QED  BY <2>1, <2>2, <2>3
<1> QED  BY <1>3, <1>4

(* A claim is for rows that nobody holds any more, and of which the one    *)
(* copy that was due is not known to be out.                               *)
LEMMA ClaimQuietly ==
  ASSUME IndInv, NEW p \in Publishers, ClaimDue(p), NEW i \in Items
  PROVE  /\ Stragglers(i)' \subseteq Stragglers(i)
         /\ Delivered(i) => Delivered(i)'
<1>1. PICK batch \in SUBSET Items :
        /\ \A j \in batch : Due(j)
        /\ row' = [j \in Items |->
             IF j \in batch THEN Claimed(row[j], p) ELSE row[j]]
        /\ call' = [call EXCEPT ![p] =
             [step |-> "publish", todo |-> batch, item |-> None, elapsed |-> 0,
              claim |-> [j \in Items |->
                IF j \in batch
                THEN [gen |-> row[j].gen + 1, attempts |-> row[j].attempts]
                ELSE NoClaim]]]
  BY DEF ClaimDue
<1>2. /\ call[p].step = "idle"
      /\ \A q \in Publishers \ {p} : call'[q] = call[q]
      /\ call'[p].todo = batch /\ call'[p].item = None
      /\ \A j \in batch : call'[p].claim[j].gen = row[j].gen + 1
  BY <1>1 DEF ClaimDue, IndInv, TypeOK
<1>3. ASSUME i \in batch, NEW q \in Publishers, i \in call[q].todo
      PROVE  ~Current(q, i)
  <2>1. Due(i)
    BY <1>1, <1>3
  <2>2. Owns(q, i) => row[i].status = "publishing"
    BY <1>3, CurrentClaim
  <2> QED  BY <2>1, <2>2 DEF Due, Current
<1>4. ASSUME NEW q \in Stragglers(i)'
      PROVE  q \in Stragglers(i)
  <2>1. q \in Publishers /\ i \in call'[q].todo /\ i # call'[q].item
        /\ ~Current(q, i)'
    BY DEF Stragglers
  <2>2. CASE q = p
    <3>1. i \in batch
      BY <1>2, <2>1, <2>2
    <3>2. row'[i] = Claimed(row[i], p)
      BY <1>1, <3>1
    <3>3. row'[i].holder = p /\ row'[i].gen = row[i].gen + 1
          /\ row'[i].expiresIn = ClaimTTL
      BY <3>2 DEF Claimed
    <3> QED  BY <1>2, <2>1, <2>2, <3>1, <3>3 DEF Current, Owns
  <2>3. CASE q # p
    <3>1. call'[q] = call[q]
      BY <1>2, <2>1, <2>3
    <3>2. CASE i \in batch
      BY <1>3, <2>1, <3>1, <3>2 DEF Stragglers
    <3>3. CASE i \notin batch
      <4>1. row'[i] = row[i]
        BY <1>1, <3>3
      <4> QED  BY <2>1, <3>1, <4>1 DEF Stragglers, Current, Owns
    <3> QED  BY <3>2, <3>3
  <2> QED  BY <2>2, <2>3
<1>5. ASSUME Delivered(i)
      PROVE  Delivered(i)'
  <2>1. CASE row[i].status = "published"
    <3>1. i \notin batch
      BY <1>1, <2>1 DEF Due
    <3>2. row'[i] = row[i]
      BY <1>1, <3>1
    <3> QED  BY <2>1, <3>2 DEF Delivered
  <2>2. CASE row[i].status # "published"
    <3>1. PICK q \in Publishers :
            /\ call[q].item = i /\ i \in call[q].todo /\ Current(q, i)
            /\ call[q].step \in {"recordSuccess", "markPublished"}
      BY <1>5, <2>2, DeliveredBy
    <3>2. q # p /\ call'[q] = call[q]
      BY <1>2, <3>1
    <3>3. i \notin batch
      BY <1>3, <3>1
    <3>4. row'[i] = row[i]
      BY <1>1, <3>3
    <3> QED  BY <3>1, <3>2, <3>4 DEF Delivered, Current, Owns
  <2> QED  BY <2>1, <2>2
<1> QED  BY <1>4, <1>5

(* The start of an item: the publisher is no straggler for it any more,    *)
(* and whether it is delivered is up to its lease.                         *)
LEMMA StartQuietly ==
  ASSUME IndInv, NEW p \in Publishers, NEW j \in Items, NEW step \in Sending,
         StartItem(p, j, step), NEW i \in Items
  PROVE  /\ Stragglers(i)' \subseteq Stragglers(i)
         /\ Delivered(i) => Delivered(i)'
         /\ p \notin Stragglers(j)'
         /\ ~Current(p, j) => p \in Stragglers(j)
         /\ Current(p, j) => ~Delivered(j)
         /\ Current(p, j) /\ step = "recordSuccess" => Delivered(j)'
<1>1. /\ call[p].step = "publish" /\ call[p].item = None /\ j \in call[p].todo
      /\ row' = row
      /\ call'[p] = [call[p] EXCEPT !.item = j, !.step = step]
      /\ \A q \in Publishers \ {p} : call'[q] = call[q]
  BY DEF StartItem, Working, IndInv, CallShape, TypeOK
<1>2. /\ call'[p].item = j /\ call'[p].step = step
      /\ call'[p].todo = call[p].todo /\ call'[p].claim = call[p].claim
  BY <1>1 DEF IndInv, TypeOK, Call
<1>3. \A q \in Publishers, k \in Items : Current(q, k)' <=> Current(q, k)
  BY <1>1, <1>2 DEF Current, Owns
<1>4. Stragglers(i)' \subseteq Stragglers(i)
  <2> SUFFICES ASSUME NEW q \in Stragglers(i)'
               PROVE  q \in Stragglers(i)
    OBVIOUS
  <2>1. q \in Publishers /\ i \in call'[q].todo /\ i # call'[q].item
        /\ ~Current(q, i)'
    BY DEF Stragglers
  <2>2. i \in call[q].todo /\ i # call[q].item
    BY <1>1, <1>2, <2>1, ItemsAssumption
  <2> QED  BY <1>3, <2>1, <2>2 DEF Stragglers
<1>5. Delivered(i) => Delivered(i)'
  <2> SUFFICES ASSUME Delivered(i), row[i].status # "published"
               PROVE  Delivered(i)'
    BY <1>1 DEF Delivered
  <2>1. PICK q \in Publishers :
          /\ call[q].item = i /\ Current(q, i)
          /\ call[q].step \in {"recordSuccess", "markPublished"}
    BY DEF Delivered
  <2>2. q # p /\ call'[q] = call[q]
    BY <1>1, <2>1
  <2> QED  BY <1>3, <2>1, <2>2 DEF Delivered
<1>6. p \notin Stragglers(j)' /\ (~Current(p, j) => p \in Stragglers(j))
  BY <1>1, <1>2, ItemsAssumption DEF Stragglers
<1>7. Current(p, j) => ~Delivered(j)
  <2> SUFFICES ASSUME Current(p, j), Delivered(j)
               PROVE  FALSE
    OBVIOUS
  <2>1. row[j].status = "publishing" /\ \A q \in Publishers : Owns(q, j) => q = p
    BY <1>1, CurrentClaim DEF Current
  <2>2. PICK q \in Publishers :
          /\ call[q].item = j /\ Current(q, j)
          /\ call[q].step \in {"recordSuccess", "markPublished"}
    BY <2>1 DEF Delivered
  <2> QED  BY <1>1, <2>1, <2>2 DEF Current
<1>8. Current(p, j) /\ step = "recordSuccess" => Delivered(j)'
  BY <1>2, <1>3 DEF Delivered
<1> QED  BY <1>4, <1>5, <1>6, <1>7, <1>8

(* The clock: a lease that runs out under its publisher is a fault; all    *)
(* else is as before.                                                      *)
LEMMA TickAccount ==
  ASSUME IndInv, Tick, NEW i \in Items, Balanced(i)
  PROVE  Balanced(i)'
<1>1. /\ row'[i].status = row[i].status /\ row'[i].holder = row[i].holder
      /\ row'[i].gen = row[i].gen /\ row'[i].expiresIn = Earlier(row[i].expiresIn)
      /\ row[i].expiresIn \in Nat
  BY DEF Tick, IndInv, TypeOK, Row
<1>2. \A q \in Publishers :
        /\ call'[q].todo = call[q].todo /\ call'[q].item = call[q].item
        /\ call'[q].claim = call[q].claim /\ call'[q].step = call[q].step
  BY DEF Tick, IndInv, TypeOK, Call
<1>3. sends' = sends /\ TypeOK /\ faults \in Nat
  BY DEF Tick, IndInv, TypeOK
<1>4. \A q \in Publishers :
        /\ Owns(q, i)' <=> Owns(q, i)
        /\ row[i].expiresIn # 1 => (Current(q, i)' <=> Current(q, i))
        /\ Current(q, i)' => Current(q, i)
  BY <1>1, <1>2 DEF Owns, Current, Earlier
<1>5. CASE \E q \in Publishers :
             i \in call[q].todo /\ Owns(q, i) /\ row[i].expiresIn = 1
  <2>1. PICK p \in Publishers :
          i \in call[p].todo /\ Owns(p, i) /\ row[i].expiresIn = 1
    BY <1>5
  <2>2. row[i].status = "publishing" /\ \A q \in Publishers : Owns(q, i) => q = p
    BY <2>1, CurrentClaim
  <2>3. faults' = faults + 1
    BY <2>1 DEF Tick, Overruns, Fault
  <2>4. \A q \in Publishers \ {p} : q \in Stragglers(i)' => q \in Stragglers(i)
    BY <1>2, <2>2 DEF Stragglers, Current
  <2>5. CASE call[p].item = i
    <3>1. p \notin Stragglers(i)'
      BY <1>2, <2>5 DEF Stragglers
    <3>2. Stragglers(i)' \subseteq Stragglers(i)
      BY <2>4, <3>1 DEF Stragglers
    <3> QED  BY <1>3, <2>3, <3>2, Kept
  <2>6. CASE call[p].item # i
    <3>1. ~Delivered(i)
      BY <2>2, <2>6 DEF Delivered, Current
    <3>2. Stragglers(i)' \subseteq Stragglers(i) \cup {p}
      BY <2>4 DEF Stragglers
    <3> QED  BY <1>3, <2>3, <3>1, <3>2, Overrun
  <2> QED  BY <2>5, <2>6
<1>6. CASE \A q \in Publishers :
             ~(i \in call[q].todo /\ Owns(q, i) /\ row[i].expiresIn = 1)
  <2>1. \A q \in Publishers :
          i \in call[q].todo => (Current(q, i)' <=> Current(q, i))
    BY <1>4, <1>6 DEF Current
  <2>2. Stragglers(i)' \subseteq Stragglers(i)
    BY <1>2, <2>1 DEF Stragglers
  <2>3. Delivered(i) => Delivered(i)'
    <3> SUFFICES ASSUME Delivered(i), row[i].status # "published"
                 PROVE  Delivered(i)'
      BY <1>1 DEF Delivered
    <3>1. PICK q \in Publishers :
            /\ call[q].item = i /\ i \in call[q].todo /\ Current(q, i)
            /\ call[q].step \in {"recordSuccess", "markPublished"}
      BY DeliveredBy
    <3> QED  BY <1>2, <2>1, <3>1 DEF Delivered
  <2>4. faults' = faults \/ faults' = faults + 1
    BY DEF Tick, Fault
  <2> QED  BY <1>3, <2>2, <2>3, <2>4, Kept
<1> QED  BY <1>5, <1>6

(* Every step keeps the account of every item.                             *)
LEMMA AccountStep ==
  ASSUME IndInv, [Next]_vars, NEW i \in Items, Balanced(i)
  PROVE  Balanced(i)'
<1>0. TypeOK /\ TypeOK' /\ faults \in Nat /\ sends \in [Items -> Nat]
  BY TypeStep DEF IndInv, TypeOK
<1>1. ASSUME NEW j \in Items, Stage(j)
      PROVE  Balanced(i)'
  <2>1. /\ row[j].status = "absent" /\ call' = call
        /\ row'[i].holder = row[i].holder /\ row'[i].gen = row[i].gen
        /\ row'[i].expiresIn = row[i].expiresIn
        /\ i # j => row'[i] = row[i]
    BY <1>0, <1>1 DEF Stage, TypeOK, Row
  <2>2. \A q \in Publishers : Current(q, i)' <=> Current(q, i)
    BY <2>1 DEF Current, Owns
  <2>3. Stragglers(i)' \subseteq Stragglers(i) /\ (Delivered(i) => Delivered(i)')
    BY <2>1, <2>2 DEF Stragglers, Delivered
  <2> QED  BY <1>0, <1>1, <2>3, Kept DEF Stage
<1>2. ASSUME NEW p \in Publishers, ClaimDue(p)
      PROVE  Balanced(i)'
  BY <1>0, <1>2, ClaimQuietly, Kept DEF ClaimDue
<1>3. ASSUME NEW p \in Publishers, NEW j \in Items, Publish(p, j)
      PROVE  Balanced(i)'
  <2>1. /\ StartItem(p, j, "recordSuccess") /\ "recordSuccess" \in Sending
        /\ sends'[i] = IF i = j THEN sends[i] + 1 ELSE sends[i]
        /\ faults' = faults
    BY <1>0, <1>3 DEF Publish, Sending
  <2>2. CASE i # j
    BY <1>0, <2>1, <2>2, StartQuietly, Kept
  <2>3. CASE i = j /\ Current(p, j)
    <3>1. ~Delivered(i) /\ Delivered(i)'
      BY <2>1, <2>3, StartQuietly
    <3> QED  BY <1>0, <2>1, <2>3, <3>1, StartQuietly, Copied
  <2>4. CASE i = j /\ ~Current(p, j)
    <3>1. p \in Stragglers(i) /\ p \notin Stragglers(i)'
      BY <2>1, <2>4, StartQuietly
    <3> QED  BY <1>0, <2>1, <2>4, <3>1, StartQuietly, Copied
  <2> QED  BY <2>2, <2>3, <2>4
<1>4. ASSUME NEW p \in Publishers, NEW j \in Items, PublishRejected(p, j)
      PROVE  Balanced(i)'
  <2>1. /\ StartItem(p, j, "recordFailure") /\ "recordFailure" \in Sending
        /\ sends'[i] = sends[i] /\ faults' = faults
    BY <1>4 DEF PublishRejected, Sending
  <2> QED  BY <1>0, <2>1, StartQuietly, Kept
<1>5. ASSUME NEW p \in Publishers, NEW j \in Items, PublishUnacknowledged(p, j)
      PROVE  Balanced(i)'
  <2>1. /\ StartItem(p, j, "recordFailure") /\ "recordFailure" \in Sending
        /\ sends'[i] = IF i = j THEN sends[i] + 1 ELSE sends[i]
        /\ faults' = faults + 1
    BY <1>0, <1>5 DEF PublishUnacknowledged, Fault, Sending
  <2>2. CASE i = j
    BY <1>0, <2>1, <2>2, StartQuietly, Copied
  <2>3. CASE i # j
    BY <1>0, <2>1, <2>3, StartQuietly, Kept
  <2> QED  BY <2>2, <2>3
<1>6. ASSUME NEW p \in Publishers, RecordSuccess(p)
      PROVE  Balanced(i)'
  <2>1. /\ call[p].step = "recordSuccess"
        /\ call'[p] = [call[p] EXCEPT !.step = "markPublished"]
        /\ \A q \in Publishers \ {p} : call'[q] = call[q]
        /\ row' = row /\ sends' = sends /\ faults' = faults
    BY <1>0, <1>6 DEF RecordSuccess, Working, GoTo, TypeOK
  <2>2. /\ call'[p].step = "markPublished" /\ call'[p].item = call[p].item
        /\ call'[p].todo = call[p].todo /\ call'[p].claim = call[p].claim
    BY <1>0, <2>1 DEF TypeOK, Call
  <2>3. \A q \in Publishers : Current(q, i)' <=> Current(q, i)
    BY <2>1, <2>2 DEF Current, Owns
  <2>4. Stragglers(i)' \subseteq Stragglers(i)
    BY <2>1, <2>2, <2>3 DEF Stragglers
  <2>5. Delivered(i) => Delivered(i)'
    BY <2>1, <2>2, <2>3 DEF Delivered
  <2> QED  BY <1>0, <2>1, <2>4, <2>5, Kept
<1>7. ASSUME NEW p \in Publishers, RecordSuccessThrows(p)
      PROVE  Balanced(i)'
  <2>1. Advances(p) /\ row' = row /\ sends' = sends /\ faults' = faults + 1
    BY <1>7, GoToAdvances DEF RecordSuccessThrows, Working, Sending, Fault
  <2> QED  BY <1>0, <2>1, AdvancesQuietly, Kept
<1>8. ASSUME NEW p \in Publishers, RecordFailure(p)
      PROVE  Balanced(i)'
  <2>1. /\ Advances(p) /\ row' = row /\ sends' = sends /\ faults' = faults
        /\ call[p].step = "recordFailure"
    BY <1>8, GoToAdvances DEF RecordFailure, Working, Sending
  <2> QED  BY <1>0, <2>1, AdvancesQuietly, Kept
<1>9. ASSUME NEW p \in Publishers, MarkClaimPublished(p)
      PROVE  Balanced(i)'
  <2> DEFINE j == call[p].item
  <2>1. /\ call[p].step = "markPublished" /\ call[p].step \in Sending
        /\ sends' = sends /\ faults' = faults
    BY <1>9 DEF MarkClaimPublished, Working, Sending
  <2>2. CASE ~Owns(p, j)
    <3>1. row' = row /\ Advances(p)
      BY <1>9, <2>1, <2>2, GoToAdvances DEF MarkClaimPublished
    <3>2. ~(call[p].item = i /\ Current(p, i))
      BY <2>2 DEF Current
    <3> QED  BY <1>0, <2>1, <3>1, <3>2, AdvancesQuietly, Kept
  <2>3. CASE Owns(p, j)
    <3>1. row' = Published(j) /\ Advances(p)
      BY <1>9, <2>3, NextItemAdvances DEF MarkClaimPublished
    <3>2. Settles(p) /\ row'[j].status = "published"
      <4>1. j \in Items
        BY <2>1, ItemInHand
      <4> QED  BY <1>0, <2>1, <2>3, <3>1, <4>1, PublishedSettles
                  DEF Published, Settled, TypeOK
    <3> QED  BY <1>0, <2>1, <2>3, <3>1, <3>2, SettlesQuietly, Kept
  <2> QED  BY <2>2, <2>3
<1>10. ASSUME NEW p \in Publishers, MarkPublishedThrows(p)
       PROVE  Balanced(i)'
  <2> DEFINE j == call[p].item
  <2>1. /\ call[p].step = "markPublished" /\ call[p].step \in Sending
        /\ sends' = sends /\ faults' = faults + 1
    BY <1>10 DEF MarkPublishedThrows, Working, Sending, Fault
  <2>2. Advances(p)
    BY <1>10, <2>1, GoToAdvances DEF MarkPublishedThrows
  <2>3. CASE row' = row
    BY <1>0, <2>1, <2>2, <2>3, AdvancesQuietly, Kept
  <2>4. CASE Owns(p, j) /\ row' = Published(j)
    <3>1. Settles(p) /\ row'[j].status = "published"
      <4>1. j \in Items
        BY <2>1, ItemInHand
      <4> QED  BY <1>0, <2>1, <2>4, <4>1, PublishedSettles
                  DEF Published, Settled, TypeOK
    <3> QED  BY <1>0, <2>1, <2>2, <2>4, <3>1, SettlesQuietly, Kept
  <2> QED  BY <1>10, <2>3, <2>4 DEF MarkPublishedThrows
<1>11. ASSUME NEW p \in Publishers, MarkClaimFailedOrDead(p)
       PROVE  Balanced(i)'
  <2> DEFINE j == call[p].item
  <2>1. /\ call[p].step = "markFailure" /\ call[p].step \in Sending
        /\ sends' = sends /\ faults' = faults
    BY <1>11 DEF MarkClaimFailedOrDead, Working, Sending
  <2>2. NextItem(p) /\ Advances(p)
    BY <1>11, NextItemAdvances DEF MarkClaimFailedOrDead
  <2>3. CASE ~Owns(p, j)
    <3>1. row' = row
      BY <1>11, <2>3 DEF MarkClaimFailedOrDead
    <3> QED  BY <1>0, <2>1, <2>2, <3>1, AdvancesQuietly, Kept
  <2>4. CASE Owns(p, j)
    <3>1. Settles(p)
      BY <1>11, <2>1, <2>2, <2>4, FailedSettles DEF MarkClaimFailedOrDead
    <3> QED  BY <1>0, <2>1, <2>2, <2>4, <3>1, SettlesQuietly, Kept
  <2> QED  BY <2>3, <2>4
<1>12. ASSUME NEW p \in Publishers, Abort(p)
       PROVE  Balanced(i)'
  <2>1. Advances(p) /\ row' = row /\ sends' = sends /\ faults' = faults + 1
    BY <1>12, AbortAdvances DEF Abort, Fault
  <2> QED  BY <1>0, <2>1, AdvancesQuietly, Kept
<1>13. CASE Tick
  BY <1>13, TickAccount
<1>14. CASE UNCHANGED vars
  BY <1>14 DEF vars, Balanced, Stragglers, Delivered, Current, Owns
<1> QED
  BY <1>1, <1>2, <1>3, <1>4, <1>5, <1>6, <1>7, <1>8, <1>9, <1>10, <1>11,
     <1>12, <1>13, <1>14 DEF Next, Work, Disturb

(* At-least-once, and no worse than the environment makes it: each crash,  *)
(* thrown statement or overrun lease costs at most one more copy of an     *)
(* item, however many publishers race for it and whatever they hold.       *)
THEOREM CopiesNeedFaults == Spec => []ResendsNeedFaults
<1>1. Init => Accounted
  <2> SUFFICES ASSUME Init, NEW i \in Items
               PROVE  Balanced(i)
    BY DEF Accounted
  <2>1. Stragglers(i) = {} /\ sends[i] = 0 /\ faults = 0
    BY DEF Init, Stragglers, IdleCall
  <2> QED  BY <2>1, FS_EmptySet DEF Balanced
<1>2. IndInv /\ Accounted /\ [Next]_vars => Accounted'
  BY AccountStep DEF Accounted
<1>3. IndInv /\ Accounted => ResendsNeedFaults
  <2> SUFFICES ASSUME IndInv, Accounted, NEW i \in Items
               PROVE  sends[i] <= 1 + faults
    BY DEF ResendsNeedFaults
  <2>1. sends[i] \in Nat /\ faults \in Nat
    BY DEF IndInv, TypeOK
  <2>2. Balanced(i) /\ Cardinality(Stragglers(i)) \in Nat
    BY FS_CardinalityType DEF Accounted, Balanced
  <2>3. sends[i] + Cardinality(Stragglers(i)) <= faults + 1
    BY <2>1, <2>2 DEF Balanced
  <2> QED  BY <2>1, <2>2, <2>3
<1> QED  BY <1>1, <1>2, <1>3, Invariance, PTL DEF Spec

-----------------------------------------------------------------------------
(* Counted attempts and attempt rows.                                      *)

(* Rows of the claims of an item that are over.                            *)
Past(i) ==
  {a \in audit[i] : row[i].status = "publishing" => a.gen < row[i].gen}

(* A call about to charge an attempt has recorded one for its claim.       *)
RecordedFirst ==
  \A p \in Publishers : call[p].step = "markFailure" =>
    LET i == call[p].item IN
    \E a \in audit[i] : a.gen = call[p].claim[i].gen

Charged ==
  \A i \in Items :
    IsFiniteSet(audit[i]) /\ row[i].attempts <= Cardinality(Past(i))

ChargeInv == RecordedFirst /\ Charged

(* A step that charges no attempt and only adds attempt rows keeps the     *)
(* count, if no row that was past comes back into the claim at hand.       *)
LEMMA Uncharged ==
  ASSUME IndInv, NEW i \in Items, IsFiniteSet(audit[i]),
         row[i].attempts <= Cardinality(Past(i)),
         row'[i].attempts = row[i].attempts,
         IsFiniteSet(audit'[i]), Past(i) \subseteq Past(i)'
  PROVE  row'[i].attempts <= Cardinality(Past(i)')
<1>1. IsFiniteSet(Past(i)')
  BY Fewer DEF Past
<1>2. row[i].attempts \in Nat
  BY DEF IndInv, TypeOK, Row
<1> DEFINE S == Past(i)
           T == Past(i)'
<1> HIDE DEF S, T
<1>3. Cardinality(S) \in Nat /\ Cardinality(T) \in Nat
      /\ Cardinality(S) <= Cardinality(T)
  BY <1>1, Fewer DEF S, T
<1> QED  BY <1>2, <1>3 DEF S, T

(* A row whose status, generation and count are kept, and whose attempts   *)
(* grow by a row of a running claim at most.                               *)
LEMMA ChargeKept ==
  ASSUME IndInv, NEW i \in Items, IsFiniteSet(audit[i]),
         row[i].attempts <= Cardinality(Past(i)),
         row'[i].attempts = row[i].attempts,
         row'[i].gen \in Nat, row'[i].gen >= row[i].gen,
         row'[i].status = "publishing" =>
           \/ row[i].status = "publishing"
           \/ row'[i].gen = row[i].gen + 1,
         NEW a, audit[i] \subseteq audit'[i], audit'[i] \subseteq audit[i] \cup {a}
  PROVE  /\ IsFiniteSet(audit'[i])
         /\ row'[i].attempts <= Cardinality(Past(i)')
<1>1. IsFiniteSet(audit'[i])
  BY OneMore
<1>2. row[i].gen \in Nat /\ \A b \in audit[i] : b.gen \in Nat /\ b.gen <= row[i].gen
  BY DEF IndInv, TypeOK, Row, Attempt, AttemptRows
<1>3. ASSUME NEW b \in Past(i)
      PROVE  b \in Past(i)'
  <2>1. b \in audit[i] /\ b \in audit'[i] /\ b.gen \in Nat /\ b.gen <= row[i].gen
    BY <1>2 DEF Past
  <2>2. row[i].status = "publishing" => b.gen < row[i].gen
    BY DEF Past
  <2>3. row'[i].status = "publishing" => b.gen < row'[i].gen
    <3>1. CASE row[i].status = "publishing"
      BY <1>2, <2>1, <2>2, <3>1
    <3>2. CASE row[i].status # "publishing"
      BY <1>2, <2>1, <3>2
    <3> QED  BY <3>1, <3>2
  <2> QED  BY <2>1, <2>3 DEF Past
<1>4. Past(i) \subseteq Past(i)'
  BY <1>3
<1> QED  BY <1>1, <1>4, Uncharged

(* What the steps do to the attempt table and to the counts. *)
LEMMA ChargeStep ==
  ASSUME IndInv, [Next]_vars, NEW i \in Items, RecordedFirst,
         IsFiniteSet(audit[i]), row[i].attempts <= Cardinality(Past(i))
  PROVE  /\ IsFiniteSet(audit'[i])
         /\ row'[i].attempts <= Cardinality(Past(i)')
<1>0. TypeOK /\ TypeOK' /\ row[i].gen \in Nat /\ row'[i].gen \in Nat
      /\ row[i].attempts \in Nat
  BY TypeStep DEF IndInv, TypeOK, Row
<1>quiet. ASSUME audit' = audit, row'[i].attempts = row[i].attempts,
                 row'[i].gen >= row[i].gen,
                 row'[i].status = "publishing" =>
                   \/ row[i].status = "publishing"
                   \/ row'[i].gen = row[i].gen + 1
          PROVE  /\ IsFiniteSet(audit'[i])
                 /\ row'[i].attempts <= Cardinality(Past(i)')
  BY <1>0, <1>quiet, ChargeKept
<1>same. ASSUME audit' = audit, row' = row
         PROVE  /\ IsFiniteSet(audit'[i])
                /\ row'[i].attempts <= Cardinality(Past(i)')
  BY <1>0, <1>same, <1>quiet
<1>1. ASSUME NEW j \in Items, Stage(j)
      PROVE  /\ IsFiniteSet(audit'[i])
             /\ row'[i].attempts <= Cardinality(Past(i)')
  <2>1. /\ row'[i].attempts = row[i].attempts /\ row'[i].gen = row[i].gen
        /\ row'[i].status = "publishing" => row[i].status = "publishing"
        /\ audit' = audit
    BY <1>0, <1>1 DEF Stage, TypeOK, Row
  <2> QED  BY <1>0, <1>quiet, <2>1
<1>2. ASSUME NEW p \in Publishers, ClaimDue(p)
      PROVE  /\ IsFiniteSet(audit'[i])
             /\ row'[i].attempts <= Cardinality(Past(i)')
  <2>1. audit' = audit /\ (row'[i] = row[i] \/ row'[i] = Claimed(row[i], p))
    BY <1>2 DEF ClaimDue
  <2>2. CASE row'[i] = row[i]
    BY <1>0, <1>quiet, <2>1, <2>2
  <2>3. CASE row'[i] = Claimed(row[i], p)
    <3>1. row'[i].attempts = row[i].attempts /\ row'[i].gen = row[i].gen + 1
      BY <2>3 DEF Claimed
    <3> QED  BY <1>0, <1>quiet, <2>1, <3>1
  <2> QED  BY <2>1, <2>2, <2>3
<1>3. ASSUME NEW p \in Publishers, NEW success \in BOOLEAN,
             audit' = WithAttempt(p, success), row' = row,
             call[p].step \in Sending
      PROVE  /\ IsFiniteSet(audit'[i])
             /\ row'[i].attempts <= Cardinality(Past(i)')
  <2>1. PICK a : audit[i] \subseteq audit'[i] /\ audit'[i] \subseteq audit[i] \cup {a}
    <3>1. \/ audit'[i] = audit[i]
          \/ audit'[i] = audit[i] \cup
               {[gen |-> call[p].claim[call[p].item].gen, success |-> success]}
      BY <1>0, <1>3 DEF WithAttempt, TypeOK
    <3> QED  BY <3>1
  <2> QED  BY <1>0, <1>3, <2>1, ChargeKept
<1>4. ASSUME NEW p \in Publishers, MarkClaimPublished(p) \/ MarkPublishedThrows(p)
      PROVE  /\ IsFiniteSet(audit'[i])
             /\ row'[i].attempts <= Cardinality(Past(i)')
  <2>1. audit' = audit /\ (row' = row \/ row' = Published(call[p].item))
    BY <1>4 DEF MarkClaimPublished, MarkPublishedThrows
  <2>2. /\ row'[i].attempts = row[i].attempts /\ row'[i].gen = row[i].gen
        /\ row'[i].status = "publishing" => row[i].status = "publishing"
    BY <1>0, <2>1 DEF Published, Settled, TypeOK
  <2> QED  BY <1>0, <1>quiet, <2>1, <2>2
<1>5. ASSUME NEW p \in Publishers, MarkClaimFailedOrDead(p)
      PROVE  /\ IsFiniteSet(audit'[i])
             /\ row'[i].attempts <= Cardinality(Past(i)')
  <2> DEFINE j == call[p].item
  <2>1. /\ call[p].step = "markFailure" /\ audit' = audit
        /\ row' = IF Owns(p, j) THEN [row EXCEPT ![j] = FailedRow(p, j)] ELSE row
    BY <1>5 DEF MarkClaimFailedOrDead, Working
  <2>2. j \in Items /\ j \in call[p].todo
    BY <2>1, ItemInHand DEF Sending
  <2>3. CASE ~Owns(p, j) \/ i # j
    <3>1. row'[i] = row[i]
      BY <1>0, <2>1, <2>3 DEF TypeOK
    <3> QED  BY <1>0, <1>quiet, <2>1, <3>1
  <2>4. CASE Owns(p, j) /\ i = j
    <3>1. row'[i] = FailedRow(p, i)
      BY <1>0, <2>1, <2>4 DEF TypeOK
    <3>2. row'[i].status \in {"failed", "dead"}
          /\ row'[i].attempts = row[i].attempts + 1
      BY <3>1 DEF FailedRow, Settled
    <3>3. PICK a \in audit[i] : a.gen = call[p].claim[i].gen
      BY <2>1, <2>4 DEF RecordedFirst
    <3>4. row[i].status = "publishing" /\ a.gen = row[i].gen
      BY <2>2, <2>4, <3>3, CurrentClaim DEF Owns
    <3>5. Past(i) \subseteq audit[i] \ {a}
      BY <1>0, <3>4 DEF Past
    <3>6. Past(i)' = audit[i]
      BY <2>1, <3>2 DEF Past
    <3>7. /\ Cardinality(Past(i)) \in Nat /\ Cardinality(audit[i]) \in Nat
          /\ Cardinality(Past(i)) + 1 <= Cardinality(audit[i])
      BY <3>5, OneLess
    <3>8. row[i].attempts + 1 <= Cardinality(audit[i])
      BY <1>0, <3>7
    <3> QED  BY <2>1, <3>2, <3>6, <3>8
  <2> QED  BY <2>3, <2>4
<1>6. CASE Tick
  <2>1. /\ row'[i] = [row[i] EXCEPT !.availableIn = Earlier(@),
                                  !.expiresIn = Earlier(@)]
        /\ row[i] \in Row /\ audit' = audit
    BY <1>0, <1>6 DEF Tick, TypeOK
  <2>2. /\ row'[i].attempts = row[i].attempts /\ row'[i].gen = row[i].gen
        /\ row'[i].status = row[i].status
    BY <2>1 DEF Row
  <2> QED  BY <1>0, <1>quiet, <2>1, <2>2
<1>7. ASSUME NEW p \in Publishers,
             RecordSuccess(p) \/ RecordSuccessThrows(p) \/ RecordFailure(p)
      PROVE  /\ IsFiniteSet(audit'[i])
             /\ row'[i].attempts <= Cardinality(Past(i)')
  <2>1. row' = row /\ call[p].step \in Sending
    BY <1>7 DEF RecordSuccess, RecordSuccessThrows, RecordFailure, Working, Sending
  <2>2. \/ audit' = audit
        \/ audit' = WithAttempt(p, TRUE)
        \/ audit' = WithAttempt(p, FALSE)
    BY <1>7 DEF RecordSuccess, RecordSuccessThrows, RecordFailure
  <2> QED  BY <1>3, <1>same, <2>1, <2>2
<1>8. CASE UNCHANGED vars
  BY <1>8, <1>same DEF vars
<1> QED
  BY <1>1, <1>2, <1>4, <1>5, <1>6, <1>7, <1>8, <1>same
     DEF Next, Work, Disturb, Publish, PublishRejected, PublishUnacknowledged,
         StartItem, Abort

(* A call reaches the update that charges an attempt by way of the attempt *)
(* row only.                                                               *)
LEMMA RecordedFirstStep ==
  ASSUME IndInv, [Next]_vars, RecordedFirst
  PROVE  RecordedFirst'
<1> SUFFICES ASSUME NEW p \in Publishers, call'[p].step = "markFailure"
             PROVE  \E a \in audit'[call'[p].item] :
                      a.gen = call'[p].claim[call'[p].item].gen
  BY DEF RecordedFirst
<1>0. TypeOK
  BY DEF IndInv
<1>1. \A j \in Items : audit[j] \subseteq audit'[j]
  <2>1. \/ audit' = audit
        \/ \E q \in Publishers, success \in BOOLEAN :
             audit' = WithAttempt(q, success)
    BY DEF Next, Work, Disturb, Stage, ClaimDue, Publish, PublishRejected,
       PublishUnacknowledged, StartItem, RecordSuccess, RecordSuccessThrows,
       RecordFailure, MarkClaimPublished, MarkPublishedThrows,
       MarkClaimFailedOrDead, Abort, Tick, vars
  <2> QED  BY <1>0, <2>1 DEF WithAttempt, TypeOK
<1>2. CASE /\ call'[p].step = call[p].step
           /\ call'[p].item = call[p].item /\ call'[p].claim = call[p].claim
  <2>1. call[p].item \in Items
    BY <1>2, ItemInHand DEF Sending
  <2> QED  BY <1>1, <1>2, <2>1 DEF RecordedFirst
<1>3. CASE RecordFailure(p)
  <2>1. call[p].item \in Items
    BY <1>3, ItemInHand DEF RecordFailure, Working, Sending
  <2>2. /\ audit' = WithAttempt(p, FALSE)
        /\ call'[p] = [call[p] EXCEPT !.step = "markFailure"]
    BY <1>0, <1>3 DEF RecordFailure, GoTo, TypeOK
  <2>3. call'[p].item = call[p].item /\ call'[p].claim = call[p].claim
    BY <1>0, <2>2 DEF TypeOK, Call
  <2>4. \E a \in WithAttempt(p, FALSE)[call[p].item] :
          a.gen = call[p].claim[call[p].item].gen
    <3> DEFINE i == call[p].item
               gen == call[p].claim[i].gen
               new == [gen |-> gen, success |-> FALSE]
    <3>1. CASE \E a \in audit[i] : a.gen = gen
      BY <3>1 DEF WithAttempt
    <3>2. CASE ~ \E a \in audit[i] : a.gen = gen
      <4>1. WithAttempt(p, FALSE)[i] = audit[i] \cup {new}
        BY <1>0, <2>1, <3>2 DEF WithAttempt, TypeOK
      <4>2. new \in WithAttempt(p, FALSE)[i] /\ new.gen = gen
        BY <4>1
      <4> QED  BY <4>2
    <3> QED  BY <3>1, <3>2
  <2> QED  BY <2>2, <2>3, <2>4
<1>4. ASSUME NEW q \in Publishers, NEW step \in Steps \ {"markFailure"}, GoTo(q, step)
      PROVE  call'[p] = call[p]
  BY <1>0, <1>4 DEF GoTo, TypeOK, Call
<1>5. ASSUME NEW q \in Publishers, NextItem(q)
      PROVE  call'[p] = call[p]
  BY <1>0, <1>5 DEF NextItem, IdleCall, TypeOK
<1>6. ASSUME NEW q \in Publishers, NEW j \in Items,
             StartItem(q, j, "recordSuccess") \/ StartItem(q, j, "recordFailure")
      PROVE  call'[p] = call[p]
  <2>1. /\ q # p => call'[p] = call[p]
        /\ \/ call'[q] = [call[q] EXCEPT !.item = j, !.step = "recordSuccess"]
           \/ call'[q] = [call[q] EXCEPT !.item = j, !.step = "recordFailure"]
    BY <1>0, <1>6 DEF StartItem, TypeOK
  <2>2. call'[q].step # "markFailure"
    BY <1>0, <2>1 DEF TypeOK, Call
  <2> QED  BY <2>1, <2>2
<1>7. ASSUME NEW q \in Publishers, ClaimDue(q) \/ Abort(q)
      PROVE  call'[p] = call[p]
  BY <1>0, <1>7 DEF ClaimDue, Abort, IdleCall, TypeOK
<1>8. CASE Tick
  <2>1. /\ call'[p].step = call[p].step
        /\ call'[p].item = call[p].item /\ call'[p].claim = call[p].claim
    BY <1>0, <1>8 DEF Tick, TypeOK, Call
  <2> QED  BY <1>2, <2>1
<1>9. ASSUME NEW q \in Publishers, RecordFailure(q), q # p
      PROVE  call'[p] = call[p]
  BY <1>0, <1>9 DEF RecordFailure, GoTo, TypeOK
<1>10. ASSUME NEW q \in Publishers,
              \/ RecordSuccess(q) \/ RecordSuccessThrows(q)
              \/ MarkPublishedThrows(q)
       PROVE  call'[p] = call[p]
  BY <1>4, <1>10
     DEF RecordSuccess, RecordSuccessThrows, MarkPublishedThrows, Steps
<1>11. ASSUME NEW q \in Publishers,
              MarkClaimPublished(q) \/ MarkClaimFailedOrDead(q)
       PROVE  call'[p] = call[p]
  BY <1>4, <1>5, <1>11 DEF MarkClaimPublished, MarkClaimFailedOrDead, Steps
<1>12. ASSUME NEW q \in Publishers, NEW j \in Items,
              \/ Publish(q, j) \/ PublishRejected(q, j)
              \/ PublishUnacknowledged(q, j)
       PROVE  call'[p] = call[p]
  BY <1>6, <1>12 DEF Publish, PublishRejected, PublishUnacknowledged
<1>13. CASE call' = call
  BY <1>2, <1>13
<1> QED
  BY <1>2, <1>3, <1>7, <1>8, <1>9, <1>10, <1>11, <1>12, <1>13
     DEF Next, Work, Disturb, Stage, vars

(* The retry policy charges no attempt that the audit table misses, though *)
(* rows of one claim collide, calls overlap and statements throw.          *)
THEOREM ChargesAreAudited == Spec => []CountedAttemptsAudited
<1>1. Init => ChargeInv
  <2> SUFFICES ASSUME Init
               PROVE  ChargeInv
    OBVIOUS
  <2>1. RecordedFirst
    BY DEF Init, IdleCall, RecordedFirst
  <2>2. \A i \in Items : audit[i] = {} /\ Past(i) = {} /\ row[i].attempts = 0
    BY DEF Init, AbsentRow, Past
  <2>3. ASSUME NEW i \in Items
        PROVE  IsFiniteSet(audit[i]) /\ row[i].attempts <= Cardinality(Past(i))
    <3>1. Cardinality(Past(i)) = 0 /\ IsFiniteSet(audit[i])
      BY <2>2, FS_EmptySet
    <3> QED  BY <2>2, <3>1
  <2> QED  BY <2>1, <2>3 DEF ChargeInv, Charged
<1>2. IndInv /\ ChargeInv /\ [Next]_vars => ChargeInv'
  BY ChargeStep, RecordedFirstStep DEF ChargeInv, Charged
<1>3. IndInv /\ ChargeInv => CountedAttemptsAudited
  <2> SUFFICES ASSUME IndInv, ChargeInv, NEW i \in Items
               PROVE  row[i].attempts <= Cardinality(audit[i])
    BY DEF CountedAttemptsAudited
  <2>1. /\ IsFiniteSet(audit[i]) /\ row[i].attempts <= Cardinality(Past(i))
        /\ row[i].attempts \in Nat
    BY DEF ChargeInv, Charged, IndInv, TypeOK, Row
  <2>2. /\ Cardinality(Past(i)) \in Nat /\ Cardinality(audit[i]) \in Nat
        /\ Cardinality(Past(i)) <= Cardinality(audit[i])
    BY <2>1, Fewer DEF Past
  <2> QED  BY <2>1, <2>2
<1> QED  BY <1>1, <1>2, <1>3, Invariance, PTL DEF Spec
=============================================================================
