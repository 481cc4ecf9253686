------------------------- MODULE RequestGuardProofs -------------------------
(* Proofs about RequestGuard, for any requests, limits and numbers of        *)
(* workers, faults included.                                                 *)
EXTENDS RequestGuard, FiniteSetTheorems, TLAPS

Steps == {"insert", "restart", "replay", "limit", "count", "run",
          "complete", "respond", "audit", "fail"}
WorkerType == {Idle} \cup [pc : Steps, req : Requests]

(* What TypeOK says of one worker. *)
LEMMA WorkerFacts ==
  ASSUME TypeOK, NEW w \in Workers
  PROVE  /\ worker \in [Workers -> WorkerType]
         /\ worker[w] # Idle =>
              /\ worker[w].pc \in Steps
              /\ worker[w].req \in Requests
              /\ worker[w].req.body \in Bodies
              /\ Key(w) \in Keys \cup {None}
         /\ worker[w].pc # "idle" => worker[w] # Idle
         /\ worker[w].pc \in {"insert", "restart", "replay", "complete",
                              "respond"} => Key(w) \in Keys
<1>1. worker \in [Workers -> WorkerType]
  BY DEF TypeOK, WorkerType, Steps
<1>2. worker[w] \in WorkerType
  BY <1>1
<1>3. worker[w] # Idle =>
        /\ worker[w].pc \in Steps
        /\ worker[w].req \in Requests
        /\ worker[w].req.body \in Bodies
        /\ Key(w) \in Keys \cup {None}
  BY <1>2 DEF WorkerType, Requests, Key
<1>4. worker[w].pc # "idle" => worker[w] # Idle
  BY DEF Idle
<1>5. worker[w].pc \in {"insert", "restart", "replay", "complete", "respond"}
        => Key(w) # None
  BY DEF TypeOK
<1> QED
  BY <1>1, <1>3, <1>4, <1>5

(* A worker that goes on to the next step, or ends, keeps its type. *)
LEMMA WorkerMoves ==
  ASSUME TypeOK, NEW w \in Workers, worker[w] # Idle
  PROVE  /\ \A pc \in Steps : GoesTo(w, pc) => worker' \in [Workers -> WorkerType]
         /\ Ends(w) => worker' \in [Workers -> WorkerType]
<1>1. worker \in [Workers -> WorkerType] /\ worker[w] \in [pc : Steps, req : Requests]
  BY DEF TypeOK, WorkerType, Steps
<1>2. ASSUME NEW pc \in Steps PROVE [worker[w] EXCEPT !.pc = pc] \in WorkerType
  BY <1>1 DEF WorkerType
<1>3. \A pc \in Steps : GoesTo(w, pc) =>
         worker' = [worker EXCEPT ![w] = [worker[w] EXCEPT !.pc = pc]]
  BY DEF GoesTo
<1> QED
  BY <1>1, <1>2, <1>3 DEF Ends, WorkerType

(* The steps of the other workers, and the request of this one, stay. *)
LEMMA OthersStay ==
  ASSUME TypeOK, NEW w \in Workers, worker[w] # Idle
  PROVE  /\ \A pc \in Steps : GoesTo(w, pc) =>
              /\ worker'[w].pc = pc /\ worker'[w].req = worker[w].req
              /\ \A v \in Workers \ {w} : worker'[v] = worker[v]
         /\ Ends(w) =>
              /\ worker'[w] = Idle
              /\ \A v \in Workers \ {w} : worker'[v] = worker[v]
<1>1. worker \in [Workers -> WorkerType] /\ worker[w] \in [pc : Steps, req : Requests]
  BY DEF TypeOK, WorkerType, Steps
<1> QED
  BY <1>1 DEF GoesTo, Ends

-----------------------------------------------------------------------------
(* Types *)

LEMMA TypeInit == GuardInit => TypeOK
BY DEF GuardInit, TypeOK, Idle, At, Key

(* What is left of TypeOK when only the workers move, and not to a step that *)
(* asks for a key. *)
LEMMA TypeOfRest ==
  ASSUME TypeOK, NEW w \in Workers, worker' \in [Workers -> WorkerType],
         \A v \in Workers \ {w} : worker'[v] = worker[v],
         worker'[w].pc \in {"insert", "restart", "replay", "complete", "respond"}
           => worker'[w].req.key # None
  PROVE  \A v \in Workers :
           worker'[v].pc \in {"insert", "restart", "replay", "complete", "respond"}
             => Key(v)' # None
<1> TAKE v \in Workers
<1>1. CASE v = w
  BY <1>1 DEF Key
<1>2. CASE v # w
  BY <1>2 DEF Key, TypeOK
<1> QED
  BY <1>1, <1>2

(* Where a request begins. *)
LEMMA BeginFacts ==
  ASSUME TypeOK, NEW w \in Workers, NEW r \in bound.requests, Begin(w, r)
  PROVE  /\ r \in Requests
         /\ IF r.key = None THEN FirstStep(r) = "limit"
            ELSE r.key \in Keys /\ FirstStep(r) \in {"insert", "restart", "replay"}
         /\ worker[w] = Idle
         /\ worker \in [Workers -> WorkerType]
         /\ worker' \in [Workers -> WorkerType]
         /\ worker'[w].pc = FirstStep(r) /\ worker'[w].req = r
         /\ \A v \in Workers \ {w} : worker'[v] = worker[v]
<1>1. r \in Requests
  BY BoundsAssumption DEF TypeOK
<1>2. IF r.key = None THEN FirstStep(r) = "limit"
      ELSE r.key \in Keys /\ FirstStep(r) \in {"insert", "restart", "replay"}
  <2>1. CASE r.key = None
    BY <2>1 DEF FirstStep
  <2>2. CASE r.key # None
    <3>1. r.key \in Keys
      BY <1>1, <2>2 DEF Requests
    <3>2. record[r.key].status \in {"none", "failed", "completed"}
      BY <2>2, <3>1 DEF Begin, Blocked, TypeOK
    <3> QED
      BY <2>2, <3>1, <3>2 DEF FirstStep
  <2> QED
    BY <2>1, <2>2
<1>3. worker \in [Workers -> WorkerType]
  BY WorkerFacts
<1>4. [pc |-> FirstStep(r), req |-> r] \in WorkerType
  BY <1>1, <1>2 DEF WorkerType, Steps
<1> QED
  BY <1>1, <1>2, <1>3, <1>4 DEF Begin

LEMMA TypeBegin ==
  ASSUME TypeOK, NEW w \in Workers, NEW r \in bound.requests, Begin(w, r)
  PROVE  TypeOK'
<1>1. worker' \in [Workers -> WorkerType]
      /\ \A v \in Workers \ {w} : worker'[v] = worker[v]
  BY BeginFacts
<1>2. worker'[w].pc \in {"insert", "restart", "replay", "complete", "respond"}
        => worker'[w].req.key # None
  <2>1. worker'[w].pc = FirstStep(r) /\ worker'[w].req = r
        /\ (FirstStep(r) # "limit" => r.key # None)
    BY BeginFacts
  <2> QED
    BY <2>1
<1>3. \A v \in Workers :
        worker'[v].pc \in {"insert", "restart", "replay", "complete", "respond"}
          => Key(v)' # None
  BY <1>1, <1>2, TypeOfRest
<1> QED
  BY <1>1, <1>3 DEF TypeOK, Begin, WorkerType, Steps

(* The steps of a request after it began. *)
LEMMA TypeMove ==
  ASSUME TypeOK, NEW w \in Workers,
         \/ Insert(w) \/ Restart(w) \/ Replay(w) \/ Limit(w) \/ Count(w)
         \/ Complete(w) \/ Respond(w) \/ Audit(w) \/ Fail(w)
         \/ Commits(w) \/ Rejects(w) \/ Throws(w) \/ Crash(w)
  PROVE  /\ worker[w] # Idle
         /\ worker' \in [Workers -> WorkerType]
         /\ \A v \in Workers :
              worker'[v].pc \in {"insert", "restart", "replay", "complete", "respond"}
                => Key(v)' # None
<1>1. worker[w] # Idle
  BY DEF Insert, Restart, Replay, Limit, Count, Complete, Respond, Audit, Fail,
         Commits, Rejects, Throws, Crash, At, Idle
<1>2. Key(w) \in Keys \cup {None} /\ (At(w, "complete") => Key(w) # None)
  BY <1>1, WorkerFacts DEF At, TypeOK
<1>3. \/ Ends(w)
      \/ \E pc \in {"limit", "count", "run", "audit", "fail"} : GoesTo(w, pc)
      \/ GoesTo(w, "complete") /\ Key(w) # None
      \/ GoesTo(w, "respond") /\ Key(w) # None
  BY <1>2 DEF Insert, Restart, Replay, Limit, Count, Complete, Respond, Audit, Fail,
         Commits, Rejects, Throws, Crash
<1>4. CASE Ends(w)
  <2>1. worker' \in [Workers -> WorkerType] /\ worker'[w] = Idle
        /\ \A v \in Workers \ {w} : worker'[v] = worker[v]
    BY <1>1, <1>4, WorkerMoves, OthersStay
  <2> QED
    BY <1>1, <2>1, TypeOfRest DEF Idle
<1>5. CASE \E pc \in {"limit", "count", "run", "audit", "fail"} : GoesTo(w, pc)
  <2>1. PICK pc \in {"limit", "count", "run", "audit", "fail"} : GoesTo(w, pc)
    BY <1>5
  <2>2. pc \in Steps
    BY DEF Steps
  <2>3. worker' \in [Workers -> WorkerType] /\ worker'[w].pc = pc
        /\ \A v \in Workers \ {w} : worker'[v] = worker[v]
    BY <1>1, <2>1, <2>2, WorkerMoves, OthersStay
  <2> QED
    BY <1>1, <2>3, TypeOfRest
<1>6. ASSUME NEW pc \in {"complete", "respond"}, GoesTo(w, pc), Key(w) # None
      PROVE  /\ worker' \in [Workers -> WorkerType]
             /\ \A v \in Workers :
                  worker'[v].pc \in {"insert", "restart", "replay", "complete", "respond"}
                    => Key(v)' # None
  <2>1. pc \in Steps
    BY DEF Steps
  <2>2. worker' \in [Workers -> WorkerType] /\ worker'[w].req = worker[w].req
        /\ \A v \in Workers \ {w} : worker'[v] = worker[v]
    BY <1>1, <1>6, <2>1, WorkerMoves, OthersStay
  <2> QED
    BY <1>6, <2>2, TypeOfRest DEF Key
<1> QED
  BY <1>1, <1>3, <1>4, <1>5, <1>6

LEMMA TypeStep == TypeOK /\ [GuardNext]_guard => TypeOK'
<1> SUFFICES ASSUME TypeOK, [GuardNext]_guard PROVE TypeOK'
  OBVIOUS
<1>1. CASE UNCHANGED guard
  BY <1>1 DEF guard, TypeOK, At, Key
<1>2. ASSUME NEW w \in Workers, NEW r \in bound.requests, Begin(w, r)
      PROVE  TypeOK'
  BY <1>2, TypeBegin
<1>3. ASSUME NEW w \in Workers,
             \/ Around(w) \/ Commits(w) \/ Rejects(w) \/ Throws(w) \/ Crash(w)
      PROVE  TypeOK'
  <2>1. /\ worker[w] # Idle
        /\ worker' \in [Workers -> WorkerType]
        /\ \A v \in Workers :
             worker'[v].pc \in {"insert", "restart", "replay", "complete", "respond"}
               => Key(v)' # None
    BY <1>3, TypeMove DEF Around
  <2>2. worker[w].req \in Requests /\ worker[w].req.body \in Bodies
        /\ Key(w) \in Keys \cup {None}
        /\ (worker[w].pc \in {"insert", "restart", "replay", "complete", "respond"}
              => Key(w) \in Keys)
    BY <2>1, WorkerFacts
  <2>3. bound' = bound
    BY <1>3 DEF Around, Insert, Restart, Replay, Limit, Count, Complete, Respond,
                Audit, Fail, Commits, Rejects, Throws, Crash
  <2>4. /\ record' \in [Keys -> [status : {"none", "started", "completed", "failed"},
                               body : Bodies \cup {None}]]
        /\ \A k \in Keys : record'[k].status = "none" => record'[k].body = None
    <3>1. CASE record' = record
      BY <3>1 DEF TypeOK
    <3>2. CASE Insert(w)
      <4>1. Key(w) \in Keys
        BY <2>2, <3>2 DEF Insert, At
      <4>2. record' = record \/ record' = [record EXCEPT ![Key(w)] =
               [status |-> "started", body |-> worker[w].req.body]]
        BY <3>2 DEF Insert
      <4> QED
        BY <2>2, <3>1, <4>1, <4>2 DEF TypeOK
    <3>3. CASE Key(w) \in Keys /\ \E status \in {"started", "completed", "failed"} :
                 record' = [record EXCEPT ![Key(w)].status = status]
      BY <3>3 DEF TypeOK
    <3>4. \/ record' = record \/ Insert(w)
          \/ Key(w) \in Keys /\ \E status \in {"started", "completed", "failed"} :
                 record' = [record EXCEPT ![Key(w)].status = status]
      <4>1. CASE Restart(w)
        BY <2>2, <4>1 DEF Restart, At
      <4>2. CASE Complete(w)
        BY <2>2, <4>2 DEF Complete, At
      <4>3. CASE Fail(w)
        BY <2>2, <4>3 DEF Fail, StatusAfterFailure
      <4> QED
        BY <1>3, <4>1, <4>2, <4>3
        DEF Around, Replay, Limit, Count, Respond, Audit, Commits, Rejects,
            Throws, Crash
    <3> QED
      BY <3>1, <3>2, <3>3, <3>4
  <2>5. response' \in [Keys -> Requests \cup {None}]
    <3>1. CASE Respond(w)
      BY <2>2, <3>1 DEF Respond, Stored, At, TypeOK
    <3>2. CASE response' = response
      BY <3>2 DEF TypeOK
    <3> QED
      BY <1>3, <3>1, <3>2
      DEF Around, Insert, Restart, Replay, Limit, Count, Complete, Audit, Fail,
          Commits, Rejects, Throws, Crash
  <2>6. counter' \in Nat /\ faults' \in Nat
    <3>1. counter \in Nat /\ faults \in Nat
      BY DEF TypeOK
    <3>2. /\ counter' = counter \/ counter' = counter + 1
          /\ faults' = faults \/ faults' = faults + 1
      BY <1>3 DEF Around, Insert, Restart, Replay, Limit, Count, Complete,
                  Respond, Audit, Fail, Commits, Rejects, Throws, Crash, Fault
    <3> QED
      BY <3>1, <3>2
  <2>7. runs' \in [Keys -> Nat]
    <3>1. CASE Commits(w)
      BY <2>2, <3>1 DEF Commits, TypeOK
    <3>2. CASE runs' = runs
      BY <3>2 DEF TypeOK
    <3> QED
      BY <1>3, <3>1, <3>2
      DEF Around, Insert, Restart, Replay, Limit, Count, Complete, Respond, Audit,
          Fail, Rejects, Throws, Crash
  <2>8. conflicts' \in [Keys -> Nat]
    <3>1. CASE Insert(w)
      BY <2>2, <3>1 DEF Insert, At, TypeOK
    <3>2. CASE conflicts' = conflicts
      BY <3>2 DEF TypeOK
    <3> QED
      BY <1>3, <3>1, <3>2
      DEF Around, Restart, Replay, Limit, Count, Complete, Respond, Audit, Fail,
          Commits, Rejects, Throws, Crash
  <2>9. refused' \subseteq Keys
    <3>1. CASE Limit(w)
      BY <2>2, <3>1 DEF Limit, TypeOK
    <3>2. CASE refused' = refused
      BY <3>2 DEF TypeOK
    <3> QED
      BY <1>3, <3>1, <3>2
      DEF Around, Insert, Restart, Replay, Count, Complete, Respond, Audit, Fail,
          Commits, Rejects, Throws, Crash
  <2>10. replays' \subseteq Requests \X Requests
    <3>1. CASE Replay(w)
      <4>1. Key(w) \in Keys
        BY <2>2, <3>1 DEF Replay, At
      <4>2. response[Key(w)] \in Requests \cup {None}
        BY <4>1 DEF TypeOK
      <4> QED
        BY <2>2, <3>1, <4>2 DEF Replay, TypeOK
    <3>2. CASE replays' = replays
      BY <3>2 DEF TypeOK
    <3> QED
      BY <1>3, <3>1, <3>2
      DEF Around, Insert, Restart, Limit, Count, Complete, Respond, Audit, Fail,
          Commits, Rejects, Throws, Crash
  <2>11. bound' \in Bounds
    BY <2>3 DEF TypeOK
  <2> QED
    BY <2>1, <2>4, <2>5, <2>6, <2>7, <2>8, <2>9, <2>10, <2>11
    DEF TypeOK, WorkerType, Steps
<1> QED
  BY <1>1, <1>2, <1>3 DEF GuardNext

(* Every state of the guard has the shape of the code's rows and handlers. *)
THEOREM TypeCorrect == GuardSpec => []TypeOK
BY TypeInit, TypeStep, PTL DEF GuardSpec

-----------------------------------------------------------------------------
(* A started record has an owner *)

(* The worker's step, told from the actions: which end, which go where. *)
LEMMA StepsOfWorker ==
  ASSUME TypeOK, NEW w \in Workers,
         Around(w) \/ Commits(w) \/ Rejects(w) \/ Throws(w) \/ Crash(w)
  PROVE  /\ worker[w] # Idle
         /\ \A v \in Workers \ {w} : worker'[v] = worker[v]
         /\ worker'[w] = Idle \/ worker'[w].req = worker[w].req
         /\ bound' = bound
<1>1. worker[w] # Idle /\ bound' = bound
  BY DEF Around, Insert, Restart, Replay, Limit, Count, Complete, Respond, Audit,
         Fail, Commits, Rejects, Throws, Crash, At, Idle
<1>2. \/ Ends(w)
      \/ \E pc \in {"limit", "count", "run", "complete", "respond", "audit", "fail"} :
           GoesTo(w, pc)
  BY DEF Around, Insert, Restart, Replay, Limit, Count, Complete, Respond, Audit,
         Fail, Commits, Rejects, Throws, Crash
<1> QED
  BY <1>1, <1>2, OthersStay DEF Steps

Owns(w, k) == Holds(w, k) \/ (At(w, "complete") /\ Key(w) = k)

LEMMA OwnedStep ==
  TypeOK /\ StartedIsOwned /\ [GuardNext]_guard => StartedIsOwned'
<1> SUFFICES ASSUME TypeOK, StartedIsOwned, [GuardNext]_guard,
                    NEW k \in Keys, record'[k].status = "started"
             PROVE  \/ \E w \in Workers : Owns(w, k)'
                    \/ faults' > 0 \/ k \in refused'
  BY DEF StartedIsOwned, Owns
<1>1. CASE UNCHANGED guard
  BY <1>1 DEF guard, StartedIsOwned, Owns, Holds, At, Key
<1>2. ASSUME NEW w \in Workers, NEW r \in bound.requests, Begin(w, r)
      PROVE  \/ \E v \in Workers : Owns(v, k)' 
             \/ faults' > 0 \/ k \in refused'
  <2>1. record' = record /\ faults' = faults /\ refused' = refused
        /\ worker[w] = Idle /\ \A v \in Workers \ {w} : worker'[v] = worker[v]
    BY <1>2, WorkerFacts DEF Begin
  <2>2. ~Owns(w, k)
    BY <2>1 DEF Owns, Holds, At, Idle
  <2> QED
    BY <2>1, <2>2 DEF StartedIsOwned, Owns, Holds, At, Key
<1>3. ASSUME NEW w \in Workers,
             Around(w) \/ Commits(w) \/ Rejects(w) \/ Throws(w) \/ Crash(w)
      PROVE  \/ \E v \in Workers : Owns(v, k)'
             \/ faults' > 0 \/ k \in refused'
  <2>1. /\ worker[w] # Idle
        /\ \A v \in Workers \ {w} : worker'[v] = worker[v]
        /\ worker'[w] = Idle \/ worker'[w].req = worker[w].req
    BY <1>3, StepsOfWorker
  <2>2. \A v \in Workers \ {w} : Owns(v, k) => Owns(v, k)'
    BY <2>1 DEF Owns, Holds, At, Key
  <2>3. faults' >= faults /\ refused \subseteq refused' /\ faults \in Nat /\ faults' \in Nat
    BY <1>3 DEF TypeOK, Around, Insert, Restart, Replay, Limit, Count, Complete,
      Respond, Audit, Fail, Commits, Rejects, Throws, Crash, Fault
  <2>4. \/ Owns(w, k)' \/ faults' > 0 \/ k \in refused'
        \/ (record[k].status = "started" /\ ~Owns(w, k))
    <3>0. /\ \A pc \in Steps : GoesTo(w, pc) =>
               worker'[w].pc = pc /\ worker'[w].req = worker[w].req
          /\ record \in [Keys -> [status : {"none", "started", "completed", "failed"},
                                  body : Bodies \cup {None}]]
      BY <2>1, OthersStay DEF TypeOK
    <3>1. CASE Insert(w)
      <4>1. worker'[w].pc = "limit" /\ worker'[w].req = worker[w].req
        BY <3>0, <3>1 DEF Insert, Steps
      <4>2. CASE Key(w) = k
        BY <4>1, <4>2 DEF Owns, Holds, Key
      <4>3. CASE Key(w) # k
        <5>1. record'[k] = record[k]
          BY <3>0, <3>1, <4>3 DEF Insert
        <5> QED
          BY <4>3, <5>1 DEF Owns, Holds
      <4> QED
        BY <4>2, <4>3
    <3>2. CASE Restart(w)
      <4>1. CASE Key(w) = k /\ record[k].status = "failed"
        BY <3>0, <3>2, <4>1 DEF Restart, Restartable, Steps, Owns, Holds, Key
      <4>2. CASE ~(Key(w) = k /\ record[k].status = "failed")
        <5>1. record'[k] = record[k]
          BY <3>0, <3>2, <4>2 DEF Restart, Restartable
        <5> QED
          BY <3>2, <5>1 DEF Restart, At, Owns, Holds
      <4> QED
        BY <4>1, <4>2
    <3>3. CASE Limit(w)
      <4>1. record' = record /\ k # None
        BY <3>3, NoneAssumption DEF Limit
      <4>2. GoesTo(w, "count") \/ Key(w) # k \/ k \in refused'
        BY <3>3, <4>1 DEF Limit
      <4> QED
        BY <3>0, <3>3, <4>1, <4>2 DEF Limit, Steps, Owns, Holds, Key, At
    <3>4. CASE Count(w) \/ Commits(w) \/ Rejects(w)
      <4>1. record' = record /\ \E pc \in Steps : GoesTo(w, pc) /\ pc \in {"run", "fail", "complete", "audit"}
            /\ (pc = "audit" => Key(w) = None)
        BY <3>4 DEF Count, Commits, Rejects, Steps
      <4>2. Key(w) = None => Key(w) # k
        BY NoneAssumption
      <4> QED
        BY <3>0, <4>1, <4>2 DEF Owns, Holds, Key, At
    <3>5. CASE Complete(w) \/ Fail(w)
      <4>1. CASE Key(w) = k
        <5>1. record'[k].status # "started"
          BY <3>0, <3>5, <4>1, NoneAssumption DEF Complete, Fail, StatusAfterFailure
        <5> QED
          BY <5>1
      <4>2. CASE Key(w) # k
        <5>1. record'[k] = record[k]
          BY <3>0, <3>5, <4>2 DEF Complete, Fail
        <5> QED
          BY <4>2, <5>1 DEF Owns, Holds
      <4> QED
        BY <4>1, <4>2
    <3>6. CASE Throws(w) \/ Crash(w)
      BY <3>6 DEF TypeOK, Throws, Crash, Fault
    <3>7. CASE Replay(w) \/ Respond(w) \/ Audit(w)
      BY <3>7 DEF Replay, Respond, Audit, At, Owns, Holds
    <3> QED
      BY <1>3, <3>1, <3>2, <3>3, <3>4, <3>5, <3>6, <3>7 DEF Around
  <2> QED
    BY <2>2, <2>3, <2>4 DEF StartedIsOwned, Owns
<1> QED
  BY <1>1, <1>2, <1>3 DEF GuardNext

(* A record that answers 409 to every retry has a request that settles it,   *)
(* but for crashes and the rate limit. *)
THEOREM StartedAreOwned == GuardSpec => []StartedIsOwned
<1>1. GuardInit => StartedIsOwned
  BY DEF GuardInit, StartedIsOwned
<1> QED
  BY <1>1, OwnedStep, TypeCorrect, PTL DEF GuardSpec

-----------------------------------------------------------------------------
(* Every run has a reason                                                    *)
(*                                                                         *)
(* A request that may still run its mutation, or has failed and has not said *)
(* so yet, holds a token of its key; a failed record holds one for the       *)
(* request that restarts it.  Tokens come from the first insert, from an     *)
(* insert that found a row, and from faults; a run uses one up.              *)

WaitingIn(ws, k) ==
  {w \in Workers : ws[w].pc \in {"limit", "count", "run", "fail"} /\ ws[w].req.key = k}
Token(ws, w, k) == IF w \in WaitingIn(ws, k) THEN 1 ELSE 0

LEMMA Tokens ==
  ASSUME NEW ws, NEW vs, NEW w \in Workers, NEW k,
         \A v \in Workers \ {w} : vs[v] = ws[v]
  PROVE  /\ Cardinality(WaitingIn(ws, k)) \in Nat
         /\ Cardinality(WaitingIn(vs, k)) \in Nat
         /\ Cardinality(WaitingIn(vs, k)) + Token(ws, w, k)
              = Cardinality(WaitingIn(ws, k)) + Token(vs, w, k)
<1> DEFINE S == WaitingIn(ws, k)
           T == WaitingIn(vs, k)
           Rest == S \ {w}
<1>1. S \subseteq Workers /\ T \subseteq Workers
  BY DEF WaitingIn
<1>2. IsFiniteSet(S) /\ IsFiniteSet(T) /\ IsFiniteSet(Rest)
  BY <1>1, WorkersAssumption, FS_Subset
<1>3. Rest = T \ {w}
  BY DEF WaitingIn
<1>4. Cardinality(S) \in Nat /\ Cardinality(T) \in Nat
  BY <1>2, FS_CardinalityType
<1>5. Cardinality(Rest) = IF w \in S THEN Cardinality(S) - 1 ELSE Cardinality(S)
  BY <1>2, FS_RemoveElement
<1>6. Cardinality(T \ {w}) = IF w \in T THEN Cardinality(T) - 1 ELSE Cardinality(T)
  BY <1>2, FS_RemoveElement
<1>7. Cardinality(T) + (IF w \in S THEN 1 ELSE 0) = Cardinality(S) + (IF w \in T THEN 1 ELSE 0)
  <2> HIDE DEF S, T, Rest
  <2>1. Cardinality(Rest) = Cardinality(T \ {w})
    BY <1>3
  <2> QED
    BY <1>4, <1>5, <1>6, <2>1
<1> QED
  BY <1>4, <1>7 DEF Token

Failed(k) == IF record[k].status = "failed" THEN 1 ELSE 0
Inserted(k) == IF record[k].status = "none" THEN 0 ELSE 1

TokensCover ==
  \A k \in Keys :
    runs[k] + Cardinality(WaitingIn(worker, k)) + Failed(k)
      <= Inserted(k) + conflicts[k] + faults

LEMMA TokensInit == GuardInit => TokensCover
<1> SUFFICES ASSUME GuardInit, NEW k \in Keys
             PROVE  runs[k] + Cardinality(WaitingIn(worker, k)) + Failed(k)
                      <= Inserted(k) + conflicts[k] + faults
  BY DEF TokensCover
<1>1. WaitingIn(worker, k) = {}
  BY DEF GuardInit, WaitingIn, Idle
<1>2. Cardinality(WaitingIn(worker, k)) = 0
  BY <1>1, FS_EmptySet
<1> QED
  BY <1>2 DEF GuardInit, Failed, Inserted

(* What a step does to the tokens of a key. *)
LEMMA TokensBalance ==
  ASSUME TypeOK, NEW w \in Workers, NEW k \in Keys,
         Around(w) \/ Commits(w) \/ Rejects(w) \/ Throws(w) \/ Crash(w)
  PROVE  runs'[k] + Token(worker', w, k) + Failed(k)' + Inserted(k) + conflicts[k] + faults
           <= runs[k] + Token(worker, w, k) + Failed(k)
                + Inserted(k)' + conflicts'[k] + faults'
<1>0. /\ record \in [Keys -> [status : {"none", "started", "completed", "failed"},
                            body : Bodies \cup {None}]]
      /\ runs \in [Keys -> Nat] /\ conflicts \in [Keys -> Nat]
      /\ faults \in Nat /\ k # None
      /\ worker[w] # Idle
      /\ runs[k] \in Nat /\ conflicts[k] \in Nat
  BY StepsOfWorker, NoneAssumption DEF TypeOK
<1>1. /\ \A pc \in Steps : GoesTo(w, pc) =>
           worker'[w].pc = pc /\ worker'[w].req = worker[w].req
      /\ Ends(w) => worker'[w] = Idle
  BY <1>0, OthersStay
<1>t. /\ Token(worker, w, k) =
           IF worker[w].pc \in {"limit", "count", "run", "fail"} /\ Key(w) = k THEN 1 ELSE 0
      /\ Ends(w) => Token(worker', w, k) = 0
      /\ \A pc \in Steps : GoesTo(w, pc) => Token(worker', w, k) =
           IF pc \in {"limit", "count", "run", "fail"} /\ Key(w) = k THEN 1 ELSE 0
  BY <1>1 DEF Token, WaitingIn, Key, Idle
<1>2. CASE Insert(w)
  <2>1. Token(worker, w, k) = 0 /\ runs' = runs /\ faults' = faults
        /\ Token(worker', w, k) = IF Key(w) = k THEN 1 ELSE 0
    BY <1>t, <1>2 DEF Insert, At, Steps
  <2>2. CASE Key(w) = k /\ record[k].status = "none"
    BY <1>0, <1>2, <2>1, <2>2 DEF Insert, Failed, Inserted
  <2>3. CASE Key(w) = k /\ record[k].status # "none"
    <3>1. record' = record /\ conflicts'[k] = conflicts[k] + 1
      BY <1>0, <1>2, <2>3 DEF Insert
    <3> QED
      BY <1>0, <2>1, <2>3, <3>1 DEF Failed, Inserted
  <2>4. CASE Key(w) # k
    <3>1. record'[k] = record[k] /\ conflicts'[k] = conflicts[k]
      BY <1>0, <1>2, <2>4 DEF Insert
    <3> QED
      BY <1>0, <2>1, <2>4, <3>1 DEF Failed, Inserted
  <2> QED
    BY <2>2, <2>3, <2>4
<1>3. CASE Restart(w)
  <2>1. Token(worker, w, k) = 0 /\ runs' = runs /\ faults' = faults /\ conflicts' = conflicts
    BY <1>t, <1>3 DEF Restart, At
  <2>2. CASE Key(w) = k /\ record[k].status = "failed"
    <3>1. record'[k].status = "started"
      BY <1>0, <1>3, <2>2 DEF Restart, Restartable
    <3>2. Token(worker', w, k) \in {0, 1}
      BY DEF Token
    <3> QED
      BY <1>0, <2>1, <2>2, <3>1, <3>2 DEF Failed, Inserted
  <2>3. CASE ~(Key(w) = k /\ record[k].status = "failed")
    <3>1. record'[k] = record[k] /\ Token(worker', w, k) = 0
      BY <1>0, <1>t, <1>3, <2>3 DEF Restart, Restartable, Steps
    <3> QED
      BY <1>0, <2>1, <3>1 DEF Failed, Inserted
  <2> QED
    BY <2>2, <2>3
<1>4. CASE Complete(w) \/ Fail(w)
  <2>1. runs' = runs /\ faults' = faults /\ conflicts' = conflicts
    BY <1>4 DEF Complete, Fail
  <2>2. Token(worker', w, k) = 0
        /\ (Fail(w) => Token(worker, w, k) = IF Key(w) = k THEN 1 ELSE 0)
        /\ Token(worker, w, k) \in {0, 1}
    BY <1>t, <1>4 DEF Complete, Fail, At, Steps
  <2>3. CASE Key(w) = k
    <3>1. record'[k].status = IF Complete(w) THEN "completed" ELSE "failed"
      BY <1>0, <1>4, <2>3 DEF Complete, Fail, StatusAfterFailure, At
    <3> QED
      BY <1>0, <1>4, <2>1, <2>2, <2>3, <3>1 DEF Failed, Inserted
  <2>4. CASE Key(w) # k
    <3>1. record'[k] = record[k]
      BY <1>0, <1>4, <2>4 DEF Complete, Fail
    <3> QED
      BY <1>0, <2>1, <2>2, <3>1 DEF Failed, Inserted
  <2> QED
    BY <2>3, <2>4
<1>5. CASE Commits(w)
  <2>1. record' = record /\ faults' = faults /\ conflicts' = conflicts
        /\ runs'[k] = IF Key(w) = k THEN runs[k] + 1 ELSE runs[k]
    BY <1>0, <1>5 DEF Commits
  <2>2. Token(worker, w, k) = (IF Key(w) = k THEN 1 ELSE 0) /\ Token(worker', w, k) = 0
    BY <1>t, <1>5 DEF Commits, At, Steps
  <2> QED
    BY <1>0, <2>1, <2>2 DEF Failed, Inserted
<1>6. CASE Limit(w) \/ Count(w) \/ Rejects(w)
  <2>1. record' = record /\ faults' = faults /\ conflicts' = conflicts /\ runs' = runs
    BY <1>6 DEF Limit, Count, Rejects
  <2>2. Token(worker', w, k) <= Token(worker, w, k)
        /\ Token(worker, w, k) \in {0, 1} /\ Token(worker', w, k) \in {0, 1}
    BY <1>t, <1>6 DEF Limit, Count, Rejects, At, Steps
  <2> QED
    BY <1>0, <2>1, <2>2 DEF Failed, Inserted
<1>7. CASE Replay(w) \/ Respond(w) \/ Audit(w)
  <2>1. record' = record /\ faults' = faults /\ conflicts' = conflicts /\ runs' = runs
    BY <1>7 DEF Replay, Respond, Audit
  <2>2. Token(worker', w, k) = 0 /\ Token(worker, w, k) = 0
    BY <1>t, <1>7 DEF Replay, Respond, Audit, At, Steps
  <2> QED
    BY <1>0, <2>1, <2>2 DEF Failed, Inserted
<1>8. CASE Throws(w) \/ Crash(w)
  <2>1. record' = record /\ faults' = faults + 1 /\ conflicts' = conflicts /\ runs' = runs
    BY <1>8 DEF Throws, Crash, Fault
  <2>2. Token(worker, w, k) \in {0, 1} /\ Token(worker', w, k) \in {0, 1}
    BY DEF Token
  <2> QED
    BY <1>0, <2>1, <2>2 DEF Failed, Inserted
<1> QED
  BY <1>2, <1>3, <1>4, <1>5, <1>6, <1>7, <1>8 DEF Around

LEMMA TokensStep == TypeOK /\ TokensCover /\ [GuardNext]_guard => TokensCover'
<1> SUFFICES ASSUME TypeOK, TokensCover, [GuardNext]_guard, NEW k \in Keys
             PROVE  runs'[k] + Cardinality(WaitingIn(worker', k)) + Failed(k)'
                      <= Inserted(k)' + conflicts'[k] + faults'
  BY DEF TokensCover, WaitingIn
<1>0. /\ runs[k] + Cardinality(WaitingIn(worker, k)) + Failed(k)
           <= Inserted(k) + conflicts[k] + faults
      /\ runs[k] \in Nat /\ conflicts[k] \in Nat /\ faults \in Nat
  BY DEF TokensCover, TypeOK
<1>1. CASE UNCHANGED guard
  BY <1>0, <1>1 DEF guard, Failed, Inserted
<1>2. ASSUME NEW w \in Workers, NEW r \in bound.requests, Begin(w, r)
      PROVE  runs'[k] + Cardinality(WaitingIn(worker', k)) + Failed(k)'
               <= Inserted(k)' + conflicts'[k] + faults'
  <2>1. worker'[w].pc = FirstStep(r) /\ worker'[w].req = r /\ worker[w] = Idle
        /\ \A v \in Workers \ {w} : worker'[v] = worker[v]
    BY <1>2, BeginFacts
  <2>2. FirstStep(r) \in {"limit", "count", "run", "fail"} => r.key # k
    BY <1>2, BeginFacts, NoneAssumption
  <2>3. WaitingIn(worker', k) = WaitingIn(worker, k)
    BY <2>1, <2>2 DEF WaitingIn, Idle
  <2> QED
    BY <1>0, <1>2, <2>3 DEF Begin, Failed, Inserted
<1>3. ASSUME NEW w \in Workers,
             Around(w) \/ Commits(w) \/ Rejects(w) \/ Throws(w) \/ Crash(w)
      PROVE  runs'[k] + Cardinality(WaitingIn(worker', k)) + Failed(k)'
               <= Inserted(k)' + conflicts'[k] + faults'
  <2>1. \A v \in Workers \ {w} : worker'[v] = worker[v]
    BY <1>3, StepsOfWorker
  <2>2. /\ Cardinality(WaitingIn(worker, k)) \in Nat
        /\ Cardinality(WaitingIn(worker', k)) \in Nat
        /\ Cardinality(WaitingIn(worker', k)) + Token(worker, w, k)
             = Cardinality(WaitingIn(worker, k)) + Token(worker', w, k)
    BY <2>1, Tokens
  <2>3. runs'[k] + Token(worker', w, k) + Failed(k)' + Inserted(k) + conflicts[k] + faults
           <= runs[k] + Token(worker, w, k) + Failed(k)
                + Inserted(k)' + conflicts'[k] + faults'
    BY <1>3, TokensBalance
  <2>4. /\ Token(worker, w, k) \in {0, 1} /\ Token(worker', w, k) \in {0, 1}
        /\ Failed(k) \in {0, 1} /\ Failed(k)' \in {0, 1}
        /\ Inserted(k) \in {0, 1} /\ Inserted(k)' \in {0, 1}
    BY DEF Token, Failed, Inserted
  <2>5. runs'[k] \in Nat /\ conflicts'[k] \in Nat /\ faults' \in Nat
    BY TypeStep DEF TypeOK
  <2> QED
    BY <1>0, <2>2, <2>3, <2>4, <2>5
<1> QED
  BY <1>1, <1>2, <1>3 DEF GuardNext

(* A mutation is done at most once under a key, and once more for every      *)
(* insert that found a row and for every fault. *)
THEOREM RunsHaveReasons == GuardSpec => []RunsNeedReason
<1>1. TypeOK /\ TokensCover => RunsNeedReason
  <2> SUFFICES ASSUME TypeOK, TokensCover, NEW k \in Keys
               PROVE  runs[k] <= 1 + conflicts[k] + faults
    BY DEF RunsNeedReason
  <2>1. Cardinality(WaitingIn(worker, k)) \in Nat
    BY WorkersAssumption, FS_Subset, FS_CardinalityType DEF WaitingIn
  <2>2. Failed(k) \in {0, 1} /\ Inserted(k) \in {0, 1}
    BY DEF Failed, Inserted
  <2> QED
    BY <2>1, <2>2 DEF TokensCover, TypeOK
<1>2. GuardSpec => []TokensCover
  BY TokensInit, TokensStep, TypeCorrect, PTL DEF GuardSpec
<1> QED
  BY <1>1, <1>2, TypeCorrect, PTL

-----------------------------------------------------------------------------
(* The rate limit *)

Counting(ws) == {w \in Workers : ws[w].pc = "count"}
CountCover ==
  counter + Cardinality(Counting(worker)) + 1 <= bound.max + Cardinality(Workers)

LEMMA CountInit == GuardInit => CountCover
<1> SUFFICES ASSUME GuardInit PROVE CountCover
  OBVIOUS
<1>1. Counting(worker) = {}
  BY DEF GuardInit, Counting, Idle
<1>2. Cardinality(Counting(worker)) = 0
  BY <1>1, FS_EmptySet
<1>3. Cardinality(Workers) \in Nat
  BY WorkersAssumption, FS_CardinalityType
<1>4. bound.max \in Nat \ {0}
  BY BoundsAssumption DEF GuardInit
<1> QED
  BY <1>2, <1>3, <1>4 DEF GuardInit, CountCover

LEMMA CountStep == TypeOK /\ CountCover /\ [GuardNext]_guard => CountCover'
<1> SUFFICES ASSUME TypeOK, CountCover, [GuardNext]_guard
             PROVE  counter' + Cardinality(Counting(worker')) + 1
                      <= bound'.max + Cardinality(Workers)
  BY DEF CountCover, Counting
<1>0. /\ counter + Cardinality(Counting(worker)) + 1 <= bound.max + Cardinality(Workers)
      /\ counter \in Nat /\ bound.max \in Nat \ {0} /\ Cardinality(Workers) \in Nat
      /\ IsFiniteSet(Counting(worker)) /\ IsFiniteSet(Counting(worker'))
      /\ Cardinality(Counting(worker)) \in Nat /\ Cardinality(Counting(worker')) \in Nat
      /\ Cardinality(Counting(worker')) <= Cardinality(Workers)
  <2>1. Counting(worker) \subseteq Workers /\ Counting(worker') \subseteq Workers
    BY DEF Counting
  <2>2. IsFiniteSet(Counting(worker)) /\ IsFiniteSet(Counting(worker'))
        /\ Cardinality(Counting(worker')) <= Cardinality(Workers)
    BY <2>1, WorkersAssumption, FS_Subset
  <2> QED
    BY <2>2, WorkersAssumption, BoundsAssumption, FS_CardinalityType
    DEF CountCover, TypeOK
<1>1. ASSUME Counting(worker') \subseteq Counting(worker), counter' = counter,
             bound' = bound
      PROVE  counter' + Cardinality(Counting(worker')) + 1
               <= bound'.max + Cardinality(Workers)
  <2>1. Cardinality(Counting(worker')) <= Cardinality(Counting(worker))
    BY <1>0, <1>1, FS_Subset
  <2> QED
    BY <1>0, <1>1, <2>1
<1>2. CASE UNCHANGED guard
  BY <1>1, <1>2 DEF guard
<1>3. ASSUME NEW w \in Workers, NEW r \in bound.requests, Begin(w, r)
      PROVE  counter' + Cardinality(Counting(worker')) + 1
               <= bound'.max + Cardinality(Workers)
  <2>1. worker'[w].pc # "count" /\ \A v \in Workers \ {w} : worker'[v] = worker[v]
    BY <1>3, BeginFacts
  <2> QED
    BY <1>1, <1>3, <2>1 DEF Begin, Counting
<1>4. ASSUME NEW w \in Workers,
             Around(w) \/ Commits(w) \/ Rejects(w) \/ Throws(w) \/ Crash(w)
      PROVE  counter' + Cardinality(Counting(worker')) + 1
               <= bound'.max + Cardinality(Workers)
  <2>0. /\ \A v \in Workers \ {w} : worker'[v] = worker[v]
        /\ bound' = bound /\ worker[w] # Idle
        /\ \A pc \in Steps : GoesTo(w, pc) => worker'[w].pc = pc
        /\ Ends(w) => worker'[w] = Idle
    BY <1>4, StepsOfWorker, OthersStay
  <2>1. CASE Limit(w)
    <3>1. CASE GoesTo(w, "count")
      <4>1. counter' = counter /\ (counter < bound.max \/ Ends(w))
        BY <2>1 DEF Limit, Admits
      <4>2. CASE counter < bound.max
        BY <1>0, <2>0, <4>1, <4>2
      <4>3. CASE Ends(w)
        <5>1. worker'[w].pc # "count"
          BY <2>0, <4>3 DEF Idle
        <5> QED
          BY <1>1, <2>0, <4>1, <5>1 DEF Counting
      <4> QED
        BY <4>1, <4>2, <4>3
    <3>2. CASE Ends(w)
      <4>1. worker'[w].pc # "count"
        BY <2>0, <3>2 DEF Idle
      <4> QED
        BY <1>1, <2>0, <2>1, <4>1 DEF Counting, Limit
    <3> QED
      BY <2>1, <3>1, <3>2 DEF Limit
  <2>2. CASE Count(w)
    <3>1. worker'[w].pc = "run" /\ counter' = counter + 1 /\ w \in Counting(worker)
      BY <2>0, <2>2 DEF Count, Steps, Counting, At
    <3>2. Counting(worker') = Counting(worker) \ {w}
      BY <2>0, <3>1 DEF Counting
    <3>3. Cardinality(Counting(worker')) = Cardinality(Counting(worker)) - 1
      BY <1>0, <3>1, <3>2, FS_RemoveElement
    <3> QED
      BY <1>0, <2>0, <3>1, <3>3
  <2>3. CASE ~Limit(w) /\ ~Count(w)
    <3>1. counter' = counter
      BY <1>4, <2>3 DEF Around, Insert, Restart, Replay, Complete, Respond, Audit,
                        Fail, Commits, Rejects, Throws, Crash
    <3>2. \/ Ends(w)
          \/ \E pc \in Steps \ {"count"} : GoesTo(w, pc)
      BY <1>4, <2>3 DEF Around, Insert, Restart, Replay, Complete, Respond, Audit,
                        Fail, Commits, Rejects, Throws, Crash, Steps
    <3>3. worker'[w].pc # "count"
      BY <2>0, <3>2 DEF Idle
    <3> QED
      BY <1>1, <2>0, <3>1, <3>3 DEF Counting
  <2> QED
    BY <2>1, <2>2, <2>3
<1> QED
  BY <1>2, <1>3, <1>4 DEF GuardNext

(* Fewer requests pass the limit of a window in excess than are handled at a *)
(* time. *)
THEOREM WindowHolds == GuardSpec => []WindowOverrun
<1>1. TypeOK /\ CountCover => WindowOverrun
  <2> SUFFICES ASSUME TypeOK, CountCover PROVE WindowOverrun
    OBVIOUS
  <2>1. Cardinality(Counting(worker)) \in Nat /\ Cardinality(Workers) \in Nat
    BY WorkersAssumption, FS_Subset, FS_CardinalityType DEF Counting
  <2>2. bound.max \in Nat /\ counter \in Nat
    BY BoundsAssumption DEF TypeOK
  <2> QED
    BY <2>1, <2>2 DEF CountCover, WindowOverrun
<1> QED
  BY <1>1, CountInit, CountStep, TypeCorrect, PTL DEF GuardSpec

-----------------------------------------------------------------------------
(* What is replayed *)

(* The record a worker's request found or wrote is there and has its body,   *)
(* and so has the stored response, unless two first requests met.            *)
Written(k, body) ==
  /\ record[k].status # "none"
  /\ record[k].body = body \/ conflicts[k] > 0

ReplayInv ==
  /\ \A k \in Keys : record[k].status # "none" => record[k].body # None
  /\ \A k \in Keys : response[k] # None =>
       response[k].key = k /\ runs[k] > 0 /\ Written(k, response[k].body)
  /\ \A w \in Workers :
       /\ worker[w].pc \in Steps \ {"insert"} /\ Key(w) # None =>
            Written(Key(w), worker[w].req.body)
       /\ worker[w].pc \in {"complete", "respond"} => runs[Key(w)] > 0
  /\ \A p \in replays : p[1].key \in Keys
  /\ ReplaysAreRuns

(* What a step may do to what is written. *)
LEMMA WrittenStays ==
  ASSUME TypeOK, ReplayInv, GuardNext
  PROVE  \A k \in Keys :
           /\ record[k].status # "none" =>
                record'[k].status # "none" /\ record'[k].body = record[k].body
           /\ conflicts[k] > 0 => conflicts'[k] > 0
           /\ runs[k] > 0 => runs'[k] > 0
<1>0. /\ record \in [Keys -> [status : {"none", "started", "completed", "failed"},
                            body : Bodies \cup {None}]]
      /\ runs \in [Keys -> Nat] /\ conflicts \in [Keys -> Nat]
  BY DEF TypeOK
<1>1. PICK w \in Workers :
        \/ \E r \in bound.requests : Begin(w, r)
        \/ Around(w) \/ Commits(w) \/ Rejects(w) \/ Throws(w) \/ Crash(w)
  BY DEF GuardNext
<1> TAKE k \in Keys
<1>2. record[k].status # "none" =>
        record'[k].status # "none" /\ record'[k].body = record[k].body
  <2>1. CASE Insert(w)
    BY <1>0, <2>1 DEF Insert
  <2>2. CASE Restart(w) \/ Complete(w)
    BY <1>0, <2>2 DEF Restart, Complete
  <2>3. CASE Fail(w)
    BY <1>0, <2>3 DEF Fail, StatusAfterFailure
  <2>4. CASE ~(Insert(w) \/ Restart(w) \/ Complete(w) \/ Fail(w))
    BY <1>1, <2>4 DEF Begin, Around, Replay, Limit, Count, Respond, Audit, Commits,
                      Rejects, Throws, Crash
  <2> QED
    BY <2>1, <2>2, <2>3, <2>4
<1>3. conflicts[k] > 0 => conflicts'[k] > 0
  <2>1. conflicts' = conflicts \/ conflicts' = [conflicts EXCEPT ![Key(w)] = @ + 1]
    BY <1>1 DEF Begin, Around, Insert, Restart, Replay, Limit, Count, Complete,
                Respond, Audit, Fail, Commits, Rejects, Throws, Crash
  <2> QED
    BY <1>0, <2>1
<1>4. runs[k] > 0 => runs'[k] > 0
  <2>1. runs' = runs \/ runs' = [runs EXCEPT ![Key(w)] = @ + 1]
    BY <1>1 DEF Begin, Around, Insert, Restart, Replay, Limit, Count, Complete,
                Respond, Audit, Fail, Commits, Rejects, Throws, Crash
  <2> QED
    BY <1>0, <2>1
<1> QED
  BY <1>2, <1>3, <1>4

LEMMA ReplayInit == GuardInit => ReplayInv
BY DEF GuardInit, ReplayInv, ReplaysAreRuns, Idle, Steps

(* A record with a body: no step takes it away. *)
LEMMA BodiesStay ==
  ASSUME TypeOK, ReplayInv, GuardNext, NEW k \in Keys, record'[k].status # "none"
  PROVE  record'[k].body # None
<1>0. record \in [Keys -> [status : {"none", "started", "completed", "failed"},
                         body : Bodies \cup {None}]]
  BY DEF TypeOK
<1>1. CASE record[k].status # "none"
  BY <1>1, WrittenStays DEF ReplayInv
<1>2. CASE record[k].status = "none"
  <2>1. PICK w \in Workers :
          \/ \E r \in bound.requests : Begin(w, r)
          \/ Around(w) \/ Commits(w) \/ Rejects(w) \/ Throws(w) \/ Crash(w)
    BY DEF GuardNext
  <2>2. CASE Insert(w)
    <3>1. worker[w].req.body \in Bodies
      BY <2>2, WorkerFacts DEF Insert, At
    <3>2. record'[k] = record[k] \/ record'[k].body = worker[w].req.body
      BY <1>0, <2>2 DEF Insert
    <3> QED
      BY <1>2, <3>1, <3>2, NoneAssumption
  <2>3. CASE Restart(w) \/ Complete(w) \/ Fail(w)
    <3>1. CASE Key(w) = k
      <4>1. worker[w].pc \in Steps \ {"insert"}
        BY <2>3 DEF Restart, Complete, Fail, At, Steps
      <4>2. k # None
        BY NoneAssumption
      <4> QED
        BY <1>2, <3>1, <4>1, <4>2 DEF ReplayInv, Written
    <3>2. CASE Key(w) # k
      <4>1. record'[k] = record[k]
        BY <1>0, <2>3, <3>2 DEF Restart, Complete, Fail
      <4> QED
        BY <1>2, <4>1
    <3> QED
      BY <3>1, <3>2
  <2>4. CASE ~(Insert(w) \/ Restart(w) \/ Complete(w) \/ Fail(w))
    <3>1. record' = record
      BY <2>1, <2>4 DEF Begin, Around, Replay, Limit, Count, Respond, Audit,
                        Commits, Rejects, Throws, Crash
    <3> QED
      BY <1>2, <3>1
  <2> QED
    BY <2>2, <2>3, <2>4
<1> QED
  BY <1>1, <1>2

(* The workers' part. *)
LEMMA WorkersWritten ==
  ASSUME TypeOK, ReplayInv, GuardNext, NEW v \in Workers
  PROVE  /\ worker'[v].pc \in Steps \ {"insert"} /\ worker'[v].req.key # None =>
              /\ record'[worker'[v].req.key].status # "none"
              /\ \/ record'[worker'[v].req.key].body = worker'[v].req.body
                 \/ conflicts'[worker'[v].req.key] > 0
         /\ worker'[v].pc \in {"complete", "respond"} => runs'[worker'[v].req.key] > 0
<1> DEFINE Goal ==
      /\ worker'[v].pc \in Steps \ {"insert"} /\ worker'[v].req.key # None =>
           /\ record'[worker'[v].req.key].status # "none"
           /\ \/ record'[worker'[v].req.key].body = worker'[v].req.body
              \/ conflicts'[worker'[v].req.key] > 0
      /\ worker'[v].pc \in {"complete", "respond"} => runs'[worker'[v].req.key] > 0
<1>0. /\ record \in [Keys -> [status : {"none", "started", "completed", "failed"},
                            body : Bodies \cup {None}]]
      /\ runs \in [Keys -> Nat] /\ conflicts \in [Keys -> Nat]
  BY DEF TypeOK
<1>1. ASSUME worker'[v] = Idle PROVE Goal
  BY <1>1 DEF Idle, Steps
<1>2. ASSUME worker[v] # Idle, worker'[v].req = worker[v].req,
             worker'[v].pc \in Steps \ {"insert"} => worker[v].pc \in Steps \ {"insert"},
             worker'[v].pc \in {"complete", "respond"} /\ Key(v) \in Keys =>
               worker[v].pc \in {"complete", "respond"} \/ runs'[Key(v)] > 0,
             worker'[v].pc \in {"complete", "respond"} => Key(v) \in Keys
      PROVE  Goal
  <2>1. Key(v) \in Keys \cup {None}
    BY <1>2, WorkerFacts
  <2>2. CASE Key(v) = None
    BY <1>2, <2>2, NoneAssumption DEF Key
  <2>3. CASE Key(v) \in Keys
    <3>1. /\ record[Key(v)].status # "none" =>
               record'[Key(v)].status # "none" /\ record'[Key(v)].body = record[Key(v)].body
          /\ conflicts[Key(v)] > 0 => conflicts'[Key(v)] > 0
          /\ runs[Key(v)] > 0 => runs'[Key(v)] > 0
      BY <2>3, WrittenStays
    <3>2. worker[v].pc \in Steps \ {"insert"} =>
            /\ record[Key(v)].status # "none"
            /\ record[Key(v)].body = worker[v].req.body \/ conflicts[Key(v)] > 0
      BY <2>3, NoneAssumption DEF ReplayInv, Written
    <3>3. worker[v].pc \in {"complete", "respond"} => runs[Key(v)] > 0
      BY DEF ReplayInv
    <3> QED
      BY <1>2, <2>3, <3>1, <3>2, <3>3 DEF Key
  <2> QED
    BY <2>1, <2>2, <2>3
<1>3. ASSUME NEW w \in Workers, NEW r \in bound.requests, Begin(w, r) PROVE Goal
  <2>0. record' = record /\ conflicts' = conflicts /\ runs' = runs
    BY <1>3 DEF Begin
  <2>1. CASE v # w
    <3>1. worker'[v] = worker[v]
      BY <1>3, <2>1, BeginFacts
    <3> QED
      BY <2>0, <3>1 DEF ReplayInv, Written, Key
  <2>2. CASE v = w
    <3>1. /\ r \in Requests
          /\ IF r.key = None THEN FirstStep(r) = "limit"
             ELSE r.key \in Keys /\ FirstStep(r) \in {"insert", "restart", "replay"}
          /\ worker'[v].pc = FirstStep(r) /\ worker'[v].req = r
      BY <1>3, <2>2, BeginFacts
    <3>2. CASE r.key = None
      BY <3>1, <3>2
    <3>3. CASE r.key # None
      <4>1. record[r.key].body \in {None, r.body}
        BY <1>3, <3>3 DEF Begin, Blocked
      <4>2. CASE record[r.key].status = "none"
        BY <3>1, <3>3, <4>2 DEF FirstStep
      <4>3. CASE record[r.key].status # "none"
        <5>1. record[r.key].body # None
          BY <3>1, <3>3, <4>3 DEF ReplayInv
        <5> QED
          BY <2>0, <3>1, <3>3, <4>1, <4>3, <5>1
      <4> QED
        BY <4>2, <4>3
    <3> QED
      BY <3>2, <3>3
  <2> QED
    BY <2>1, <2>2
<1>4. ASSUME NEW w \in Workers,
             Around(w) \/ Commits(w) \/ Rejects(w) \/ Throws(w) \/ Crash(w)
      PROVE  Goal
  <2>0. /\ worker[w] # Idle
        /\ \A u \in Workers \ {w} : worker'[u] = worker[u]
        /\ \A pc \in Steps : GoesTo(w, pc) =>
             worker'[w].pc = pc /\ worker'[w].req = worker[w].req
        /\ Ends(w) => worker'[w] = Idle
    BY <1>4, StepsOfWorker, OthersStay
  <2>1. CASE v # w
    <3>1. worker'[v] = worker[v]
      BY <2>0, <2>1
    <3>2. CASE worker[v] = Idle
      BY <1>1, <3>1, <3>2
    <3>3. CASE worker[v] # Idle
      <4>1. worker[v].pc \in {"complete", "respond"} => Key(v) \in Keys
        BY WorkerFacts
      <4> QED
        BY <1>2, <3>1, <3>3, <4>1
    <3> QED
      BY <3>2, <3>3
  <2>2. CASE v = w /\ Insert(w)
    <3>1. Key(w) \in Keys
      BY <2>2, WorkerFacts DEF Insert, At
    <3>2. worker'[w].pc = "limit" /\ worker'[w].req = worker[w].req
      BY <2>0, <2>2 DEF Insert, Steps
    <3>3. CASE record[Key(w)].status = "none"
      <4>1. record'[Key(w)] = [status |-> "started", body |-> worker[w].req.body]
        BY <1>0, <2>2, <3>1, <3>3 DEF Insert
      <4>2. record'[Key(w)].status = "started" /\ record'[Key(w)].body = worker[w].req.body
        BY <4>1
      <4> QED
        BY <2>2, <3>2, <4>2 DEF Key
    <3>4. CASE record[Key(w)].status # "none"
      <4>1. record' = record /\ conflicts'[Key(w)] = conflicts[Key(w)] + 1
            /\ conflicts[Key(w)] \in Nat
        BY <1>0, <2>2, <3>1, <3>4 DEF Insert
      <4> QED
        BY <2>2, <3>2, <3>4, <4>1 DEF Key
    <3> QED
      BY <3>3, <3>4
  <2>3. CASE v = w /\ ~Insert(w) /\ Ends(w)
    BY <1>1, <2>0, <2>3
  <2>4. CASE v = w /\ ~Insert(w) /\ ~Ends(w)
    <3>1. \E pc \in Steps : GoesTo(w, pc)
      BY <1>4, <2>4 DEF Around, Restart, Replay, Limit, Count, Complete, Respond,
                        Audit, Fail, Commits, Rejects, Throws, Crash, Steps
    <3>2. worker'[w].req = worker[w].req
      BY <2>0, <3>1
    <3>3. worker[w].pc \in Steps \ {"insert"}
      BY <1>4, <2>4 DEF Around, Restart, Replay, Limit, Count, Complete, Respond,
                        Audit, Fail, Commits, Rejects, Throws, Crash, At, Steps
    <3>4. worker'[w].pc \in {"complete", "respond"} => Commits(w) \/ Complete(w)
      <4>1. \/ Commits(w) \/ Complete(w)
            \/ \E pc \in {"limit", "count", "run", "audit", "fail"} : GoesTo(w, pc)
        BY <1>4, <2>4 DEF Around, Restart, Replay, Limit, Count, Respond,
                          Audit, Fail, Rejects, Throws, Crash
      <4>2. ASSUME NEW pc \in {"limit", "count", "run", "audit", "fail"}, GoesTo(w, pc)
            PROVE  worker'[w].pc = pc
        BY <2>0, <4>2 DEF Steps
      <4> QED
        BY <4>1, <4>2
    <3>5. Commits(w) /\ Key(w) \in Keys => runs'[Key(w)] > 0
      BY <1>0, NoneAssumption DEF Commits
    <3>6. Complete(w) => worker[w].pc \in {"complete", "respond"} /\ Key(w) \in Keys
      BY WorkerFacts DEF Complete, At
    <3>7. Commits(w) /\ worker'[w].pc \in {"complete", "respond"} => Key(w) \in Keys
      <4>1. Key(w) \in Keys \cup {None}
        BY <2>0, WorkerFacts
      <4>2. Commits(w) /\ Key(w) = None => worker'[w].pc = "audit"
        BY <2>0 DEF Commits, Steps
      <4> QED
        BY <4>1, <4>2
    <3> QED
      BY <1>2, <2>0, <2>4, <3>2, <3>3, <3>4, <3>5, <3>6, <3>7
  <2> QED
    BY <2>1, <2>2, <2>3, <2>4
<1> QED
  BY <1>3, <1>4 DEF GuardNext

(* The responses' part. *)
LEMMA ResponsesWritten ==
  ASSUME TypeOK, ReplayInv, GuardNext, NEW k \in Keys, response'[k] # None
  PROVE  /\ response'[k].key = k /\ runs'[k] > 0
         /\ record'[k].status # "none"
         /\ record'[k].body = response'[k].body \/ conflicts'[k] > 0
<1>1. /\ record[k].status # "none" =>
           record'[k].status # "none" /\ record'[k].body = record[k].body
      /\ conflicts[k] > 0 => conflicts'[k] > 0
      /\ runs[k] > 0 => runs'[k] > 0
  BY WrittenStays
<1>2. CASE response'[k] = response[k]
  BY <1>1, <1>2 DEF ReplayInv, Written
<1>3. CASE response'[k] # response[k]
  <2>1. PICK w \in Workers : Respond(w)
    BY <1>3 DEF GuardNext, Begin, Around, Insert, Restart, Replay, Limit, Count,
                Complete, Audit, Fail, Commits, Rejects, Throws, Crash
  <2>2. Key(w) = k /\ response'[k] = worker[w].req
    BY <1>3, <2>1 DEF Respond, Stored, TypeOK
  <2>3. worker[w].pc \in Steps \ {"insert"} /\ worker[w].pc \in {"complete", "respond"}
        /\ k # None
    BY <2>1, NoneAssumption DEF Respond, At, Steps
  <2>4. runs[k] > 0 /\ record[k].status # "none"
        /\ (record[k].body = worker[w].req.body \/ conflicts[k] > 0)
    BY <2>2, <2>3 DEF ReplayInv, Written
  <2> QED
    BY <1>1, <2>2, <2>4 DEF Key
<1> QED
  BY <1>2, <1>3

LEMMA ReplaysStay ==
  ASSUME TypeOK, ReplayInv, GuardNext, NEW p \in replays'
  PROVE  /\ p[1].key \in Keys
         /\ p[2].key = p[1].key
         /\ runs'[p[1].key] > 0
         /\ p[2].body = p[1].body \/ conflicts'[p[1].key] > 0
<1>1. /\ p[1].key \in Keys
      /\ p[2].key = p[1].key
      /\ runs[p[1].key] > 0
      /\ p[2].body = p[1].body \/ conflicts[p[1].key] > 0
  <2>1. CASE p \in replays
    BY <2>1 DEF ReplayInv, ReplaysAreRuns
  <2>2. CASE p \notin replays
    <3>1. PICK w \in Workers : Replay(w)
      BY <2>2 DEF GuardNext, Begin, Around, Insert, Restart, Limit, Count,
                  Complete, Respond, Audit, Fail, Commits, Rejects, Throws, Crash
    <3>2. p[1] = worker[w].req /\ p[2] = response[Key(w)] /\ response[Key(w)] # None
      BY <2>2, <3>1 DEF Replay
    <3>3. Key(w) \in Keys /\ worker[w].pc \in Steps \ {"insert"} /\ Key(w) # None
      BY <3>1, WorkerFacts, NoneAssumption DEF Replay, At, Steps
    <3>4. record[Key(w)].body = worker[w].req.body \/ conflicts[Key(w)] > 0
      BY <3>3 DEF ReplayInv, Written
    <3>5. response[Key(w)].key = Key(w) /\ runs[Key(w)] > 0
          /\ (record[Key(w)].body = response[Key(w)].body \/ conflicts[Key(w)] > 0)
      BY <3>2, <3>3 DEF ReplayInv, Written
    <3> QED
      BY <3>2, <3>3, <3>4, <3>5 DEF Key
  <2> QED
    BY <2>1, <2>2
<1> QED
  BY <1>1, WrittenStays

LEMMA ReplayStep == TypeOK /\ ReplayInv /\ [GuardNext]_guard => ReplayInv'
<1> SUFFICES ASSUME TypeOK, ReplayInv, [GuardNext]_guard PROVE ReplayInv'
  OBVIOUS
<1>1. CASE UNCHANGED guard
  BY <1>1 DEF guard, ReplayInv, Written, ReplaysAreRuns, Key
<1>2. CASE GuardNext
  <2>1. \A k \in Keys : record'[k].status # "none" => record'[k].body # None
    BY <1>2, BodiesStay
  <2>2. \A k \in Keys : response'[k] # None =>
          /\ response'[k].key = k /\ runs'[k] > 0
          /\ record'[k].status # "none"
          /\ record'[k].body = response'[k].body \/ conflicts'[k] > 0
    BY <1>2, ResponsesWritten
  <2>3. \A w \in Workers :
          /\ worker'[w].pc \in Steps \ {"insert"} /\ worker'[w].req.key # None =>
               /\ record'[worker'[w].req.key].status # "none"
               /\ \/ record'[worker'[w].req.key].body = worker'[w].req.body
                  \/ conflicts'[worker'[w].req.key] > 0
          /\ worker'[w].pc \in {"complete", "respond"} => runs'[worker'[w].req.key] > 0
    BY <1>2, WorkersWritten
  <2>4. \A p \in replays' :
          /\ p[1].key \in Keys /\ p[2].key = p[1].key
          /\ runs'[p[1].key] > 0
          /\ p[2].body = p[1].body \/ conflicts'[p[1].key] > 0
    BY <1>2, ReplaysStay
  <2> QED
    BY <2>1, <2>2, <2>3, <2>4 DEF ReplayInv, Written, ReplaysAreRuns, Key
<1> QED
  BY <1>1, <1>2

LEMMA ReplayInvariant == GuardSpec => []ReplayInv
BY ReplayInit, ReplayStep, TypeCorrect, PTL DEF GuardSpec

(* A replayed response is that of a mutation done under the same key, and    *)
(* for the same body unless two first requests met. *)
THEOREM ReplaysAreHonest == GuardSpec => []ReplaysAreRuns
<1>1. ReplayInv => ReplaysAreRuns
  BY DEF ReplayInv
<1> QED
  BY <1>1, ReplayInvariant, PTL

-----------------------------------------------------------------------------
(* A run can be replayed                                                     *)
(*                                                                         *)
(* Without faults and without first requests that met, a key has one token:  *)
(* once its mutation ran, nobody waits to run it or to call it failed.       *)

Undisturbed(k) == faults = 0 /\ conflicts[k] = 0

LEMMA NobodyWaits ==
  ASSUME TypeOK, TokensCover, NEW k \in Keys, runs[k] > 0, Undisturbed(k)
  PROVE  /\ record[k].status \notin {"none", "failed"}
         /\ \A w \in Workers : ~Holds(w, k)
<1>1. Cardinality(WaitingIn(worker, k)) \in Nat /\ IsFiniteSet(WaitingIn(worker, k))
  BY WorkersAssumption, FS_Subset, FS_CardinalityType DEF WaitingIn
<1>2. Failed(k) \in {0, 1} /\ Inserted(k) \in {0, 1} /\ runs[k] \in Nat
  BY DEF Failed, Inserted, TypeOK
<1>3. runs[k] + Cardinality(WaitingIn(worker, k)) + Failed(k) <= Inserted(k)
  BY <1>1, <1>2 DEF TokensCover, Undisturbed
<1>4. Cardinality(WaitingIn(worker, k)) = 0 /\ Failed(k) = 0 /\ Inserted(k) = 1
  BY <1>1, <1>2, <1>3
<1>5. WaitingIn(worker, k) = {}
  BY <1>1, <1>4, FS_EmptySet
<1> QED
  BY <1>4, <1>5 DEF Failed, Inserted, WaitingIn, Holds, Key

Settling(k) ==
  Undisturbed(k) =>
    /\ \A w \in Workers : At(w, "respond") /\ Key(w) = k => record[k].status = "completed"
    /\ runs[k] > 0 =>
         \/ \E w \in Workers : worker[w].pc \in {"complete", "respond"} /\ Key(w) = k
         \/ record[k].status = "completed" /\ response[k] # None

SettleInv == \A k \in Keys : Settling(k)

LEMMA SettleInit == GuardInit => SettleInv
BY DEF GuardInit, SettleInv, Settling, At, Idle

(* A key that ran keeps its record while it is undisturbed, but to complete it. *)
LEMMA RecordKept ==
  ASSUME TypeOK, TokensCover, ReplayInv, GuardNext, NEW k \in Keys,
         runs[k] > 0, Undisturbed(k), Undisturbed(k)'
  PROVE  /\ record'[k] = record[k] \/ record'[k].status = "completed"
         /\ \A w \in Workers : Complete(w) /\ Key(w) = k => record'[k].status = "completed"
<1>0. record \in [Keys -> [status : {"none", "started", "completed", "failed"},
                         body : Bodies \cup {None}]]
  BY DEF TypeOK
<1>1. PICK w \in Workers :
        \/ \E r \in bound.requests : Begin(w, r)
        \/ Around(w) \/ Commits(w) \/ Rejects(w) \/ Throws(w) \/ Crash(w)
  BY DEF GuardNext
<1>2. record[k].status \notin {"none", "failed"} /\ ~Holds(w, k)
  BY NobodyWaits
<1>3. record'[k] = record[k] \/ record'[k].status = "completed"
  <2>1. CASE Insert(w)
    <3>1. CASE Key(w) = k
      <4>1. conflicts'[k] = conflicts[k] + 1 /\ conflicts[k] \in Nat
        BY <1>2, <2>1, <3>1 DEF Insert, TypeOK
      <4> QED
        BY <4>1 DEF Undisturbed
    <3>2. CASE Key(w) # k
      BY <1>0, <2>1, <3>2 DEF Insert
    <3> QED
      BY <3>1, <3>2
  <2>2. CASE Restart(w)
    BY <1>0, <1>2, <2>2 DEF Restart, Restartable
  <2>3. CASE Complete(w)
    BY <1>0, <2>3 DEF Complete
  <2>4. CASE Fail(w)
    BY <1>0, <1>2, <2>4 DEF Fail, Holds, At
  <2>5. CASE ~(Insert(w) \/ Restart(w) \/ Complete(w) \/ Fail(w))
    BY <1>1, <2>5 DEF Begin, Around, Replay, Limit, Count, Respond, Audit, Commits,
                      Rejects, Throws, Crash
  <2> QED
    BY <2>1, <2>2, <2>3, <2>4, <2>5
<1>4. ASSUME NEW v \in Workers, Complete(v), Key(v) = k
      PROVE  record'[k].status = "completed"
  BY <1>0, <1>4 DEF Complete
<1> QED
  BY <1>3, <1>4

LEMMA SettleStep ==
  TypeOK /\ TokensCover /\ ReplayInv /\ SettleInv /\ [GuardNext]_guard => SettleInv'
<1> SUFFICES ASSUME TypeOK, TokensCover, ReplayInv, SettleInv, [GuardNext]_guard,
                    NEW k \in Keys, Undisturbed(k)'
             PROVE  /\ \A w \in Workers : worker'[w].pc = "respond" /\ worker'[w].req.key = k
                         => record'[k].status = "completed"
                    /\ runs'[k] > 0 =>
                         \/ \E w \in Workers : /\ worker'[w].pc \in {"complete", "respond"}
                                              /\ worker'[w].req.key = k
                         \/ record'[k].status = "completed" /\ response'[k] # None
  BY DEF SettleInv, Settling, At, Key
<1>1. CASE UNCHANGED guard
  BY <1>1 DEF guard, SettleInv, Settling, Undisturbed, At, Key
<1>2. CASE GuardNext
  <2>1. Undisturbed(k)
    <3>1. PICK w \in Workers :
            \/ \E r \in bound.requests : Begin(w, r)
            \/ Around(w) \/ Commits(w) \/ Rejects(w) \/ Throws(w) \/ Crash(w)
      BY <1>2 DEF GuardNext
    <3>2. /\ faults' = faults \/ faults' = faults + 1
          /\ faults \in Nat /\ conflicts[k] \in Nat
      BY <3>1 DEF TypeOK, Begin, Around, Insert, Restart, Replay, Limit, Count,
                  Complete, Respond, Audit, Fail, Commits, Rejects, Throws, Crash, Fault
    <3>3. conflicts[k] > 0 => conflicts'[k] > 0
      BY <1>2, WrittenStays
    <3> QED
      BY <3>2, <3>3 DEF Undisturbed
  <2>2. ~(\E v \in Workers : Throws(v) \/ Crash(v))
    BY <2>1 DEF Undisturbed, Throws, Crash, Fault
  <2>3. PICK w \in Workers :
          \/ \E r \in bound.requests : Begin(w, r)
          \/ Around(w) \/ Commits(w) \/ Rejects(w)
    BY <1>2, <2>2 DEF GuardNext
  <2>4. /\ \A v \in Workers \ {w} : worker'[v] = worker[v]
        /\ (\E r \in bound.requests : Begin(w, r)) =>
             worker[w] = Idle /\ worker'[w].pc \notin {"complete", "respond"}
        /\ ~(\E r \in bound.requests : Begin(w, r)) => 
             /\ \A pc \in Steps : GoesTo(w, pc) =>
                  worker'[w].pc = pc /\ worker'[w].req = worker[w].req
             /\ Ends(w) => worker'[w] = Idle
    <3>1. CASE \E r \in bound.requests : Begin(w, r)
      BY <3>1, BeginFacts
    <3>2. CASE ~\E r \in bound.requests : Begin(w, r)
      BY <2>3, <3>2, StepsOfWorker, OthersStay
    <3> QED
      BY <3>1, <3>2
  <2>5. worker'[w].pc \in {"complete", "respond"} =>
          /\ worker'[w].req = worker[w].req
          /\ worker'[w].pc = "complete" => Commits(w)
          /\ worker'[w].pc = "respond" => Complete(w)
    <3>1. CASE \E r \in bound.requests : Begin(w, r)
      BY <2>4, <3>1
    <3>2. CASE ~\E r \in bound.requests : Begin(w, r)
      <4>1. \/ Commits(w) /\ (GoesTo(w, "complete") \/ GoesTo(w, "audit"))
            \/ Complete(w) /\ GoesTo(w, "respond")
            \/ Ends(w)
            \/ \E pc \in {"limit", "count", "run", "audit", "fail"} : GoesTo(w, pc)
        BY <2>3, <3>2 DEF Around, Insert, Restart, Replay, Limit, Count, Complete,
                          Respond, Audit, Fail, Commits, Rejects
      <4> QED
        BY <2>4, <3>2, <4>1 DEF Steps, Idle
    <3> QED
      BY <3>1, <3>2
  <2>6. Settling(k)
    BY DEF SettleInv
  <2>7. \A v \in Workers : worker'[v].pc = "respond" /\ worker'[v].req.key = k
          => record'[k].status = "completed"
    <3> SUFFICES ASSUME NEW v \in Workers, worker'[v].pc = "respond",
                        worker'[v].req.key = k
                 PROVE  record'[k].status = "completed"
      OBVIOUS
    <3>1. CASE v = w
      BY <2>5, <3>1 DEF Complete, TypeOK, Key
    <3>2. CASE v # w
      <4>1. At(v, "respond") /\ Key(v) = k
        BY <2>4, <3>2 DEF At, Key
      <4>2. record[k].status = "completed" /\ runs[k] > 0
        BY <2>1, <2>6, <4>1 DEF Settling, ReplayInv, At
      <4> QED
        BY <1>2, <2>1, <4>2, RecordKept
    <3> QED
      BY <3>1, <3>2
  <2>8. ASSUME runs'[k] > 0
        PROVE  \/ \E v \in Workers : /\ worker'[v].pc \in {"complete", "respond"}
                                     /\ worker'[v].req.key = k
               \/ record'[k].status = "completed" /\ response'[k] # None
    <3>1. CASE ~(runs[k] > 0)
      <4>1. Commits(w) /\ Key(w) = k /\ GoesTo(w, "complete")
        BY <2>3, <2>8, <3>1, NoneAssumption
        DEF Begin, Around, Insert, Restart, Replay, Limit, Count, Complete, Respond,
            Audit, Fail, Commits, Rejects, TypeOK
      <4>2. ~\E r \in bound.requests : Begin(w, r)
        BY <4>1 DEF Commits, Begin, At, Idle
      <4> QED
        BY <2>4, <4>1, <4>2 DEF Steps, Key
    <3>2. CASE runs[k] > 0
      <4>1. \/ \E v \in Workers : worker[v].pc \in {"complete", "respond"} /\ Key(v) = k
            \/ record[k].status = "completed" /\ response[k] # None
        BY <2>1, <2>6, <3>2 DEF Settling
      <4>2. record'[k] = record[k] \/ record'[k].status = "completed"
        BY <1>2, <2>1, <3>2, RecordKept
      <4>3. response[k] # None => response'[k] # None
        <5>1. CASE Respond(w)
          <6>1. worker[w].req \in Requests
            BY <5>1, WorkerFacts DEF Respond, At
          <6> QED
            BY <5>1, <6>1, NoneAssumption DEF Respond, Stored, TypeOK
        <5>2. CASE ~Respond(w)
          BY <2>3, <5>2 DEF Begin, Around, Insert, Restart, Replay, Limit, Count,
                            Complete, Audit, Fail, Commits, Rejects
        <5> QED
          BY <5>1, <5>2
      <4>4. CASE record[k].status = "completed" /\ response[k] # None
        BY <4>2, <4>3, <4>4
      <4>5. ASSUME NEW v \in Workers, worker[v].pc \in {"complete", "respond"}, Key(v) = k
            PROVE  \/ \E u \in Workers : /\ worker'[u].pc \in {"complete", "respond"}
                                         /\ worker'[u].req.key = k
                   \/ record'[k].status = "completed" /\ response'[k] # None
        <5>1. CASE v # w
          BY <2>4, <4>5, <5>1 DEF Key
        <5>2. CASE v = w
          <6>0. ~\E r \in bound.requests : Begin(w, r)
            BY <4>5, <5>2 DEF Begin, Idle
          <6>1. Complete(w) \/ Respond(w)
            BY <2>3, <4>5, <5>2, <6>0
            DEF Around, Insert, Restart, Replay, Limit, Count, Audit, Fail, Commits,
                Rejects, At
          <6>2. CASE Complete(w)
            <7>1. GoesTo(w, "respond") /\ "respond" \in Steps
              BY <6>2 DEF Complete, Steps
            <7> QED
              BY <2>4, <4>5, <5>2, <6>0, <7>1 DEF Key
          <6>3. CASE Respond(w)
            <7>1. At(w, "respond") /\ worker[w].req \in Requests
              BY <6>3, WorkerFacts DEF Respond, At
            <7>2. record[k].status = "completed"
              BY <2>1, <2>6, <4>5, <5>2, <7>1 DEF Settling
            <7>3. response'[k] = worker[w].req
              BY <4>5, <5>2, <6>3 DEF Respond, Stored, TypeOK
            <7> QED
              BY <4>2, <7>1, <7>2, <7>3, NoneAssumption
          <6> QED
            BY <6>1, <6>2, <6>3
        <5> QED
          BY <5>1, <5>2
      <4> QED
        BY <4>1, <4>4, <4>5
    <3> QED
      BY <3>1, <3>2
  <2> QED
    BY <2>7, <2>8
<1> QED
  BY <1>1, <1>2

(* A mutation that ran is replayed to a retry, or about to be, but for       *)
(* faults and first requests that met. *)
THEOREM RunsCanBeReplayed == GuardSpec => []RunsAreReplayable
<1>1. TypeOK /\ SettleInv => RunsAreReplayable
  BY DEF TypeOK, SettleInv, Settling, Undisturbed, RunsAreReplayable
<1>2. GuardSpec => []TokensCover
  BY TokensInit, TokensStep, TypeCorrect, PTL DEF GuardSpec
<1> QED
  BY <1>1, <1>2, SettleInit, SettleStep, ReplayInvariant, TypeCorrect, PTL DEF GuardSpec
=============================================================================
