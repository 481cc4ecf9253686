---------------------------- MODULE RequestGuard ----------------------------
(***************************************************************************)
(* What every mutating route of the web application does around its        *)
(* mutation: requireSecurityDecision before it, completeSecurityDecision    *)
(* and auditInternalMutation after it, failSecurityDecision in its catch.   *)
(* The rows are those of the idempotency records, the stored responses and  *)
(* one window of the rate limit; each statement commits by itself.          *)
(*                                                                         *)
(* A request is what a client sends, any number of times: a key or none,   *)
(* the kind of mutation and a body.  Only the body is hashed and compared, *)
(* so that requests of two kinds may be taken for one another.             *)
(*                                                                         *)
(* The mutation is left to the module that extends this one: it either      *)
(* commits (Commits) or throws (Rejects).  An answer that changes nothing   *)
(* (409 for a started key or another body) is a stuttering step.  Records   *)
(* expire after a day; nothing in the program calls the cleanup, and the    *)
(* behaviours here last less.                                               *)
(***************************************************************************)
EXTENDS Naturals, FiniteSets

CONSTANTS
  Keys, Kinds, Bodies, None,
  Workers,      \* requests handled at the same time
  Bounds        \* bounds, of which a behaviour has one: the requests that
                \* clients send, the limit of the window, the faults

Requests == [key : Keys \cup {None}, kind : Kinds, body : Bodies]

ASSUME BoundsAssumption ==
  \A b \in Bounds :
    b.requests \subseteq Requests /\ b.max \in Nat \ {0} /\ b.faults \in Nat
ASSUME WorkersAssumption == IsFiniteSet(Workers)
ASSUME NoneAssumption == None \notin Keys \cup Bodies \cup Requests

VARIABLES
  record,    \* per key, the idempotency record: status and body (its hash)
  response,  \* per key, the request whose response is stored
  counter,   \* the count of the window
  worker,    \* per worker, where the route is and the request it handles
  faults,
  bound,
  \* not in the code:
  runs,      \* per key, the mutations that committed
  conflicts, \* per key, the inserts that found a row
  refused,   \* the keys of which a request met the rate limit
  replays    \* pairs of a request and the one whose response it was given

guard == <<record, response, counter, worker, faults, bound,
           runs, conflicts, refused, replays>>

Idle == [pc |-> "idle", req |-> None]
At(w, pc) == worker[w].pc = pc
Key(w) == worker[w].req.key
GoesTo(w, pc) == worker' = [worker EXCEPT ![w].pc = pc]
Ends(w) == worker' = [worker EXCEPT ![w] = Idle]

GuardInit ==
  /\ record = [k \in Keys |-> [status |-> "none", body |-> None]]
  /\ response = [k \in Keys |-> None]
  /\ counter = 0
  /\ worker = [w \in Workers |-> Idle]
  /\ faults = 0
  /\ bound \in Bounds
  /\ runs = [k \in Keys |-> 0]
  /\ conflicts = [k \in Keys |-> 0]
  /\ refused = {}
  /\ replays = {}

-----------------------------------------------------------------------------
(* requireSecurityDecision *)

(* Mutants of the definitions below: the body is not compared; the restart   *)
(* does not look at the status; the limit admits one more; no response is    *)
(* stored; no failure is recorded.                                           *)
BlockedWhileStarted(r) == r.key # None /\ record[r.key].status = "started"
RestartsAnyway(k) == record[k].status # "none"
AtMost(n) == n <= bound.max
NothingStored(r) == None
StaysAsItIs(status) == status

(* beginIdempotentAction up to what it decides from the record it read.  A  *)
(* request without a key has no record.                                     *)
FirstStep(r) ==
  IF r.key = None THEN "limit"
  ELSE CASE record[r.key].status = "none" -> "insert"
         [] record[r.key].status = "failed" -> "restart"
         [] record[r.key].status = "completed" -> "replay"

Blocked(r) ==
  /\ r.key # None
  /\ \/ record[r.key].status = "started"
     \/ record[r.key].body \notin {None, r.body}

Begin(w, r) ==
  /\ worker[w] = Idle
  /\ ~Blocked(r)
  /\ worker' = [worker EXCEPT ![w] = [pc |-> FirstStep(r), req |-> r]]
  /\ UNCHANGED <<record, response, counter, faults, bound,
                 runs, conflicts, refused, replays>>

(* saveIdempotencyRecord: an existing row only has its last_seen_at moved,   *)
(* and the request goes on as if it had been the first.                      *)
Insert(w) ==
  /\ At(w, "insert")
  /\ IF record[Key(w)].status = "none"
     THEN /\ record' = [record EXCEPT ![Key(w)] =
               [status |-> "started", body |-> worker[w].req.body]]
          /\ UNCHANGED conflicts
     ELSE /\ conflicts' = [conflicts EXCEPT ![Key(w)] = @ + 1]
          /\ UNCHANGED record
  /\ GoesTo(w, "limit")
  /\ UNCHANGED <<response, counter, faults, bound, runs, refused, replays>>

(* restartFailedIdempotencyRecordAtomically, one UPDATE WHERE status failed. *)
Restartable(k) == record[k].status = "failed"

Restart(w) ==
  /\ At(w, "restart")
  /\ IF Restartable(Key(w))
     THEN /\ record' = [record EXCEPT ![Key(w)].status = "started"]
          /\ GoesTo(w, "limit")
     ELSE /\ Ends(w)
          /\ UNCHANGED record
  /\ UNCHANGED <<response, counter, faults, bound,
                 runs, conflicts, refused, replays>>

(* getReplayForIdempotencyKey: the record's body never changes once it is    *)
(* there, so reading it again tells nothing new.  Without a stored response  *)
(* the answer is 409.                                                        *)
Replay(w) ==
  /\ At(w, "replay")
  /\ replays' = replays \cup
       {<<worker[w].req, s>> : s \in {response[Key(w)]} \ {None}}
  /\ Ends(w)
  /\ UNCHANGED <<record, response, counter, faults, bound,
                 runs, conflicts, refused>>

Admits(n) == n < bound.max

(* evaluateRateLimit: the answer 429 leaves the record as it is. *)
Limit(w) ==
  /\ At(w, "limit")
  /\ IF Admits(counter)
     THEN GoesTo(w, "count") /\ UNCHANGED refused
     ELSE Ends(w) /\ refused' = refused \cup ({Key(w)} \ {None})
  /\ UNCHANGED <<record, response, counter, faults, bound,
                 runs, conflicts, replays>>

(* incrementRateLimit *)
Count(w) ==
  /\ At(w, "count")
  /\ counter' = counter + 1
  /\ GoesTo(w, "run")
  /\ UNCHANGED <<record, response, faults, bound,
                 runs, conflicts, refused, replays>>

-----------------------------------------------------------------------------
(* the route's try block, and its catch *)
Commits(w) ==
  /\ At(w, "run")
  /\ runs' = IF Key(w) = None THEN runs
             ELSE [runs EXCEPT ![Key(w)] = @ + 1]
  /\ GoesTo(w, IF Key(w) = None THEN "audit" ELSE "complete")
  /\ UNCHANGED <<record, response, counter, faults, bound,
                 conflicts, refused, replays>>

Rejects(w) ==
  /\ At(w, "run")
  /\ GoesTo(w, "fail")
  /\ UNCHANGED <<record, response, counter, faults, bound,
                 runs, conflicts, refused, replays>>

Stored(r) == r

(* completeIdempotentActionWithResponse, its two statements. *)
Complete(w) ==
  /\ At(w, "complete")
  /\ record' = [record EXCEPT ![Key(w)].status = "completed"]
  /\ GoesTo(w, "respond")
  /\ UNCHANGED <<response, counter, faults, bound,
                 runs, conflicts, refused, replays>>

Respond(w) ==
  /\ At(w, "respond")
  /\ response' = [response EXCEPT ![Key(w)] = Stored(worker[w].req)]
  /\ GoesTo(w, "audit")
  /\ UNCHANGED <<record, counter, faults, bound,
                 runs, conflicts, refused, replays>>

(* auditInternalMutation, after which the route answers. *)
Audit(w) ==
  /\ At(w, "audit")
  /\ Ends(w)
  /\ UNCHANGED <<record, response, counter, faults, bound,
                 runs, conflicts, refused, replays>>

StatusAfterFailure(status) == "failed"

(* failSecurityDecision, whatever the record's status; the error is thrown   *)
(* again.                                                                    *)
Fail(w) ==
  /\ At(w, "fail")
  /\ record' = IF Key(w) = None THEN record
               ELSE [record EXCEPT ![Key(w)].status = StatusAfterFailure(@)]
  /\ Ends(w)
  /\ UNCHANGED <<response, counter, faults, bound,
                 runs, conflicts, refused, replays>>

-----------------------------------------------------------------------------
(* A statement of the try block throws, before or after it took effect: a    *)
(* statement that took effect and threw is its step and then this one.  The  *)
(* insert of the audit row throws also without an outage, when another       *)
(* mutation of the same kind by any user is audited in the same millisecond: *)
(* its primary key is made of the two.                                       *)
Fault == faults < bound.faults /\ faults' = faults + 1

Throws(w) ==
  /\ worker[w].pc \in {"run", "complete", "respond", "audit"}
  /\ Fault
  /\ GoesTo(w, "fail")
  /\ UNCHANGED <<record, response, counter, bound,
                 runs, conflicts, refused, replays>>

(* The process dies, or a statement outside of the try block throws. *)
Crash(w) ==
  /\ worker[w] # Idle
  /\ Fault
  /\ Ends(w)
  /\ UNCHANGED <<record, response, counter, bound,
                 runs, conflicts, refused, replays>>

(* What a worker does by itself once a request came, the mutation left out. *)
Around(w) ==
  Insert(w) \/ Restart(w) \/ Replay(w) \/ Limit(w) \/ Count(w)
    \/ Complete(w) \/ Respond(w) \/ Audit(w) \/ Fail(w)

GuardNext ==
  \E w \in Workers :
    \/ \E r \in bound.requests : Begin(w, r)
    \/ Around(w)
    \/ Commits(w) \/ Rejects(w)
    \/ Throws(w) \/ Crash(w)

GuardSpec == GuardInit /\ [][GuardNext]_guard
-----------------------------------------------------------------------------
(* Properties *)

Holds(w, k) ==
  /\ worker[w].pc \in {"limit", "count", "run", "fail"}
  /\ Key(w) = k

(* Rows and workers have the shape of the code's records, and what a worker  *)
(* does to a record or a response is done by one that has a key.             *)
TypeOK ==
  /\ record \in [Keys -> [status : {"none", "started", "completed", "failed"},
                         body : Bodies \cup {None}]]
  /\ \A k \in Keys : record[k].status = "none" => record[k].body = None
  /\ response \in [Keys -> Requests \cup {None}]
  /\ counter \in Nat /\ faults \in Nat
  /\ bound \in Bounds
  /\ worker \in [Workers -> {Idle} \cup
       [pc : {"insert", "restart", "replay", "limit", "count", "run",
              "complete", "respond", "audit", "fail"}, req : Requests]]
  /\ \A w \in Workers :
       worker[w].pc \in {"insert", "restart", "replay", "complete", "respond"}
         => Key(w) # None
  /\ runs \in [Keys -> Nat]
  /\ conflicts \in [Keys -> Nat]
  /\ refused \subseteq Keys
  /\ replays \subseteq Requests \X Requests

(* A mutation is done once under a key.  Each further time has a reason of   *)
(* its own: a request that read "no record" before another inserted it, or a  *)
(* fault after the mutation committed that turned the record to failed.       *)
RunsNeedReason == \A k \in Keys : runs[k] <= 1 + conflicts[k] + faults

(* A record that says started, and so answers every retry with 409, has a    *)
(* request that will complete or fail it.  What breaks this is a crash, or   *)
(* the rate limit, which is asked after the record was written.              *)
StartedIsOwned ==
  \A k \in Keys : record[k].status = "started" =>
    \/ \E w \in Workers : Holds(w, k) \/ (At(w, "complete") /\ Key(w) = k)
    \/ faults > 0 \/ k \in refused

(* What is replayed to a request is the response to a mutation that was done  *)
(* under its key, for the same body unless two first requests met.            *)
ReplaysAreRuns ==
  \A p \in replays :
    /\ p[2].key = p[1].key
    /\ runs[p[1].key] > 0
    /\ p[2].body = p[1].body \/ conflicts[p[1].key] > 0

(* A mutation that was done is there to be replayed, or about to be: no retry *)
(* does it again, and none finds it done without its response, but for faults *)
(* and first requests that met.                                               *)
RunsAreReplayable ==
  \A k \in Keys : runs[k] > 0 =>
    \/ \E w \in Workers : worker[w].pc \in {"complete", "respond"} /\ Key(w) = k
    \/ record[k].status = "completed" /\ response[k] # None
    \/ faults > 0 \/ conflicts[k] > 0

(* The limit is read and counted in two statements: the window can be         *)
(* overrun, by fewer requests than are handled at a time.                     *)
WindowOverrun == counter <= bound.max + Cardinality(Workers) - 1

(* A started record does not stay so, but for a crash or the rate limit.      *)
StartedSettles ==
  \A k \in Keys :
    record[k].status = "started" ~>
      record[k].status # "started" \/ faults > 0 \/ k \in refused
=============================================================================
