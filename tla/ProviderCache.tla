---------------------------- MODULE ProviderCache ----------------------------
(***************************************************************************)
(* The shared cache of provider answers: ProviderCacheCoordinator, on the  *)
(* scripts of RedisProviderCacheStore, for one cache identity.             *)
(*                                                                         *)
(* A request serves a fresh entry, or competes for the identity's flight.  *)
(* Its winner reads the entry again, renews its token, calls the provider  *)
(* and publishes; the losers wait for the entry, for the marker that tells *)
(* of a failure, or for their deadline.  A stale entry answers in place of *)
(* a failure.  With the policy evaluation_no_store nothing is stored, and  *)
(* the marker tells of a success too.                                      *)
(*                                                                         *)
(* Each script and each await is one step, and each call of the store may  *)
(* throw, before or after Redis did what it asked for.  Requests of one    *)
(* process share one execution (the inflight map), so a node runs one at a *)
(* time.  Ages are abstract: an entry, a flight and a marker expire at any *)
(* moment, the flight of a healthy owner as well, since its heartbeats may *)
(* come late.  Clocks agree, so a copy in L1 is fresh as long as the entry.*)
(***************************************************************************)

CONSTANTS
  Nodes,      \* the processes that ask for the identity
  Orphan      \* a token whose execution is over

ASSUME OrphanAssumption == Orphan \notin Nodes /\ "none" \notin Nodes \cup {Orphan}

VARIABLES
  noStore,    \* policy.payloadStorageMode = 'evaluation_no_store'
  entry,      \* the cache key: "none", "fresh" or "stale"
  flight,     \* the flight key: whose token, or "none"
  marker,     \* the completion key: "none", "failure" or "success"
  l1,         \* the nodes whose ProviderL1Cache has the fresh entry
  pc,         \* per node, the await its execution is at
  candidate,  \* the nodes with hadStaleCandidate
  lost,       \* the nodes whose heartbeat lost the ownership
  failed      \* history: the nodes that met a failure since they began

store == <<entry, flight, marker>>
vars == <<noStore, entry, flight, marker, l1, pc, candidate, lost, failed>>

Resting == {"idle", "stale"}     \* "stale": it answered with a stale entry
Owning == {"calling", "publish", "report", "again"}
Places == Resting \cup Owning \cup
          {"read", "look", "acquire", "reread", "confirm", "wait", "state", "verify"}

TypeOK ==
  /\ noStore \in BOOLEAN
  /\ entry \in {"none", "fresh", "stale"}
  /\ flight \in Nodes \cup {Orphan, "none"}
  /\ marker \in {"none", "failure", "success"}
  /\ pc \in [Nodes -> Places]
  /\ l1 \subseteq Nodes /\ candidate \subseteq Nodes
  /\ lost \subseteq Nodes /\ failed \subseteq Nodes

Init ==
  /\ noStore \in BOOLEAN
  /\ entry \in IF noStore THEN {"none"} ELSE {"none", "fresh", "stale"}
  /\ flight = "none" /\ marker = "none"
  /\ l1 = {} /\ candidate = {} /\ lost = {} /\ failed = {}
  /\ pc = [n \in Nodes |-> "idle"]

-----------------------------------------------------------------------------
Head == IF noStore THEN "look" ELSE "acquire"     \* of the waiting loop

Goto(n, p) == pc' = [pc EXCEPT ![n] = p]

(* hadStaleCandidate = read.state === 'STALE_BUT_ELIGIBLE' *)
Seen(n) == IF entry = "stale" THEN candidate \cup {n} ELSE candidate \ {n}

Active == {n \in Nodes : pc[n] \notin Resting}

(* failureOrStale: with a candidate, and if the gate's authorizer agrees   *)
(* to the reason, the entry is read once more.                             *)
FailureOrStale(n) ==
  \/ n \in candidate /\ Goto(n, "verify")
  \/ Goto(n, "idle")

(* For a reason of its own: the store threw, or n lost the flight. *)
Fails(n) ==
  /\ FailureOrStale(n)
  /\ failed' = failed \cup {n}

(* execute, with a new token; a hit in L1 changes nothing. *)
Begin(n) ==
  /\ pc[n] \in Resting
  /\ n \notin l1
  /\ flight' = IF flight = n THEN Orphan ELSE flight
  /\ Goto(n, IF noStore THEN "look" ELSE "read")
  /\ candidate' = candidate \ {n}
  /\ lost' = lost \ {n}
  /\ failed' = failed \ {n}
  /\ UNCHANGED <<noStore, entry, marker, l1>>

(* A read that finds the entry fresh ends the execution. *)
Serve(n) ==
  /\ entry = "fresh"
  /\ l1' = l1 \cup {n}
  /\ Goto(n, "idle")
  /\ UNCHANGED candidate

Misses(n, next) ==
  /\ entry # "fresh"
  /\ candidate' = Seen(n)
  /\ Goto(n, next)
  /\ UNCHANGED l1

Read(n) ==
  /\ pc[n] = "read"
  /\ Serve(n) \/ Misses(n, Head)
  /\ UNCHANGED <<noStore, store, lost, failed>>

ReadThrows(n) ==
  /\ pc[n] = "read"
  /\ Goto(n, "idle")
  /\ UNCHANGED <<noStore, store, l1, candidate, lost, failed>>

(* A mutant of GiveUp: no deadline as long as somebody has the flight. *)
GiveUpOnFreeFlight(n) ==
  /\ pc[n] = Head /\ flight = "none"
  /\ Goto(n, "idle")
  /\ UNCHANGED <<noStore, store, l1, candidate, lost, failed>>

(* The follower's deadline, looked at on each turn of the loop: it is no   *)
(* evidence of a failure, and brings no stale answer.                      *)
GiveUp(n) ==
  /\ pc[n] = Head
  /\ Goto(n, "idle")
  /\ UNCHANGED <<noStore, store, l1, candidate, lost, failed>>

(* Without a store, the marker of a success is looked for first. *)
Look(n) ==
  /\ pc[n] = "look"
  /\ Goto(n, IF marker = "success" THEN "idle" ELSE "acquire")
  /\ UNCHANGED <<noStore, store, l1, candidate, lost, failed>>

AcquiredKeepingMarker(n) ==    \* a mutant of Acquired: no DEL
  flight = "none" /\ flight' = n /\ UNCHANGED marker

(* ACQUIRE: SET the flight unless it exists, DEL the marker. *)
Acquired(n) ==
  /\ flight = "none"
  /\ flight' = n
  /\ marker' = "none"

Acquire(n) ==
  /\ pc[n] = "acquire"
  /\ \/ Acquired(n) /\ Goto(n, IF noStore THEN "confirm" ELSE "reread")
     \/ flight # "none" /\ Goto(n, "wait") /\ UNCHANGED <<flight, marker>>
  /\ UNCHANGED <<noStore, entry, l1, candidate, lost, failed>>

LookOrAcquireThrows(n) ==
  /\ pc[n] \in {"look", "acquire"}
  /\ Fails(n)
  /\ \/ pc[n] = "acquire" /\ Acquired(n)
     \/ UNCHANGED <<flight, marker>>
  /\ UNCHANGED <<noStore, entry, l1, candidate, lost>>

(* RELEASE, whose failure is ignored *)
Release(n) == flight' \in {flight, IF flight = n THEN "none" ELSE flight}

(* A mutant of Reread: the first read is trusted. *)
RereadSkipped(n) ==
  /\ pc[n] = "reread"
  /\ Goto(n, "confirm")
  /\ UNCHANGED <<noStore, store, l1, candidate, lost, failed>>

(* The read after the acquisition: the previous owner may have published   *)
(* between this request's first read and its ACQUIRE.                      *)
Reread(n) ==
  /\ pc[n] = "reread"
  /\ \/ Serve(n) /\ Release(n)
     \/ Misses(n, "confirm") /\ UNCHANGED flight
  /\ UNCHANGED <<noStore, entry, marker, lost, failed>>

RereadThrows(n) ==
  /\ pc[n] = "reread"
  /\ Release(n)
  /\ Fails(n)
  /\ UNCHANGED <<noStore, entry, marker, l1, candidate, lost>>

(* RENEW: the token must still be there when the provider is called. *)
Confirm(n) ==
  /\ pc[n] = "confirm"
  /\ \/ flight = n /\ Goto(n, "calling") /\ UNCHANGED failed
     \/ flight # n /\ Fails(n)
  /\ UNCHANGED <<noStore, store, l1, candidate, lost>>

ConfirmThrows(n) ==
  /\ pc[n] = "confirm"
  /\ Fails(n)
  /\ UNCHANGED <<noStore, store, l1, candidate, lost>>

-----------------------------------------------------------------------------
(* A heartbeat that finds another token, or throws, aborts the call. *)
HeartbeatFails(n) ==
  /\ pc[n] \in Owning
  /\ lost' = lost \cup {n}
  /\ UNCHANGED <<noStore, store, l1, pc, candidate, failed>>

(* The call ends: with a valid and settled answer, with another one, or    *)
(* with an exception. An owner that knows of its loss publishes nothing.   *)
Answered(n) ==
  /\ pc[n] = "calling"
  /\ \/ /\ n \notin lost
        /\ \E p \in {"publish", "report", "again"} : Goto(n, p)
        /\ UNCHANGED failed
     \/ n \in lost /\ Fails(n)
  /\ UNCHANGED <<noStore, store, l1, candidate, lost>>

SomebodyHolds(n) == flight # "none"      \* a mutant of Holds
Holds(n) == flight = n       \* the scripts compare the token

(* SUCCESS, and SUCCESS_NO_STORE *)
Stored(n) ==
  /\ Holds(n)
  /\ flight' = "none"
  /\ entry' = IF noStore THEN "none" ELSE "fresh"
  /\ marker' = IF noStore THEN "success" ELSE "none"

(* FAILURE, and SUCCESS for an entry that is too large *)
Marked(n) ==
  /\ Holds(n)
  /\ flight' = "none"
  /\ marker' = "failure"
  /\ failed' = failed \cup Active
  /\ UNCHANGED entry

(* The script finds another token, or does not run. *)
Unmarked(n) ==
  /\ failed' = failed \cup {n}
  /\ UNCHANGED store

Publish(n) ==
  /\ pc[n] = "publish"
  /\ \/ /\ Stored(n) /\ UNCHANGED failed
        /\ Goto(n, "idle")
        /\ l1' = IF noStore THEN l1 ELSE l1 \cup {n}
     \/ /\ (~noStore /\ Marked(n)) \/ (~Holds(n) /\ Unmarked(n))
        /\ FailureOrStale(n)
        /\ UNCHANGED l1
  /\ UNCHANGED <<noStore, candidate, lost>>

(* The catch reports a failure, unless the owner knows of its loss. *)
Catch(n) ==
  \/ n \notin lost /\ Goto(n, "again")
  \/ n \in lost /\ FailureOrStale(n)

PublishThrows(n) ==
  /\ pc[n] = "publish"
  /\ \/ Stored(n) /\ failed' = failed \cup {n}
     \/ (~noStore /\ Marked(n)) \/ Unmarked(n)
  /\ Catch(n)
  /\ UNCHANGED <<noStore, l1, candidate, lost>>

(* publishFailureAndComplete, whose exception the catch ignores. *)
Report(n) ==
  /\ pc[n] \in {"report", "again"}
  /\ \/ Marked(n) /\ FailureOrStale(n)
     \/ Unmarked(n) /\ (~Holds(n) \/ pc[n] = "again") /\ FailureOrStale(n)
     \/ pc[n] = "report" /\ (Marked(n) \/ Unmarked(n)) /\ Catch(n)
  /\ UNCHANGED <<noStore, l1, candidate, lost>>

(* verifiedStale: the candidate must still be there, and be stale. *)
Verify(n) ==
  /\ pc[n] = "verify"
  /\ (entry = "stale" /\ Goto(n, "stale")) \/ Goto(n, "idle")
  /\ UNCHANGED <<noStore, store, l1, candidate, lost, failed>>

-----------------------------------------------------------------------------
(* The follower waits, reads the entry, then the flight's state. *)
Wait(n) ==
  /\ pc[n] = "wait"
  /\ IF noStore THEN Goto(n, "state") /\ UNCHANGED <<l1, candidate>>
     ELSE Serve(n) \/ Misses(n, "state")
  /\ UNCHANGED <<noStore, store, lost, failed>>

ReadState(n) ==
  /\ pc[n] = "state"
  /\ \/ marker = "failure" /\ FailureOrStale(n)
     \/ marker = "success" /\ Goto(n, "idle")
     \/ marker = "none" /\ Goto(n, Head)
  /\ UNCHANGED <<noStore, store, l1, candidate, lost, failed>>

WaitThrows(n) ==
  /\ pc[n] \in {"wait", "state"}
  /\ Fails(n)
  /\ UNCHANGED <<noStore, store, l1, candidate, lost>>

(* The process of n stops, and its L1 is gone. *)
Stop(n) ==
  /\ Goto(n, "idle")
  /\ l1' = l1 \ {n}
  /\ UNCHANGED <<noStore, store, candidate, lost, failed>>

(* Redis expires keys. *)
FlightLapses ==
  /\ flight' = "none"
  /\ UNCHANGED <<noStore, entry, marker, l1, pc, candidate, lost, failed>>

MarkerExpires ==
  /\ marker' = "none"
  /\ UNCHANGED <<noStore, entry, flight, l1, pc, candidate, lost, failed>>

EntryAges ==
  /\ \/ entry = "fresh" /\ entry' \in {"stale", "none"}
     \/ entry = "stale" /\ entry' = "none"
  /\ l1' = {}
  /\ UNCHANGED <<noStore, flight, marker, pc, candidate, lost, failed>>

-----------------------------------------------------------------------------
Step(n) ==
  \/ Read(n) \/ ReadThrows(n)
  \/ GiveUp(n) \/ Look(n) \/ Acquire(n) \/ LookOrAcquireThrows(n)
  \/ Reread(n) \/ RereadThrows(n) \/ Confirm(n) \/ ConfirmThrows(n)
  \/ Answered(n) \/ Publish(n) \/ PublishThrows(n) \/ Report(n) \/ Verify(n)
  \/ Wait(n) \/ ReadState(n) \/ WaitThrows(n)

Next ==
  \/ \E n \in Nodes : Begin(n) \/ Step(n) \/ HeartbeatFails(n) \/ Stop(n)
  \/ FlightLapses \/ MarkerExpires \/ EntryAges

Spec == Init /\ [][Next]_vars

(* Awaits return: the store's calls are bounded, and so is the provider's. *)
(* The deadline of a follower comes while it is in the loop.               *)
FairSpec == Spec /\ \A n \in Nodes : WF_vars(Step(n)) /\ SF_vars(GiveUp(n))

-----------------------------------------------------------------------------
(* An owner that still holds the flight calls the provider for an entry    *)
(* that is not fresh: nobody fetches what another owner has published.     *)
OwnersFetchWhatIsMissing ==
  \A n \in Nodes : pc[n] \in {"confirm"} \cup Owning /\ flight = n => entry # "fresh"

(* A stale entry is served as stale only while it is, and only to a        *)
(* request that met a failure since it began: a marker of an older failure *)
(* never excuses it.                                                       *)
StaleIsExcused ==
  [][\A n \in Nodes : pc'[n] = "stale" /\ pc[n] # "stale"
       => entry = "stale" /\ n \in failed]_vars

(* An owner that lost the flight while it waited for the provider touches  *)
(* nothing of the next one's: as long as n has it, only n publishes, tells *)
(* of a failure or gives it back, and otherwise keys only expire.          *)
FlightIsFenced ==
  [][\A n \in Nodes : flight = n /\ pc'[n] = pc[n] =>
       /\ flight' = n \/ (flight' = "none" /\ UNCHANGED <<entry, marker, pc>>)
       /\ entry' = "fresh" => entry = "fresh"
       /\ marker' = "none"]_vars

(* Every request is answered, whatever becomes of the owner it waits for.  *)
EveryRequestIsAnswered ==
  \A n \in Nodes : pc[n] \notin Resting ~> pc[n] \in Resting
=============================================================================
