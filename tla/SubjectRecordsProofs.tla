------------------------ MODULE SubjectRecordsProofs ------------------------
(* Proofs about SubjectRecords: its steps are steps of the guard, so that    *)
(* what RequestGuardProofs shows of the guard holds of the routes of a       *)
(* record; and what the revisions of a record say of its row, for any number *)
(* of requests and records.                                                  *)
EXTENDS SubjectRecords, RequestGuardProofs

LEMMA StepIsGuarded == [Next]_vars => [GuardNext]_guard
<1> SUFFICES ASSUME [Next]_vars PROVE [GuardNext]_guard
  OBVIOUS
<1>1. CASE UNCHANGED vars
  BY <1>1 DEF vars
<1>2. CASE Next
  <2>1. PICK w \in Workers :
          \/ \E r \in bound.requests : Begin(w, r)
          \/ Around(w) \/ Load(w) \/ Refuse(w) \/ Save(w) \/ Deny(w)
          \/ Throws(w) \/ Crash(w)
    BY <1>2 DEF Next
  <2>2. Load(w) => UNCHANGED guard
    BY DEF Load
  <2>3. Refuse(w) => Rejects(w)
    BY DEF Refuse
  <2>4. (Save(w) => Commits(w)) /\ (Deny(w) => Rejects(w))
    BY DEF Save, Deny
  <2> QED
    BY <2>1, <2>2, <2>3, <2>4 DEF GuardNext
<1> QED
  BY <1>1, <1>2

(* A record's routes are routes of the guard: each step of theirs is a step  *)
(* of it, or does not touch its rows and workers.                            *)
THEOREM GuardsRoutes == Spec => GuardSpec
<1>1. Init => GuardInit
  BY DEF Init
<1> QED
  BY <1>1, StepIsGuarded, PTL DEF Spec, GuardSpec

(* What the guard promises of idempotency, replay and the rate limit holds   *)
(* around the life cycle of a record.                                        *)
THEOREM RecordRoutesGuarded ==
  Spec => [](TypeOK /\ RunsNeedReason /\ StartedIsOwned /\ ReplaysAreRuns
               /\ RunsAreReplayable /\ WindowOverrun)
BY GuardsRoutes, TypeCorrect, RunsHaveReasons, StartedAreOwned,
   ReplaysAreHonest, RunsCanBeReplayed, WindowHolds, PTL

-----------------------------------------------------------------------------
(* The revisions and the copies *)

AnyStatus == {None} \cup UNION {Statuses[e] : e \in Entities}
AnyHealth == Healths \cup {None}
Revisions == [kind : Kinds, from : AnyStatus \X AnyHealth,
              to : AnyStatus \X AnyHealth, loaded : Nat]
Contents == SUBSET (Records \X Nat)
Rows == [status : AnyStatus, health : AnyHealth, merged : Contents]
Copies == [status : AnyStatus, health : AnyHealth, merged : Contents, loaded : Nat]

RecordTypes ==
  /\ row \in [Records -> Rows]
  /\ history \in [Records -> Seq(Revisions)]
  /\ held \in [Workers -> Copies \cup {None}]

(* A revision of i was written from another record, by a body that named i,  *)
(* or from a copy of i with less than n revisions.                           *)
Elsewhere(i, e) == e.kind.id # i /\ e.kind.into = i
Overlaps(i, e, n) == (e.kind.id = i /\ e.loaded < n) \/ Elsewhere(i, e)

(* What the content m lacks of the first n revisions of i went to a later    *)
(* one of them.                                                              *)
Accounted(i, h, m, n) ==
  \A k \in 1..n : <<i, k>> \notin m =>
    \E j \in 1..n : j > k /\ Overlaps(i, h[j], k)

(* A copy is the record as it was after the revisions there were when it was *)
(* loaded, and is what its request asks for.                                 *)
CopyOf(h, copy, kind) ==
  /\ copy.loaded \in 0..Len(h)
  /\ copy.loaded > 0 => <<copy.status, copy.health>> = h[copy.loaded].to
  /\ Accepts(kind, copy.status, copy.health)
  /\ Accounted(kind.id, h, copy.merged, copy.loaded)

Moved(e) ==
  /\ \/ e.to[1] = e.from[1]
     \/ e.to[1] \in ALLOWED_TRANSITIONS[entity][e.from[1]]
     \/ e.kind.op = "update"
  /\ \/ e.to[2] = e.from[2]
     \/ e.to[2] \in THESIS_TRANSITIONS[e.from[2]]
     \/ e.kind.op \in {"move", "update"}

RevisionFollows(i, h, n) ==
  /\ Moved(h[n])
  /\ n > 1 => h[n].from = h[n - 1].to \/ Overlaps(i, h[n], n - 1)

(* What holds of one record: its row is what its last revision left.         *)
Follows(i, r, h) ==
  /\ Len(h) > 0 => <<r.status, r.health>> = h[Len(h)].to
  /\ Accounted(i, h, r.merged, Len(h))
  /\ \A n \in 1..Len(h) : RevisionFollows(i, h, n)

RecordInv ==
  /\ RecordTypes
  /\ \A i \in Records : Follows(i, row[i], history[i])
  /\ \A w \in Workers : held[w] # None =>
       At(w, "run") /\ CopyOf(history[Asked(w).id], held[w], Asked(w))

LEMMA RecordInit == Init => RecordInv
<1> SUFFICES ASSUME Init PROVE RecordInv
  OBVIOUS
<1>1. bound \in Bounds
  BY DEF Init, GuardInit
<1>2. PICK f \in bound.first :
        row = [i \in Records |-> [status |-> f.rows[i].status,
                                  health |-> f.rows[i].health, merged |-> {}]]
  BY DEF Init
<1>3. ASSUME NEW i \in Records
      PROVE  f.rows[i].status \in AnyStatus /\ f.rows[i].health \in AnyHealth
  <2>1. /\ f.entity \in Entities
        /\ \/ Absent(f.rows[i])
           \/ /\ f.rows[i].status \in Statuses[f.entity]
              /\ f.rows[i].health \in HealthsOf(f.entity)
    BY <1>1, <1>2, FirstAssumption
  <2> QED
    BY <2>1 DEF AnyStatus, AnyHealth, HealthsOf, Absent
<1>4. row \in [Records -> Rows] /\ \A i \in Records : row[i].merged = {}
  BY <1>2, <1>3 DEF Rows, Contents
<1>5. history = [i \in Records |-> <<>>] /\ held = [w \in Workers |-> None]
  BY DEF Init
<1>6. \A i \in Records : history[i] = <<>> /\ Len(history[i]) = 0
  BY <1>5
<1>7. RecordTypes
  BY <1>4, <1>5 DEF RecordTypes
<1>8. \A i \in Records : Follows(i, row[i], history[i])
  BY <1>6 DEF Follows, Accounted
<1> QED
  BY <1>5, <1>7, <1>8 DEF RecordInv

(* What the kinds of requests put in a record. *)
KindFact(k) ==
  /\ k.id \in Records /\ k.into \in Records \cup {Foreign, None}
  /\ k.status \in AnyStatus /\ k.health \in AnyHealth
  /\ k.op \in {"move", "adjust", "health", "update"}
  /\ k.op = "move" /\ k.entity = "case" => k.status \in DOMAIN CaseFrom
  /\ k.op \in {"adjust", "health"} => k.status = None
  /\ k.op = "adjust" => k.health = None

LEMMA KindFacts == \A k \in Kinds : KindFact(k)
<1>1. Entities = {"case", "entry", "position", "action"}
  BY DEF Entities, Statuses
<1>2. \A e \in Entities : Statuses[e] \subseteq AnyStatus
  BY DEF AnyStatus
<1>3. DOMAIN CaseFrom \subseteq Statuses["case"]
  BY DEF CaseFrom, Statuses
<1>4. /\ {"completed", "dismissed"} \subseteq Statuses["action"]
      /\ {"open", "reducing", "closed"} \subseteq Statuses["position"]
      /\ {"canceled"} \subseteq Statuses["position"]
  BY DEF Statuses
<1>5. None \in AnyStatus /\ None \in AnyHealth /\ Healths \subseteq AnyHealth
  BY DEF AnyStatus, AnyHealth
<1>6. ASSUME NEW e \in {"entry", "position", "action"}, NEW S \in SUBSET AnyStatus,
             NEW H \in SUBSET AnyHealth, NEW N \in SUBSET Named,
             NEW o \in {"move", "update"}
      PROVE  \A k \in Asks(e, o, N, S, H) : KindFact(k)
  BY <1>6 DEF Asks, KindFact, Named
<1>7. \A k \in Asks("case", "move", {None}, DOMAIN CaseFrom, {None}) : KindFact(k)
  BY <1>1, <1>2, <1>3, <1>5 DEF Asks, KindFact
<1>8. \A k \in Asks("case", "adjust", {None}, {None}, {None}) : KindFact(k)
  BY <1>5 DEF Asks, KindFact
<1>9. ASSUME NEW e \in {"entry", "position"}
      PROVE  \A k \in Asks(e, "health", {None}, {None}, Healths) : KindFact(k)
  BY <1>5, <1>9 DEF Asks, KindFact
<1>10. {None} \subseteq Named /\ Healths \cup {None} \subseteq AnyHealth
  BY DEF Named, AnyHealth
<1>11. /\ \A k \in Asks("entry", "move", {None}, Statuses.entry, {None}) : KindFact(k)
       /\ \A k \in Asks("entry", "update", Named, Statuses.entry \cup {None},
                        Healths \cup {None}) : KindFact(k)
  BY <1>1, <1>2, <1>5, <1>6, <1>10
<1>12. /\ \A k \in Asks("position", "move", Named, {"open", "reducing", "closed"},
                        Healths \cup {None}) : KindFact(k)
       /\ \A k \in Asks("position", "move", {None}, {"canceled"}, {None}) : KindFact(k)
       /\ \A k \in Asks("position", "update", Named, Statuses.position \cup {None},
                        Healths \cup {None}) : KindFact(k)
  BY <1>1, <1>2, <1>4, <1>5, <1>6, <1>10
<1>13. /\ \A k \in Asks("action", "move", {None}, {"completed", "dismissed"}, {None}) :
            KindFact(k)
       /\ \A k \in Asks("action", "update", Named, Statuses.action \cup {None}, {None}) :
            KindFact(k)
  BY <1>1, <1>2, <1>4, <1>5, <1>6, <1>10
<1> QED
  BY <1>7, <1>8, <1>9, <1>11, <1>12, <1>13, KindsAssumption DEF RouteKinds

(* What the case service accepts is in the table of the life cycle. *)
LEMMA CaseMoves ==
  ASSUME NEW t \in DOMAIN CaseFrom, NEW s \in CaseFrom[t]
  PROVE  t \in ALLOWED_TRANSITIONS["case"][s]
<1>1. t \in {"planned", "executed", "partially_closed", "closed", "canceled", "reviewed"}
  BY DEF CaseFrom
<1>2. CASE t = "planned" \/ t = "executed"
  BY <1>2 DEF CaseFrom, ALLOWED_TRANSITIONS
<1>3. CASE t = "partially_closed" \/ t = "closed"
  BY <1>3 DEF CaseFrom, ALLOWED_TRANSITIONS
<1>4. CASE t = "canceled" \/ t = "reviewed"
  BY <1>4 DEF CaseFrom, ALLOWED_TRANSITIONS
<1> QED
  BY <1>1, <1>2, <1>3, <1>4

(* An accepted request moves a record as the tables say, but for a body.     *)
LEMMA AcceptedMoves ==
  ASSUME NEW kind \in Kinds, NEW s \in AnyStatus, NEW h \in AnyHealth,
         Accepts(kind, s, h), NEW e, e.kind = kind, e.from = <<s, h>>,
         e.to = <<Patch(kind.status, s), Patch(kind.health, h)>>
  PROVE  /\ Patch(kind.status, s) \in AnyStatus
         /\ Patch(kind.health, h) \in AnyHealth
         /\ Moved(e)
<1>1. /\ e.from[1] = s /\ e.from[2] = h
      /\ e.to[1] = Patch(kind.status, s) /\ e.to[2] = Patch(kind.health, h)
  OBVIOUS
<1>2. kind.entity = entity /\ KindFact(kind)
  BY KindFacts DEF Accepts
<1>3. \/ Patch(kind.status, s) = s
      \/ Patch(kind.status, s) \in ALLOWED_TRANSITIONS[entity][s]
      \/ kind.op = "update"
  <2>1. CASE kind.op = "move" /\ entity = "case"
    <3>1. kind.status \in DOMAIN CaseFrom /\ s \in CaseFrom[kind.status]
      BY <2>1, <1>2 DEF Accepts, MovesTo, KindFact
    <3> QED
      BY <3>1, <2>1, CaseMoves DEF Patch
  <2>2. CASE kind.op = "move" /\ entity # "case"
    BY <2>2 DEF Accepts, MovesTo, Patch
  <2>3. CASE kind.op \in {"adjust", "health"}
    BY <2>3, <1>2 DEF Patch, KindFact
  <2> QED
    BY <2>1, <2>2, <2>3, <1>2 DEF KindFact
<1>4. \/ Patch(kind.health, h) = h
      \/ Patch(kind.health, h) \in THESIS_TRANSITIONS[h]
      \/ kind.op \in {"move", "update"}
  <2>1. CASE kind.op = "health"
    BY <2>1 DEF Accepts, Patch
  <2>2. CASE kind.op = "adjust"
    BY <2>2, <1>2 DEF Patch, KindFact
  <2> QED
    BY <2>1, <2>2, <1>2 DEF KindFact
<1>5. Patch(kind.status, s) \in AnyStatus /\ Patch(kind.health, h) \in AnyHealth
  BY <1>2 DEF Patch, KindFact
<1> QED
  BY <1>1, <1>3, <1>4, <1>5 DEF Moved

(* The steps of the guard other than a commit leave the workers in the       *)
(* mutation where they are, but for the one that takes the step.             *)
LEMMA OthersKeepRunning ==
  ASSUME TypeOK, NEW w \in Workers, NEW v \in Workers, v # w,
         \/ \E r \in bound.requests : Begin(w, r)
         \/ Around(w) \/ Rejects(w) \/ Commits(w) \/ Throws(w) \/ Crash(w)
  PROVE  worker'[v] = worker[v]
<1>1. worker \in [Workers -> WorkerType]
  BY WorkerFacts
<1> QED
  BY <1>1 DEF Begin, Around, Insert, Restart, Replay, Limit, Count, Complete,
     Respond, Audit, Fail, Rejects, Commits, Throws, Crash, GoesTo, Ends

(* A revision is appended: those before it, and what they account for, stay. *)
LEMMA Appended ==
  ASSUME NEW h \in Seq(Revisions), NEW e \in Revisions, NEW g, g = Append(h, e)
  PROVE  /\ Len(g) = Len(h) + 1 /\ Len(h) \in Nat
         /\ g[Len(h) + 1] = e
         /\ \A n \in 1..Len(h) : g[n] = h[n]
         /\ g \in Seq(Revisions)
OBVIOUS

(* A copy of a record stays one when a revision is added to the record. *)
LEMMA CopyStays ==
  ASSUME NEW h \in Seq(Revisions), NEW e \in Revisions, NEW copy, NEW kind,
         CopyOf(h, copy, kind)
  PROVE  CopyOf(Append(h, e), copy, kind)
<1> DEFINE g == Append(h, e)
<1>1. /\ Len(g) = Len(h) + 1 /\ Len(h) \in Nat
      /\ \A n \in 1..Len(h) : g[n] = h[n]
  BY Appended
<1> HIDE DEF g
<1>2. copy.loaded \in 0..Len(h)
  BY DEF CopyOf
<1>3. /\ copy.loaded \in 0..Len(g)
      /\ \A n \in 1..copy.loaded : g[n] = h[n]
      /\ copy.loaded > 0 => copy.loaded \in 1..copy.loaded
  BY <1>1, <1>2
<1>4. Accounted(kind.id, g, copy.merged, copy.loaded)
  BY <1>3 DEF CopyOf, Accounted
<1>5. copy.loaded > 0 => <<copy.status, copy.health>> = g[copy.loaded].to
  BY <1>3 DEF CopyOf
<1>6. CopyOf(g, copy, kind)
  BY <1>3, <1>4, <1>5 DEF CopyOf
<1> QED
  BY <1>6 DEF g

(* A revision that is written from a copy of its own record, or from one of  *)
(* another record by a body that names this one, keeps what holds of the     *)
(* record.                                                                   *)
LEMMA RevisionAdded ==
  ASSUME NEW i \in Records, NEW h \in Seq(Revisions), NEW r, Follows(i, r, h),
         NEW kind, NEW copy \in Copies, CopyOf(h, copy, kind) \/ kind.id # i,
         kind.id # i => kind.into = i,
         NEW e \in Revisions, Moved(e), e.kind = kind, e.loaded = copy.loaded,
         e.from = <<copy.status, copy.health>>,
         NEW q, e.to = <<q.status, q.health>>,
         q.merged = copy.merged \cup {<<i, Len(h) + 1>>}
  PROVE  Follows(i, q, Append(h, e))
<1> DEFINE g == Append(h, e)
           n == Len(h) + 1
<1>1. /\ Len(g) = n /\ n \in Nat /\ Len(h) \in Nat
      /\ g[n] = e
      /\ \A k \in 1..Len(h) : g[k] = h[k]
  BY Appended
<1>2. /\ n \in 1..n
      /\ \A k \in 1..n : k = n \/ k \in 1..Len(h)
      /\ \A k \in 1..Len(h) : k < n /\ k \in 1..n
  BY <1>1
<1>3. copy.loaded \in Nat
  BY DEF Copies
<1> HIDE DEF g
<1>4. ASSUME NEW k \in 1..n, <<i, k>> \notin q.merged
      PROVE  \E j \in 1..n : j > k /\ Overlaps(i, g[j], k)
  <2>1. k \in 1..Len(h) /\ k < n /\ <<i, k>> \notin copy.merged
    BY <1>2, <1>4
  <2>2. CASE kind.id # i
    BY <2>1, <2>2, <1>1, <1>2 DEF Overlaps, Elsewhere
  <2>3. CASE kind.id = i /\ copy.loaded < k
    BY <2>1, <2>3, <1>1, <1>2 DEF Overlaps
  <2>4. CASE kind.id = i /\ k <= copy.loaded
    <3>1. CopyOf(h, copy, kind) /\ k \in 1..copy.loaded
      BY <2>4, <1>3, <1>1, <2>1
    <3>2. PICK j \in 1..copy.loaded : j > k /\ Overlaps(i, h[j], k)
      BY <3>1, <2>1, <2>4 DEF CopyOf, Accounted
    <3>3. j \in 1..Len(h)
      BY <3>1, <1>1 DEF CopyOf
    <3> QED
      BY <3>2, <3>3, <1>1, <1>2
  <2> QED
    BY <2>2, <2>3, <2>4, <2>1, <1>1, <1>3
<1>5. ASSUME NEW k \in 1..n PROVE RevisionFollows(i, g, k)
  <2>1. CASE k = n
    <3>1. ASSUME n > 1
          PROVE  e.from = g[n - 1].to \/ Overlaps(i, e, n - 1)
      <4>1. n - 1 = Len(h) /\ Len(h) \in 1..Len(h) /\ g[n - 1] = h[Len(h)]
        BY <3>1, <1>1
      <4>2. CASE kind.id # i
        BY <4>2 DEF Overlaps, Elsewhere
      <4>3. CASE kind.id = i
        <5>1. CopyOf(h, copy, kind) /\ copy.loaded \in 0..Len(h)
          BY <4>3 DEF CopyOf
        <5>2. CASE copy.loaded < n - 1
          BY <4>3, <5>2 DEF Overlaps
        <5>3. CASE copy.loaded = Len(h)
          <6>1. <<copy.status, copy.health>> = h[copy.loaded].to
            BY <5>1, <5>3, <4>1 DEF CopyOf
          <6> QED
            BY <6>1, <5>3, <4>1
        <5> QED
          BY <5>1, <5>2, <5>3, <4>1, <1>1
      <4> QED
        BY <4>2, <4>3
    <3> QED
      BY <2>1, <3>1, <1>1 DEF RevisionFollows
  <2>2. CASE k # n
    <3>1. k \in 1..Len(h) /\ (k > 1 => k - 1 \in 1..Len(h))
      BY <2>2, <1>1, <1>2
    <3>2. RevisionFollows(i, h, k)
      BY <3>1 DEF Follows
    <3> QED
      BY <3>1, <3>2, <1>1 DEF RevisionFollows
  <2> QED
    BY <2>1, <2>2
<1>6. Accounted(i, g, q.merged, Len(g))
  BY <1>1, <1>4 DEF Accounted
<1>7. <<q.status, q.health>> = g[Len(g)].to
  BY <1>1
<1>8. Follows(i, q, g)
  <2>1. \A k \in 1..Len(g) : RevisionFollows(i, g, k)
    BY <1>1, <1>5
  <2> QED
    BY <2>1, <1>6, <1>7 DEF Follows
<1> QED
  BY <1>8 DEF g

(* The worker that saves writes one revision from the copy it holds. *)
LEMMA SaveStep ==
  ASSUME TypeOK, RecordInv, NEW w \in Workers, Save(w)
  PROVE  RecordInv'
<1> DEFINE kind == Asked(w)
           copy == held[w]
           i == Target(kind)
           status == Patch(kind.status, copy.status)
           health == Patch(kind.health, copy.health)
           q == [status |-> status, health |-> health,
                 merged |-> copy.merged \cup {<<i, Len(history[i]) + 1>>}]
           e == [kind |-> kind, from |-> <<copy.status, copy.health>>,
                 to |-> <<status, health>>, loaded |-> copy.loaded]
<1>1. /\ At(w, "run") /\ Commits(w) /\ copy # None /\ i # Foreign
      /\ row' = [row EXCEPT ![i] = q]
      /\ history' = [history EXCEPT ![i] = Append(@, e)]
      /\ held' = [held EXCEPT ![w] = None]
      /\ entity' = entity
  BY DEF Save, Patched
<1>2. /\ row \in [Records -> Rows] /\ history \in [Records -> Seq(Revisions)]
      /\ held \in [Workers -> Copies \cup {None}]
      /\ CopyOf(history[kind.id], copy, kind)
  BY <1>1 DEF RecordInv, RecordTypes
<1>3. kind \in Kinds
  BY <1>1, WorkerFacts DEF At, Requests, Asked
<1>4. KindFact(kind)
  BY <1>3, KindFacts
<1>5. /\ copy \in Copies
      /\ copy.status \in AnyStatus /\ copy.health \in AnyHealth
      /\ copy.merged \in Contents /\ copy.loaded \in Nat
  BY <1>1, <1>2 DEF Copies
<1>6. /\ e.kind = kind /\ e.from = <<copy.status, copy.health>>
      /\ e.to = <<status, health>> /\ e.loaded = copy.loaded
      /\ q.status = status /\ q.health = health
      /\ q.merged = copy.merged \cup {<<i, Len(history[i]) + 1>>}
  OBVIOUS
<1>7. i \in Records /\ (i # kind.id => kind.into = i)
  BY <1>1, <1>4 DEF Target, Patch, KindFact
<1>8. status \in AnyStatus /\ health \in AnyHealth /\ Moved(e)
  <2>1. Accepts(kind, copy.status, copy.health)
    BY <1>2 DEF CopyOf
  <2> HIDE DEF kind, copy, e
  <2> QED
    BY <2>1, <1>3, <1>5, <1>6, AcceptedMoves
<1> HIDE DEF kind, copy, i, status, health
<1>9. e \in Revisions
  BY <1>3, <1>5, <1>8 DEF Revisions
<1>10. q \in Rows
  <2>1. Len(history[i]) + 1 \in Nat
    BY <1>2, <1>7
  <2>2. copy.merged \cup {<<i, Len(history[i]) + 1>>} \in Contents
    BY <2>1, <1>5, <1>7 DEF Contents
  <2> QED
    BY <2>2, <1>8 DEF Rows
<1> HIDE DEF e, q
<1>11. /\ row'[i] = q /\ history'[i] = Append(history[i], e)
       /\ history[i] \in Seq(Revisions)
       /\ \A j \in Records : j # i => row'[j] = row[j] /\ history'[j] = history[j]
  BY <1>1, <1>2, <1>7
<1>12. RecordTypes'
  <2>1. history' \in [Records -> Seq(Revisions)]
    BY <1>1, <1>2, <1>7, <1>9, <1>11, Appended
  <2> QED
    BY <2>1, <1>1, <1>2, <1>10 DEF RecordTypes
<1>13. \A j \in Records : Follows(j, row[j], history[j])'
  <2>1. ASSUME NEW j \in Records PROVE Follows(j, row'[j], history'[j])
    <3>1. Follows(j, row[j], history[j])
      BY DEF RecordInv
    <3>2. CASE j # i
      BY <3>1, <3>2, <1>11
    <3>3. CASE j = i
      <4>1. Follows(i, row[i], history[i])
        BY <3>1, <3>3
      <4>2. CopyOf(history[i], copy, kind) \/ kind.id # i
        BY <1>2
      <4>3. Follows(i, q, Append(history[i], e))
        BY <4>1, <4>2, <1>5, <1>6, <1>7, <1>8, <1>9, <1>11, RevisionAdded
      <4> QED
        BY <4>3, <3>3, <1>11
    <3> QED
      BY <3>2, <3>3
  <2> QED
    BY <2>1, <1>1 DEF Follows, RevisionFollows, Moved
<1>14. ASSUME NEW v \in Workers, held'[v] # None
       PROVE  (At(v, "run") /\ CopyOf(history[Asked(v).id], held[v], Asked(v)))'
  <2>1. v # w /\ held'[v] = held[v]
    BY <1>1, <1>2, <1>14
  <2>2. worker'[v] = worker[v]
    BY <2>1, <1>1, OthersKeepRunning
  <2>3. /\ At(v, "run") /\ CopyOf(history[Asked(v).id], held[v], Asked(v))
        /\ At(v, "run")' /\ Asked(v)' = Asked(v)
    BY <2>1, <2>2, <1>14 DEF RecordInv, At, Asked
  <2>4. CopyOf(history'[Asked(v).id], held[v], Asked(v))
    <3>1. CASE Asked(v).id # i
      <4>1. Asked(v).id \in Records
        BY <2>3, WorkerFacts, KindFacts DEF At, Requests, Asked, KindFact
      <4> QED
        BY <4>1, <3>1, <2>3, <1>11
    <3>2. CASE Asked(v).id = i
      BY <3>2, <2>3, <1>9, <1>11, CopyStays
    <3> QED
      BY <3>1, <3>2
  <2> QED
    BY <2>1, <2>3, <2>4, <1>1 DEF CopyOf, Accepts, MovesTo
<1> QED
  BY <1>12, <1>13, <1>14 DEF RecordInv

(* The worker that loads the record holds a copy of the row as it is. *)
LEMMA LoadStep ==
  ASSUME TypeOK, RecordInv, NEW w \in Workers, Load(w)
  PROVE  RecordInv'
<1> DEFINE kind == Asked(w)
           copy == [status |-> Loaded(w).status, health |-> Loaded(w).health,
                    merged |-> Loaded(w).merged, loaded |-> Len(history[kind.id])]
<1>1. /\ At(w, "run") /\ Accepts(kind, Loaded(w).status, Loaded(w).health)
      /\ held' = [held EXCEPT ![w] = copy]
      /\ worker' = worker /\ row' = row /\ history' = history /\ entity' = entity
  BY DEF Load, Accepted, guard
<1>2. kind.id \in Records
  BY <1>1, WorkerFacts, KindFacts DEF At, Requests, Asked, KindFact
<1>3. /\ RecordTypes /\ Loaded(w) = row[kind.id] /\ Loaded(w) \in Rows
      /\ history[kind.id] \in Seq(Revisions) /\ Len(history[kind.id]) \in Nat
      /\ Follows(kind.id, Loaded(w), history[kind.id])
  BY <1>2 DEF RecordInv, RecordTypes, Loaded
<1>4. /\ copy.status = Loaded(w).status /\ copy.health = Loaded(w).health
      /\ copy.merged = Loaded(w).merged /\ copy.loaded = Len(history[kind.id])
  OBVIOUS
<1>5. copy \in Copies
  BY <1>3 DEF Copies, Rows
<1> HIDE DEF copy, kind
<1>6. CopyOf(history[kind.id], copy, kind)
  BY <1>1, <1>3, <1>4 DEF CopyOf, Follows
<1>7. RecordTypes'
  BY <1>1, <1>3, <1>5 DEF RecordTypes
<1>8. \A v \in Workers : held'[v] # None =>
        At(v, "run") /\ CopyOf(history[Asked(v).id], held'[v], Asked(v))
  <2> SUFFICES ASSUME NEW v \in Workers, held'[v] # None
               PROVE  At(v, "run") /\ CopyOf(history[Asked(v).id], held'[v], Asked(v))
    OBVIOUS
  <2>1. CASE v = w
    <3>1. held'[v] = copy /\ Asked(v) = kind
      BY <2>1, <1>1, <1>3 DEF RecordTypes, kind
    <3> QED
      BY <2>1, <3>1, <1>1, <1>6
  <2>2. CASE v # w
    <3>1. held'[v] = held[v]
      BY <2>2, <1>1, <1>3 DEF RecordTypes
    <3> QED
      BY <3>1 DEF RecordInv
  <2> QED
    BY <2>1, <2>2
<1>9. \A i \in Records : Follows(i, row[i], history[i])
  BY DEF RecordInv
<1> QED
  BY <1>1, <1>7, <1>8, <1>9 DEF RecordInv, At, Asked, CopyOf, Accepts, MovesTo,
     Follows, RevisionFollows, Moved

(* A step that leaves the row and its revisions, and gives no worker a copy,  *)
(* leaves the workers that hold one in the mutation.                          *)
LEMMA RowStays ==
  ASSUME RecordInv, UNCHANGED <<entity, row, history>>, RecordTypes',
         \A v \in Workers : held'[v] # None =>
           held'[v] = held[v] /\ worker'[v] = worker[v]
  PROVE  RecordInv'
<1>1. \A i \in Records : Follows(i, row[i], history[i])'
  BY DEF RecordInv, Follows, RevisionFollows, Moved
<1>2. ASSUME NEW v \in Workers, held'[v] # None
      PROVE  (At(v, "run") /\ CopyOf(history[Asked(v).id], held[v], Asked(v)))'
  <2>1. At(v, "run") /\ CopyOf(history[Asked(v).id], held[v], Asked(v))
    BY <1>2 DEF RecordInv
  <2> QED
    BY <1>2, <2>1 DEF At, Asked, CopyOf, Accepts, MovesTo
<1> QED
  BY <1>1, <1>2 DEF RecordInv

LEMMA RecordStep == TypeOK /\ RecordInv /\ [Next]_vars => RecordInv'
<1> SUFFICES ASSUME TypeOK, RecordInv, [Next]_vars PROVE RecordInv'
  OBVIOUS
<1>1. RecordTypes
  BY DEF RecordInv
<1>2. CASE UNCHANGED vars
  <2>1. /\ worker' = worker /\ entity' = entity
        /\ row' = row /\ history' = history /\ held' = held
    BY <1>2 DEF vars, guard
  <2> QED
    BY <1>1, <2>1, RowStays DEF RecordTypes
<1>3. ASSUME NEW w \in Workers, UNCHANGED records,
             (\E r \in bound.requests : Begin(w, r)) \/ Around(w) \/ Rejects(w),
             At(w, "run") => held[w] = None
      PROVE  RecordInv'
  <2>1. entity' = entity /\ row' = row /\ history' = history /\ held' = held
    BY <1>3 DEF records
  <2>2. ASSUME NEW v \in Workers, held[v] # None PROVE worker'[v] = worker[v]
    <3>1. At(v, "run") /\ v # w
      BY <2>2, <1>3 DEF RecordInv
    <3> QED
      BY <1>3, <3>1, OthersKeepRunning
  <2> QED
    BY <1>1, <2>1, <2>2, RowStays DEF RecordTypes
<1>4. ASSUME NEW w \in Workers, NEW r \in bound.requests, Begin(w, r), UNCHANGED records
      PROVE  RecordInv'
  <2>1. ~At(w, "run")
    BY <1>4 DEF Begin, At, Idle
  <2> QED
    BY <1>3, <1>4, <2>1
<1>5. ASSUME NEW w \in Workers, Around(w), UNCHANGED records PROVE RecordInv'
  <2>1. ~At(w, "run")
    BY <1>5 DEF Around, At, Insert, Restart, Replay, Limit, Count, Complete,
         Respond, Audit, Fail
  <2> QED
    BY <1>3, <1>5, <2>1
<1>6. ASSUME NEW w \in Workers, Refuse(w) PROVE RecordInv'
  BY <1>3, <1>6 DEF Refuse
<1>7. ASSUME NEW w \in Workers, Throws(w) \/ Crash(w) \/ Rejects(w),
             held' = [held EXCEPT ![w] = None], UNCHANGED <<entity, row, history>>
      PROVE  RecordInv'
  <2>1. RecordTypes'
    BY <1>1, <1>7 DEF RecordTypes
  <2>2. ASSUME NEW v \in Workers, held'[v] # None
        PROVE  held'[v] = held[v] /\ worker'[v] = worker[v]
    <3>1. v # w /\ held'[v] = held[v]
      BY <1>1, <1>7, <2>2 DEF RecordTypes
    <3> QED
      BY <3>1, <1>7, OthersKeepRunning
  <2> QED
    BY <1>7, <2>1, <2>2, RowStays
<1>8. CASE Next
  BY <1>4, <1>5, <1>6, <1>7, <1>8, LoadStep, SaveStep DEF Next, Deny
<1> QED
  BY <1>2, <1>8

LEMMA RecordInvariant == Spec => [](TypeOK /\ RecordInv)
<1>1. Spec => []TypeOK
  BY GuardsRoutes, TypeCorrect, PTL
<1> QED
  BY <1>1, RecordInit, RecordStep, PTL DEF Spec

(* The revisions of a record follow the tables of the life cycles but for an *)
(* unchecked body, and each found the record as it was left, except where    *)
(* one was written from an older copy, or from another record by a body that *)
(* named this one.                                                           *)
THEOREM RevisionsFollowTable == Spec => []HistoryFollowsTable
<1>1. RecordInv => HistoryFollowsTable
  <2> SUFFICES ASSUME RecordInv, NEW i \in Records, NEW n \in DOMAIN history[i]
               PROVE  RevisionFollows(i, history[i], n)
    BY DEF HistoryFollowsTable, RevisionFollows, Moved, Overlaps, Elsewhere
  <2>1. DOMAIN history[i] = 1..Len(history[i])
    BY DEF RecordInv, RecordTypes
  <2> QED
    BY <2>1 DEF RecordInv, Follows
<1> QED
  BY <1>1, RecordInvariant, PTL

(* What a revision put in its record is lost only to a later one that had    *)
(* loaded the record before it committed, or had loaded another record.      *)
THEOREM LossHasOverlap == Spec => []LossNeedsOverlap
<1>1. RecordInv => LossNeedsOverlap
  <2> SUFFICES ASSUME RecordInv, NEW i \in Records, NEW n \in DOMAIN history[i],
                      <<i, n>> \notin row[i].merged
               PROVE  \E m \in DOMAIN history[i] : m > n /\ Overlaps(i, history[i][m], n)
    BY DEF LossNeedsOverlap, Overlaps, Elsewhere
  <2>1. DOMAIN history[i] = 1..Len(history[i])
    BY DEF RecordInv, RecordTypes
  <2> QED
    BY <2>1 DEF RecordInv, Follows, Accounted
<1> QED
  BY <1>1, RecordInvariant, PTL
=============================================================================
