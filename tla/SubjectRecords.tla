--------------------------- MODULE SubjectRecords ---------------------------
(***************************************************************************)
(* Records of a subject under the routes of their owner, all of one kind:    *)
(* journal cases, or watchlist entries, positions or action items of the     *)
(* portfolio.  The mutation of RequestGuard is a transaction that loads the  *)
(* record its path names, checks what is asked of it, patches the copy and   *)
(* saves the whole row, with a revision.  It runs under READ COMMITTED and   *)
(* does not lock the row it loaded, so that loading and saving are two       *)
(* steps.  A body that is spread over the copy may name a record itself, and *)
(* the copy is then saved as that one.                                       *)
(*                                                                         *)
(* The content of a record is the set of the revisions merged in it.  What   *)
(* the services ask of other fields (openedAt, an outcome, reviewedAt) the   *)
(* validators of the routes have made sure of, and is left out.              *)
(***************************************************************************)
EXTENDS RequestGuard, Sequences

CONSTANTS
  Records,      \* ids, each of a record of the subject or of none so far
  Foreign       \* the id of a record of another subject
ASSUME RecordsAssumption == None \notin Records /\ Foreign \notin Records

Statuses ==
  [case |-> {"draft", "planned", "executed", "partially_closed", "closed",
             "canceled", "reviewed"},
   entry |-> {"watching", "readiness_pending", "thesis_active", "archived"},
   position |-> {"proposed", "open", "reducing", "closed", "canceled"},
   action |-> {"open", "completed", "dismissed"}]
Entities == DOMAIN Statuses
Healths == {"strong", "stable", "weakening", "invalidated"}

(* The tables of the two life-cycle modules.  The services of the portfolio  *)
(* ask theirs; the case service does not.                                    *)
ALLOWED_TRANSITIONS ==
  [case |->
     [draft |-> {"planned", "canceled"}, planned |-> {"executed", "canceled"},
      executed |-> {"partially_closed", "closed"},
      partially_closed |-> {"closed"}, closed |-> {"reviewed"},
      canceled |-> {"reviewed"}, reviewed |-> {}],
   entry |->
     [watching |-> {"thesis_active", "readiness_pending", "archived"},
      readiness_pending |-> {"thesis_active", "archived"},
      thesis_active |-> {"archived", "readiness_pending"}, archived |-> {}],
   position |->
     [proposed |-> {"open", "canceled"}, open |-> {"reducing", "closed"},
      reducing |-> {"closed"}, closed |-> {}, canceled |-> {}],
   action |->
     [open |-> {"completed", "dismissed"}, completed |-> {}, dismissed |-> {}]]
THESIS_TRANSITIONS ==
  [strong |-> {"stable", "weakening", "invalidated"},
   stable |-> {"strong", "weakening", "invalidated"},
   weakening |-> {"stable", "invalidated"}, invalidated |-> {}]

(* The statuses from which the case service moves a case to each other one.  *)
CaseFrom ==
  [planned |-> {"draft"}, executed |-> {"planned"},
   partially_closed |-> {"executed"}, closed |-> {"executed", "partially_closed"},
   canceled |-> {"draft", "planned"}, reviewed |-> {"closed", "canceled"}]

(* A kind of request: what it does to which record of which entity, with the *)
(* id, the status and the health it puts in the record, or None.  A move and *)
(* a change of health are checked against the record, an adjustment of a     *)
(* case against its status; an update is a PATCH, whose body is spread over  *)
(* the record unchecked, as the body of a position's move to another status  *)
(* than canceled is: the validator of these bodies drops no field that it    *)
(* does not know.  The bodies of a case are mapped field by field.           *)
Asks(entity, op, intos, statuses, healths) ==
  [entity : {entity}, op : {op}, id : Records, into : intos,
   status : statuses, health : healths]
Named == Records \cup {Foreign, None}
RouteKinds ==
  Asks("case", "move", {None}, DOMAIN CaseFrom, {None})
    \cup Asks("case", "adjust", {None}, {None}, {None})
    \cup Asks("entry", "move", {None}, Statuses.entry, {None})
    \cup Asks("entry", "health", {None}, {None}, Healths)
    \cup Asks("entry", "update", Named, Statuses.entry \cup {None}, Healths \cup {None})
    \cup Asks("position", "move", Named, {"open", "reducing", "closed"}, Healths \cup {None})
    \cup Asks("position", "move", {None}, {"canceled"}, {None})
    \cup Asks("position", "health", {None}, {None}, Healths)
    \cup Asks("position", "update", Named, Statuses.position \cup {None}, Healths \cup {None})
    \cup Asks("action", "move", {None}, {"completed", "dismissed"}, {None})
    \cup Asks("action", "update", Named, Statuses.action \cup {None}, {None})
ASSUME KindsAssumption == Kinds \subseteq RouteKinds

HealthsOf(entity) == IF entity \in {"entry", "position"} THEN Healths ELSE {None}

(* A bound of RequestGuard also has the rows there may be at first, of one   *)
(* entity; a row of which the status is None does not exist.                 *)
Absent(r) == r.status = None /\ r.health = None
ASSUME FirstAssumption ==
  \A b \in Bounds : \A f \in b.first : f.entity \in Entities /\ \A i \in Records :
    \/ Absent(f.rows[i])
    \/ /\ f.rows[i].status \in Statuses[f.entity]
       /\ f.rows[i].health \in HealthsOf(f.entity)

VARIABLES
  entity,   \* what the records are; it never changes
  row,      \* per record, its status, health and merged revisions
  history,  \* per record, its revisions in the order they committed: the
            \* request, the state it found and the one it left, and how many
            \* revisions the record it loaded then had
  held      \* per worker, the copy it loaded, or None

vars == <<guard, entity, row, history, held>>
records == <<entity, row, history, held>>

Init ==
  /\ GuardInit
  /\ \E f \in bound.first :
       /\ entity = f.entity
       /\ row = [i \in Records |-> [status |-> f.rows[i].status,
                                    health |-> f.rows[i].health, merged |-> {}]]
  /\ history = [i \in Records |-> <<>>]
  /\ held = [w \in Workers |-> None]

(* The row that is loaded, if it is the one asked for, and what is checked   *)
(* of it.                                                                    *)
MovesTo(from, to) ==
  IF entity = "case" THEN from \in CaseFrom[to]
  ELSE to \in ALLOWED_TRANSITIONS[entity][from]

Unasked(kind, status, health) ==              \* a mutant of Accepts
  kind.entity = entity /\ status # None
Accepts(kind, status, health) ==
  /\ kind.entity = entity /\ status # None
  /\ kind.op = "move" => MovesTo(status, kind.status)
  /\ kind.op = "adjust" => status \in {"executed", "partially_closed"}
  /\ kind.op = "health" => kind.health \in THESIS_TRANSITIONS[health]

Asked(w) == worker[w].req.kind
Loaded(w) == row[Asked(w).id]
Accepted(w) == Accepts(Asked(w), Loaded(w).status, Loaded(w).health)

Load(w) ==
  /\ At(w, "run") /\ held[w] = None
  /\ Accepted(w)
  /\ held' = [held EXCEPT ![w] =
       [status |-> Loaded(w).status, health |-> Loaded(w).health,
        merged |-> Loaded(w).merged, loaded |-> Len(history[Asked(w).id])]]
  /\ UNCHANGED <<guard, entity, row, history>>

Refuse(w) ==
  /\ At(w, "run") /\ held[w] = None
  /\ ~Accepted(w)
  /\ Rejects(w)
  /\ UNCHANGED records

(* A mutant of Patched does not spread the copy it patches. *)
PatchOnly(merged, revision) == {revision}
Patched(merged, revision) == merged \cup {revision}

Patch(value, current) == IF value = None THEN current ELSE value
Target(kind) == Patch(kind.into, kind.id)

(* The patch, the upsert of every column, which makes a row where there is   *)
(* none, and the revision.                                                   *)
Save(w) ==
  /\ At(w, "run") /\ held[w] # None
  /\ LET kind == Asked(w)
         copy == held[w]
         i == Target(kind)
         status == Patch(kind.status, copy.status)
         health == Patch(kind.health, copy.health)
     IN /\ i # Foreign
        /\ row' = [row EXCEPT ![i] =
             [status |-> status, health |-> health,
              merged |-> Patched(copy.merged, <<i, Len(history[i]) + 1>>)]]
        /\ history' = [history EXCEPT ![i] = Append(@,
             [kind |-> kind, from |-> <<copy.status, copy.health>>,
              to |-> <<status, health>>, loaded |-> copy.loaded])]
  /\ Commits(w)
  /\ held' = [held EXCEPT ![w] = None]
  /\ UNCHANGED entity

(* The upsert, and the policy of the table under it, write no row of another *)
(* subject, whether the body names the row or the subject: the service       *)
(* throws.                                                                   *)
Deny(w) ==
  /\ At(w, "run") /\ held[w] # None
  /\ Target(Asked(w)) = Foreign
  /\ Rejects(w)
  /\ held' = [held EXCEPT ![w] = None]
  /\ UNCHANGED <<entity, row, history>>

Next ==
  \E w \in Workers :
    \/ \E r \in bound.requests : Begin(w, r) /\ UNCHANGED records
    \/ Around(w) /\ UNCHANGED records
    \/ Load(w) \/ Refuse(w) \/ Save(w) \/ Deny(w)
    \/ /\ Throws(w) \/ Crash(w)
       /\ held' = [held EXCEPT ![w] = None]
       /\ UNCHANGED <<entity, row, history>>

Spec == Init /\ [][Next]_vars

(* A route's handler runs to its end; clients need not send anything. *)
Works(w) ==
  (Around(w) /\ UNCHANGED records) \/ Load(w) \/ Refuse(w) \/ Save(w) \/ Deny(w)
FairSpec == Spec /\ \A w \in Workers : WF_vars(Works(w))

-----------------------------------------------------------------------------
(* Properties *)

(* A revision moves the status along the table of its entity's life cycle,   *)
(* and the health along its own, but for what a body put there unchecked; it *)
(* found the record as the revision before had left it, or was written from  *)
(* a copy older than that one, or from a copy of another record, by a body   *)
(* that named this one.                                                      *)
HistoryFollowsTable ==
  \A i \in Records : \A n \in DOMAIN history[i] :
    LET e == history[i][n] IN
    /\ \/ e.to[1] = e.from[1]
       \/ e.to[1] \in ALLOWED_TRANSITIONS[entity][e.from[1]]
       \/ e.kind.op = "update"
    /\ \/ e.to[2] = e.from[2]
       \/ e.to[2] \in THESIS_TRANSITIONS[e.from[2]]
       \/ e.kind.op \in {"move", "update"}
    /\ n > 1 => \/ e.from = history[i][n - 1].to
                \/ e.kind.id = i /\ e.loaded < n - 1
                \/ e.kind.id # i /\ e.kind.into = i

(* The content of a revision is lost from its record only to a later one     *)
(* whose request had loaded the record before that revision committed, or    *)
(* had loaded another record and named this one in its body.                 *)
LossNeedsOverlap ==
  \A i \in Records : \A n \in DOMAIN history[i] : <<i, n>> \notin row[i].merged =>
    \E m \in DOMAIN history[i] :
      LET e == history[i][m] IN
      /\ m > n
      /\ \/ e.kind.id = i /\ e.loaded < n
         \/ e.kind.id # i /\ e.kind.into = i

(* docs/journal-domain-core.md:50, "reviewed is terminal". *)
ReviewedIsTerminal ==
  [][\A i \in Records : entity = "case" /\ row[i].status = "reviewed"
       => row'[i].status = "reviewed"]_<<entity, row>>
=============================================================================
