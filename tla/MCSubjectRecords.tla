-------------------------- MODULE MCSubjectRecords --------------------------
(* Two requests at a time.  Either keys are reused, with two bodies, under   *)
(* faults and a limit that is met; or no keys are sent, and a case, an       *)
(* entry, a position or an action takes any path of its life cycle; or the   *)
(* bodies name another position, or one that does not exist.                 *)
EXTENDS SubjectRecords

CONSTANTS k1, k2, a, b, r1, r2

Of(entity0, op, id, into, status, health) ==
  [entity |-> entity0, op |-> op, id |-> id, into |-> into,
   status |-> status, health |-> health]
Plain == {k \in RouteKinds : k.id = r1 /\ k.into = None}
Adjust == Of("case", "adjust", r1, None, None, None)
CaseKinds == {k \in Plain : k.entity = "case"}
EntryKinds ==
  {k \in Plain : k.entity = "entry" /\ k.op \in {"move", "health"}
                 /\ k.health \in {None, "weakening", "strong"}}
PositionKinds ==
  {k \in Plain : k.entity = "position" /\ k.op = "move" /\ k.health = None}
    \cup {Of("position", "health", r1, None, None, "weakening"),
          Of("position", "health", r1, None, None, "invalidated"),
          Of("position", "move", r1, None, "reducing", "strong"),
          Of("position", "update", r1, None, None, None),
          Of("position", "update", r1, None, "open", "strong")}
ActionKinds ==
  {k \in Plain : k.entity = "action" /\ (k.op = "update" => k.status \in {None, "open"})}
NamingKinds ==
  {Of("position", "update", id, into, None, None) : id \in {r1, r2}, into \in {r1, None}}
    \cup {Of("position", "move", r2, r1, "open", None),
          Of("position", "move", r1, r2, "closed", None),
          Of("position", "health", r1, None, None, "weakening"),
          Of("position", "update", r1, Foreign, None, None)}
MCKinds == CaseKinds \cup EntryKinds \cup PositionKinds \cup ActionKinds \cup NamingKinds

State(status, health) == [status |-> status, health |-> health]
Pair(entity0, first, second) ==
  [entity |-> entity0, rows |-> [i \in Records |-> IF i = r1 THEN first ELSE second]]
Alone(entity0, status, health) ==
  Pair(entity0, State(status, health), State(None, None))
Keyed(k, kind, body) == [key |-> k, kind |-> kind, body |-> body]
Unkeyed(kinds, max, first) ==
  [requests |-> {Keyed(None, kind, a) : kind \in kinds}, max |-> max,
   faults |-> 0, first |-> first]
MCBounds ==
  {[requests |-> {Keyed(k1, Adjust, a), Keyed(k1, Adjust, b),
                  Keyed(k2, Of("case", "move", r1, None, "closed", None), a)},
    max |-> 2, faults |-> 1, first |-> {Alone("case", "executed", None)}],
   Unkeyed(CaseKinds, 3,
     {Alone("case", status, None) : status \in {"draft", "executed"}}),
   Unkeyed(EntryKinds, 2, {Alone("entry", "watching", "stable")}),
   Unkeyed(PositionKinds, 2, {Alone("position", "proposed", "stable")}),
   Unkeyed(ActionKinds \cup {Adjust}, 2, {Alone("action", "open", None)}),
   Unkeyed(NamingKinds, 2,
     {Pair("position", State("open", "stable"), second) :
        second \in {State("proposed", "strong"), State(None, None)}})}
=============================================================================
