--------------------------- MODULE OperatorCursor ---------------------------
(***************************************************************************)
(* What the acknowledgement of terminal events promises, without events,   *)
(* receipts or their identities: an outcome of a task is reported, may be  *)
(* shown to an operator, and is closed only after it was shown.  Showing   *)
(* and closing may happen again; nothing is ever reopened.                 *)
(***************************************************************************)
CONSTANT Outcomes

VARIABLES reported, seen, closed

ovars == <<reported, seen, closed>>

Init == reported = {} /\ seen = {} /\ closed = {}

Report(o) == reported' = reported \cup {o} /\ UNCHANGED <<seen, closed>>

Show(o) ==
  o \in reported /\ seen' = seen \cup {o} /\ UNCHANGED <<reported, closed>>

Close(o) ==
  o \in seen /\ closed' = closed \cup {o} /\ UNCHANGED <<reported, seen>>

Next == \E o \in Outcomes : Report(o) \/ Show(o) \/ Close(o)

Spec == Init /\ [][Next]_ovars
=============================================================================
