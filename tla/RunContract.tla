---------------------------- MODULE RunContract ----------------------------
(***************************************************************************)
(* What a run promises to the issue and to its caller, without any of the  *)
(* machinery.  A run begins, its engine ends, it may then leave one        *)
(* comment on the issue, and it decides once.  A run that decides ok has   *)
(* not told the issue that it is blocked.  A run may also be lost (its     *)
(* process dies, or it rejects) at any time after it began.                *)
(***************************************************************************)
CONSTANT Runs

VARIABLES
  stage,    \* "new", "running", "over", "decided" or "lost"
  verdict,  \* "none" until the run decides, then "ok" or "failed"
  posted    \* the comments: <<kind, run>>

cvars == <<stage, verdict, posted>>

Init ==
  /\ stage = [r \in Runs |-> "new"]
  /\ verdict = [r \in Runs |-> "none"]
  /\ posted = {}

Move(r, from, to) == stage[r] = from /\ stage' = [stage EXCEPT ![r] = to]

Begin(r)  == Move(r, "new", "running") /\ UNCHANGED <<verdict, posted>>
Finish(r) == Move(r, "running", "over") /\ UNCHANGED <<verdict, posted>>

Comment(r, kind) ==
  /\ stage[r] = "over"
  /\ \A k \in {"done", "block"} : <<k, r>> \notin posted
  /\ posted' = posted \cup {<<kind, r>>}
  /\ UNCHANGED <<stage, verdict>>

Decide(r, v) ==
  /\ Move(r, "over", "decided")
  /\ v = "ok" => <<"block", r>> \notin posted
  /\ verdict' = [verdict EXCEPT ![r] = v]
  /\ UNCHANGED posted

Lose(r) ==
  /\ \/ Move(r, "running", "lost")
     \/ Move(r, "over", "lost")
  /\ UNCHANGED <<verdict, posted>>

Next ==
  \E r \in Runs :
    \/ Begin(r) \/ Finish(r) \/ Lose(r)
    \/ \E kind \in {"done", "block"} : Comment(r, kind)
    \/ \E v \in {"ok", "failed"} : Decide(r, v)

Spec == Init /\ [][Next]_cvars
=============================================================================
