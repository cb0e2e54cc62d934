-------------------------- MODULE MCTerminalCursor --------------------------
EXTENDS TerminalCursor

(* The outputs of a run by its outcome, as RunTask returns them. *)
Base == [ok |-> TRUE, status |-> "completed", timedOut |-> FALSE,
         budget |-> FALSE, pr |-> NoUrl, github |-> NoEvidence]

Opened(u) == [Base EXCEPT !.pr = u, !.github.pr = u, !.github.outcome = "pr"]
Done(u)   == [Base EXCEPT !.github.done = u, !.github.outcome = "done"]
Block(u)  == [Base EXCEPT !.ok = FALSE, !.status = "failed",
                          !.github.block = u, !.github.outcome = "block"]
Late      == [Base EXCEPT !.ok = FALSE, !.status = "timeout", !.timedOut = TRUE,
                          !.github.outcome = "timed_out"]
Stopped   == [Base EXCEPT !.budget = TRUE, !.github.outcome = "budget_limited"]

TwoTasks == {"t1", "t2"}
SomeUrls == {"pull1", "pull2", "comment1", "comment2", NoUrl}

(* One that opens pull requests or runs out of time, and one that is done,  *)
(* blocked or stopped by its budget.                                       *)
SomeOutputs ==
  [t \in Tasks |-> IF t = "t1" THEN {Opened("pull1"), Opened("pull2"), Late}
                   ELSE {Done("comment1"), Block("comment2"), Stopped}]

ItsName == [t \in Tasks |-> t]
InOrder == [t \in Tasks |-> IF t = "t1" THEN 1 ELSE 2]
=============================================================================
