------------------------- MODULE RunTaskRefinement -------------------------
(***************************************************************************)
(* RunTask implements RunContract.  All the stages between the CLI's close *)
(* event and the return of runTask are one stage of the contract; the      *)
(* result counts as a verdict only once it is returned.                    *)
(***************************************************************************)
EXTENDS RunTask

StageOf(h) ==
  CASE h = "idle"     -> "new"
    [] h = "waiting"  -> "running"
    [] h = "returned" -> "decided"
    [] h \in {"rejected", "crashed"} -> "lost"
    [] OTHER          -> "over"

VerdictOf(h, result) ==
  IF h # "returned" THEN "none" ELSE IF result.ok THEN "ok" ELSE "failed"

Contract == INSTANCE RunContract WITH
  stage   <- [r \in Runs |-> StageOf(host[r])],
  verdict <- [r \in Runs |-> VerdictOf(host[r], res[r])],
  posted  <- posts

(***************************************************************************)
(* Every behaviour of the runs is one the contract allows: no comment      *)
(* before the engine has ended or after the verdict, never two comments by *)
(* one run, no Block comment by a run that returns ok, one verdict.        *)
(***************************************************************************)
KeepsContract == Contract!Spec
=============================================================================
