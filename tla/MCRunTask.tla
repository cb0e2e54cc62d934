----------------------------- MODULE MCRunTask -----------------------------
(* Runs of one task for TLC, in sequence or overlapping.                  *)
EXTENDS RunTaskRefinement, TLC

(* A complete github-propose-patch task, and variations of it. *)
PatchTask ==
  [commands |-> FALSE, mode |-> TRUE, commentOnly |-> FALSE, repo |-> TRUE,
   readOnlyValidation |-> FALSE, allowNoChanges |-> FALSE,
   forbidNewPr |-> FALSE, issue |-> TRUE, gate |-> TRUE, token |-> TRUE,
   patch |-> TRUE, existing |-> FALSE]

NoChangeTask == {[PatchTask EXCEPT !.allowNoChanges = TRUE]}
CommandTasks == {[PatchTask EXCEPT !.commands = TRUE],
                 [PatchTask EXCEPT !.commands = TRUE, !.gate = FALSE]}

Quiet == [changed |-> TRUE, leak |-> FALSE, mention |-> FALSE, stray |-> FALSE,
          marks |-> {}, verbose |-> FALSE, ok |-> TRUE]

SomeAgents == {[Quiet EXCEPT !.changed = FALSE],
               [Quiet EXCEPT !.marks = {"no_patch_command"}]}
CommandAgents ==
  {[Quiet EXCEPT !.mention = m, !.ok = o] : m \in BOOLEAN, o \in BOOLEAN}

(* Runs are interchangeable. *)
AnyRun == Permutations(Runs)
----------------------------------------------------------------------------
(***************************************************************************)
(* github-evidence.ts:504: the Done comment is used when the task          *)
(* succeeded.                                                              *)
(***************************************************************************)
DoneMeansSuccess ==
  \A r \in Runs :
    host[r] = "returned" /\ <<"done", r>> \in posts => res[r].ok
=============================================================================
