---------------------------- MODULE MCRunReport ----------------------------
(* Tasks from the broker's payloads and from the command line for TLC.    *)
EXTENDS RunReport

Plain ==
  [mode |-> "github-propose-patch", origin |-> FALSE, repo |-> TRUE,
   known |-> FALSE, issue |-> TRUE, forbidNewPr |-> "absent",
   noNewPr |-> "absent", commentOnly |-> "absent", evidenceOnly |-> "absent",
   allowNoChanges |-> "absent", readOnlyValidation |-> "absent",
   validationOnly |-> "absent", complete |-> TRUE, existing |-> FALSE]

(* The modes by their origins, and each flag with and against its alias. *)
SomePayloads ==
  {[Plain EXCEPT !.mode = m, !.origin = ~k, !.known = k, !.repo = ~k] :
      m \in {"absent", "github-verify", "other"}, k \in BOOLEAN}
  \cup {[Plain EXCEPT !.forbidNewPr = f, !.noNewPr = "yes"] : f \in Flag}
  \cup {[Plain EXCEPT !.commentOnly = c, !.evidenceOnly = "yes"] : c \in {"absent", "no"}}
  \cup {[Plain EXCEPT !.readOnlyValidation = v, !.validationOnly = "yes"] : v \in {"absent", "no"}}
  \cup {[Plain EXCEPT !.readOnlyValidation = "yes", !.commentOnly = "no"],
         [Plain EXCEPT !.complete = FALSE],
         [Plain EXCEPT !.mode = "github-verify", !.origin = TRUE,
                       !.commentOnly = "yes", !.forbidNewPr = "no"],
         [Plain EXCEPT !.commentOnly = "yes", !.existing = TRUE]}

(* A complete github-propose-patch task, and variations of it. *)
PatchTask ==
  [commands |-> FALSE, mode |-> TRUE, commentOnly |-> FALSE, repo |-> TRUE,
   readOnlyValidation |-> FALSE, allowNoChanges |-> FALSE,
   forbidNewPr |-> FALSE, issue |-> TRUE, gate |-> TRUE, token |-> TRUE,
   patch |-> TRUE, existing |-> FALSE]

PatchLane ==
  { PatchTask,
    [PatchTask EXCEPT !.allowNoChanges = TRUE],
    [PatchTask EXCEPT !.readOnlyValidation = TRUE],
    [PatchTask EXCEPT !.forbidNewPr = TRUE],
    [PatchTask EXCEPT !.issue = FALSE],
    [PatchTask EXCEPT !.gate = FALSE],
    [PatchTask EXCEPT !.patch = FALSE],
    [PatchTask EXCEPT !.token = FALSE],
    [PatchTask EXCEPT !.token = FALSE, !.issue = FALSE, !.allowNoChanges = TRUE] }

OtherLanes ==
  { [PatchTask EXCEPT !.commands = TRUE],
    [PatchTask EXCEPT !.commands = TRUE, !.token = FALSE],
    [PatchTask EXCEPT !.commands = TRUE, !.mode = FALSE],
    [PatchTask EXCEPT !.mode = FALSE],
    [PatchTask EXCEPT !.commentOnly = TRUE],
    [PatchTask EXCEPT !.repo = FALSE],
    [PatchTask EXCEPT !.commentOnly = TRUE, !.existing = TRUE],
    [PatchTask EXCEPT !.repo = FALSE, !.commentOnly = TRUE] }

EveryLane == PatchLane \cup OtherLanes

(* The payload's tasks and those of the command line. *)
EveryTask == EveryLane \cup {BuildRunnerTask(p) : p \in Payloads}
(* Bounds: an agent that leaves a bootstrap file prints no marker line; one *)
(* that prints too much, or leaves the URL of another pull request, prints  *)
(* at most one and does not do both; any other prints at most two.          *)
EveryAgent ==
  {a \in AgentRecord :
     /\ a.verbose => ~a.mention /\ ~a.stray
     /\ a.leak => a.marks = {}
     /\ Cardinality(a.marks) <= IF a.verbose \/ a.stray \/ a.mention THEN 1 ELSE 2}
=============================================================================
