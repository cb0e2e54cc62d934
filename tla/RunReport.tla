----------------------------- MODULE RunReport -----------------------------
(***************************************************************************)
(* A run as the worker's handler sees it: the handler starts the runner    *)
(* with a task it builds from the broker's payload                         *)
(* (buildRunnerTaskFromHandlerPayload), and turns what the run returns     *)
(* into a status for the broker and a terminal event (buildHandlerResult,  *)
(* buildTerminalEvidenceEvent).  The run itself is RunTask.  The command   *)
(* line starts a run of any task, without a payload.                       *)
(***************************************************************************)
EXTENDS RunTaskRefinement

INSTANCE HandlerEvidence

CONSTANTS
  Payloads,   \* the payloads the broker may send, a set of HandlerTaskPayload
  NoPayload   \* of a task from the command line

VARIABLE payload

reportVars == <<vars, payload>>

(***************************************************************************)
(* The fields of the payload that steer a run.  A flag may be absent, and  *)
(* two of them are older names of a third.  known: the repository (or the  *)
(* preset) is the plugin repository the runner has a preset for.           *)
(* complete: worker, title and brief are there and safe.  existing: a pull *)
(* request is named, by its URL or by its number in the repository.        *)
(***************************************************************************)
Flag == {"absent", "yes", "no"}

HandlerTaskPayload ==
  [mode: {"absent", "github-propose-patch", "github-verify", "other"},
   origin: BOOLEAN, repo: BOOLEAN, known: BOOLEAN, issue: BOOLEAN,
   forbidNewPr: Flag, noNewPr: Flag, commentOnly: Flag, evidenceOnly: Flag,
   allowNoChanges: Flag, readOnlyValidation: Flag, validationOnly: Flag,
   complete: BOOLEAN, existing: BOOLEAN]

Asked(flag, alias) == IF flag = "absent" THEN alias = "yes" ELSE flag = "yes"

(***************************************************************************)
(* shouldUseDockerRunnerForGithub, with the runner enabled: allGithub is   *)
(* the setting A2A_DOCKER_RUNNER_ALL_GITHUB.                               *)
(***************************************************************************)
IsGithubProposePatchTask(p) == p.mode = "github-propose-patch" \/ p.origin

ShouldUseDockerRunner(p, allGithub) ==
  IsGithubProposePatchTask(p) /\ (allGithub \/ p.known)

(***************************************************************************)
(* buildRunnerTaskFromHandlerPayload and the normalisation of its result.  *)
(* A known repository takes the preset, which supplies the repository; a   *)
(* token and a patch command come from the worker's configuration.         *)
(***************************************************************************)
\* Mutant: verify mode is taken for an ordinary patch task.
Bug_VerifyAsPatch(p) == FALSE

IsVerifyMode(p) == p.mode = "github-verify"

RunnerMode(p) == IF p.mode = "absent" THEN "github-propose-patch" ELSE p.mode

BuildRunnerTask(p) ==
  [commands |-> RunnerMode(p) = "other" /\ p.known,
   mode |-> RunnerMode(p) # "other",
   repo |-> p.repo \/ p.known,
   issue |-> p.issue,
   commentOnly |-> ~IsVerifyMode(p) /\ Asked(p.commentOnly, p.evidenceOnly),
   readOnlyValidation |->
     IsVerifyMode(p) \/ Asked(p.readOnlyValidation, p.validationOnly),
   allowNoChanges |->
     \/ IsVerifyMode(p)
     \/ "yes" \in {p.allowNoChanges, p.readOnlyValidation, p.validationOnly},
   forbidNewPr |-> IsVerifyMode(p) \/ Asked(p.forbidNewPr, p.noNewPr),
   gate |-> p.complete /\ p.issue, token |-> TRUE, patch |-> TRUE,
   existing |-> p.existing]

ASSUME PayloadsAssumption ==
  Payloads \subseteq HandlerTaskPayload /\ NoPayload \notin HandlerTaskPayload

ReportInit ==
  /\ Init
  /\ \/ payload = NoPayload
     \/ /\ payload \in {p \in Payloads : \E all \in BOOLEAN : ShouldUseDockerRunner(p, all)}
        /\ task = BuildRunnerTask(payload)

ReportNext == Next /\ UNCHANGED payload

ReportSpec == ReportInit /\ [][ReportNext]_reportVars /\ Fairness

(***************************************************************************)
(* The JSON a returned run prints, as parseRunnerOutput hands it on.  A    *)
(* run always gives a budget record with a budget stop, so the parser      *)
(* never refuses its output.                                               *)
(***************************************************************************)
Comment(r, kind) == IF res[r].kind = kind THEN res[r].comment ELSE NoUrl

Raw(r) ==
  [ok |-> res[r].ok, status |-> res[r].status, timedOut |-> timedOut[r],
   budget |-> res[r].manifest = "budget_limited", pr |-> res[r].pr,
   github |-> IF task.mode
              THEN [outcome |-> res[r].outcome, pr |-> res[r].pr,
                    block |-> Comment(r, "block"), done |-> Comment(r, "done")]
              ELSE NoEvidence]

Reported == {r \in Runs : host[r] = "returned"}
Kind(r)  == EvidenceKind(Raw(r))
-----------------------------------------------------------------------------
(***************************************************************************)
(* The broker reads the handler's status and risks, notifiers the event,   *)
(* operators the report, the canary audit and the label of a brief.  For   *)
(* everything a run can return they tell one story: opened a pull request, *)
(* done, or blocked, with the URL the event carries.  And a budget stop is *)
(* never closed out as done: a run whose manifest is budget_limited is     *)
(* blocked for the broker, even when its command exited with 0 and the     *)
(* runner posted Done for it; only a pull request that is open goes first. *)
(***************************************************************************)
ReportsAgree ==
  \A r \in Reported :
    LET kind   == Kind(r)
        status == EventStatus(kind, res[r].ok)
        handed == HandlerStatus(Raw(r))
    IN /\ handed = "pr_opened" <=> kind = "PR"
       /\ handed = "done" <=> kind = "Done"
       /\ status = "succeeded" <=> handed # "blocked"
       /\ BriefLabel(kind, status) = "completed" <=> handed # "blocked"
       /\ EventUrl(Raw(r)) # NoUrl <=> kind \in Answered
       /\ ReportUrl(Raw(r)) = EventUrl(Raw(r))
       /\ ~HasRisks(Raw(r)) => handed # "blocked"
       /\ OperatorAction(kind, TRUE) \in {"monitor_pr", "review_done_evidence"}
            => handed # "blocked"
       /\ disk[r].status = "budget_limited" =>
            handed = IF res[r].pr = NoUrl THEN "blocked" ELSE "pr_opened"

(***************************************************************************)
(* An event is earned.  Done: the run returned ok, it did not time out and *)
(* the Done comment it names is on the issue.  Block: the comment is on    *)
(* the issue.  PR: it is the URL this run printed.                         *)
(***************************************************************************)
EventIsEarned ==
  \A r \in Reported :
    LET url == EventUrl(Raw(r)) IN
    CASE Kind(r) = "Done"  -> /\ res[r].ok /\ ~timedOut[r]
                              /\ <<"done", url>> \in posts
      [] Kind(r) = "Block" -> <<"block", url>> \in posts
      [] Kind(r) = "PR"    -> url = out[r].pr
      [] OTHER             -> TRUE

(***************************************************************************)
(* The comment projection in the manifest and the event are derived at     *)
(* opposite ends of the pipe.  They name the same kind of evidence, but    *)
(* that a budget stop keeps the projection of its Done comment.            *)
(***************************************************************************)
ProjectionAgrees ==
  \A r \in Reported :
    /\ disk[r].projection = "pr"    => Kind(r) = "PR"
    /\ disk[r].projection = "block" => Kind(r) = "Block"
    /\ disk[r].projection = "done"  =>
         Kind(r) = IF Raw(r).budget THEN "BudgetLimited" ELSE "Done"

(***************************************************************************)
(* A payload that asks for verification, for no new pull request, for a    *)
(* read-only run or for comments only is kept to it, through the builder,  *)
(* the normaliser and the script: no run of it opens a pull request.       *)
(***************************************************************************)
AskedIsKept ==
  /\ payload # NoPayload
  /\ \/ payload.mode = "github-verify"
     \/ Asked(payload.forbidNewPr, payload.noNewPr)
     \/ Asked(payload.commentOnly, payload.evidenceOnly)
     \/ Asked(payload.readOnlyValidation, payload.validationOnly)
  => prs = {}

(***************************************************************************)
(* The outcome of a run is true of what it left behind, or the log of the  *)
(* task's commands shows the line that misled the host, which reads their  *)
(* output and the script's as one.  One of the no-change lane, without the *)
(* line in that log: the task allows it and there is neither a diff nor a  *)
(* pull request, though the container may have been killed since.  And a   *)
(* pull request beside a Block comment, which contradict each other: the   *)
(* timer fired after it was opened, or the log holds the line that is the  *)
(* script's only when it has no patch command to run.                      *)
(***************************************************************************)
OutcomeIsTrue ==
  \A r \in Reported :
    /\ /\ res[r].outcome \in {"no_changes_done", "no_changes_blocked"}
       /\ "no_changes_allowed" \notin repo[r].log
       => AllowsNoChanges /\ ~repo[r].changed /\ r \notin prs
    /\ res[r].pr # NoUrl /\ res[r].kind = "block" =>
         timedOut[r] \/ "no_patch_command" \in repo[r].log
=============================================================================
