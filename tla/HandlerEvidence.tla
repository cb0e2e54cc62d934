-------------------------- MODULE HandlerEvidence --------------------------
(***************************************************************************)
(* What the worker's handler makes of a runner's output (integration.ts):  *)
(* the canonical evidence, the handler's own status, the kind, status and  *)
(* URL of the terminal event, and the labels an operator reads.  All of it *)
(* is computed from the one raw output, by functions that each walk their  *)
(* own chain of conditions.                                                *)
(***************************************************************************)
CONSTANT NoUrl      \* absence of a URL

GitHubOutcomes == {"none", "pr", "done", "block", "no_changes_done",
                   "no_changes_blocked", "budget_limited", "timed_out",
                   "missing_evidence"}

EvidenceKinds == {"PR", "Done", "Block", "BudgetLimited", "TimedOut",
                  "MissingEvidence"}
Answered == {"PR", "Done", "Block"}         \* the kinds that carry a URL
EventStatuses == {"succeeded", "failed", "cancelled", "blocked"}
HandlerStatuses == {"pr_opened", "done", "blocked"}

(***************************************************************************)
(* The runner's output, after JSON.parse.  budget: the manifest or the     *)
(* summary says budget_limited.  timedOut: the summary's flag.  pr: the    *)
(* URL found on stdout.  github: the structured evidence of a GitHub task; *)
(* without it every URL is missing.                                        *)
(***************************************************************************)
GitHubEvidence(Urls) ==
  [outcome: GitHubOutcomes, pr: Urls, block: Urls, done: Urls]

RawRunnerOutput(Urls) ==
  [ok: BOOLEAN, status: {"completed", "failed", "timeout"},
   timedOut: BOOLEAN, budget: BOOLEAN, pr: Urls,
   github: GitHubEvidence(Urls)]

NoEvidence == [outcome |-> "none", pr |-> NoUrl, block |-> NoUrl, done |-> NoUrl]

PrEvidence(url)  == [NoEvidence EXCEPT !.outcome = "pr", !.pr = url]

\* The no-change outcomes survive, any other becomes the kind's own.
StructuredOutcome(g, kind) ==
  IF g.outcome \in {"no_changes_done", "no_changes_blocked"} THEN g.outcome ELSE kind

BlockEvidence(g) ==
  [NoEvidence EXCEPT !.outcome = StructuredOutcome(g, "block"), !.block = g.block]
DoneEvidence(g)  ==
  [NoEvidence EXCEPT !.outcome = StructuredOutcome(g, "done"), !.done = g.done]

TerminalDone(raw) ==
  /\ raw.github.done # NoUrl
  /\ raw.ok /\ raw.status = "completed" /\ ~raw.budget

(***************************************************************************)
(* The first that applies: the Block or the Done comment that the outcome  *)
(* itself names, the pull request, any Block comment, any Done comment,    *)
(* the URL on stdout.                                                      *)
(***************************************************************************)
\* Mutant: the Block comment of a run hides its pull request.
Bug_BlockFirst(raw) ==
  LET g == raw.github IN
  IF g.block # NoUrl THEN BlockEvidence(g)
  ELSE IF TerminalDone(raw) THEN DoneEvidence(g)
  ELSE IF g.pr # NoUrl THEN PrEvidence(g.pr)
  ELSE IF raw.pr # NoUrl THEN PrEvidence(raw.pr)
  ELSE NoEvidence

ExtractGitHubEvidence(raw) ==
  LET g == raw.github IN
  IF g.block # NoUrl /\ g.outcome \in {"block", "no_changes_blocked"}
    THEN BlockEvidence(g)
  ELSE IF TerminalDone(raw) /\ g.outcome \in {"done", "no_changes_done"}
    THEN DoneEvidence(g)
  ELSE IF g.pr # NoUrl     THEN PrEvidence(g.pr)
  ELSE IF g.block # NoUrl  THEN BlockEvidence(g)
  ELSE IF TerminalDone(raw) THEN DoneEvidence(g)
  ELSE IF raw.pr # NoUrl   THEN PrEvidence(raw.pr)
  ELSE NoEvidence

(***************************************************************************)
(* buildHandlerResult.                                                     *)
(***************************************************************************)
HandlerStatus(raw) ==
  LET e == ExtractGitHubEvidence(raw) IN
  IF e = NoEvidence      THEN "blocked"
  ELSE IF e.pr # NoUrl    THEN "pr_opened"
  ELSE IF e.block # NoUrl THEN "blocked"
  ELSE "done"

\* The headline of the summary, the tests and the risks.
Headline(raw) ==
  LET e == ExtractGitHubEvidence(raw) IN
  CASE e = NoEvidence /\ raw.budget  -> "continuation approval needed"
    [] e = NoEvidence /\ ~raw.budget -> "no evidence"
    [] e.pr # NoUrl                  -> "opened PR"
    [] OTHER                         -> e.outcome

HasRisks(raw) ==
  Headline(raw) \notin {"opened PR", "no_changes_done"}

(***************************************************************************)
(* buildTerminalEvidenceEvent.                                             *)
(***************************************************************************)
TimedOut(raw) == raw.timedOut \/ raw.status = "timeout"

\* Mutant: the budget is looked at before the evidence.
Bug_BudgetFirst(raw) ==
  LET e == ExtractGitHubEvidence(raw) IN
  IF raw.budget THEN "BudgetLimited"
  ELSE IF e.pr # NoUrl THEN "PR"
  ELSE IF e.done # NoUrl THEN "Done"
  ELSE IF e.block # NoUrl THEN "Block"
  ELSE IF TimedOut(raw) THEN "TimedOut" ELSE "MissingEvidence"

EvidenceKind(raw) ==
  LET e == ExtractGitHubEvidence(raw) IN
  IF e.pr # NoUrl THEN "PR"
  ELSE IF e.done # NoUrl /\ ~raw.budget THEN "Done"
  ELSE IF e.block # NoUrl THEN "Block"
  ELSE IF raw.budget      THEN "BudgetLimited"
  ELSE IF TimedOut(raw)   THEN "TimedOut"
  ELSE "MissingEvidence"

EventStatus(kind, ok) ==
  CASE kind \in {"PR", "Done"}             -> "succeeded"
    [] kind \in {"Block", "BudgetLimited"} -> "blocked"
    [] kind = "TimedOut"                   -> "cancelled"
    [] OTHER                               -> IF ok THEN "blocked" ELSE "failed"

\* Mutant: a Block event is given the Done comment.
Bug_DoneUrlForBlock(raw) ==
  LET e == ExtractGitHubEvidence(raw) IN
  CASE EvidenceKind(raw) = "PR" -> e.pr
    [] EvidenceKind(raw) \in {"Done", "Block", "BudgetLimited"} -> e.done
    [] OTHER -> NoUrl

EventUrl(raw) ==
  LET e == ExtractGitHubEvidence(raw) IN
  CASE EvidenceKind(raw) = "PR"   -> e.pr
    [] EvidenceKind(raw) = "Done" -> e.done
    [] EvidenceKind(raw) \in {"Block", "BudgetLimited"} -> e.block
    [] OTHER -> NoUrl

\* buildOperatorTaskReportEvidence: the first URL of the handler's result.
ReportUrl(raw) ==
  LET e == ExtractGitHubEvidence(raw) IN
  IF e.pr # NoUrl THEN e.pr ELSE IF e.done # NoUrl THEN e.done ELSE e.block

\* terminalBriefOutcomeLabel
BriefLabel(kind, status) ==
  IF status = "succeeded"      THEN "completed"
  ELSE IF status = "cancelled" THEN "timed out"
  ELSE IF status = "blocked"   THEN "blocked"
  ELSE "needs review"

\* selectCanaryRecoveryOperatorAction
OperatorAction(kind, acknowledged) ==
  CASE kind \in Answered /\ ~acknowledged -> "operator_visible_receipt_required"
    [] kind = "PR" /\ acknowledged        -> "monitor_pr"
    [] kind = "Done" /\ acknowledged      -> "review_done_evidence"
    [] kind = "Block" /\ acknowledged     -> "review_block_evidence"
    [] kind = "BudgetLimited"             -> "approve_bounded_continuation"
    [] OTHER                              -> "retry_or_block_recovery"
=============================================================================
