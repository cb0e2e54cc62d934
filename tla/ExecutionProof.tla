---------------------------- MODULE ExecutionProof ----------------------------
(***************************************************************************)
(* The proof of an execution (execution-proof.ts): a task is expanded and  *)
(* run, its result is classified twice, for the hints of the manifest      *)
(* (runner.ts) and for the proof, and the proof is kept beside the task,   *)
(* the expanded task and the output.  Any of them may drift before the     *)
(* proof is verified.  A digest stands for what it keeps of its argument.  *)
(***************************************************************************)
EXTENDS TaskTemplates

CONSTANTS
  Tasks,     \* the tasks that are submitted
  Outputs,   \* what the result keeps of an output: sets of phrases
  Pasts,     \* what it cuts off, past its limit
  Codes,     \* the codes it exits with
  Signals,   \* the signals that end its CLI
  Drifts     \* bound: the outputs that what is kept may drift from and to

VARIABLES
  task,      \* the submitted task
  phase,     \* "submitted", "refused", "running", "ended" or "proved"
  ran,       \* how the CLI ended, with its output
  result,    \* what of the result the classifiers read
  proof,     \* the proof of the run
  kept       \* the task, expanded task and output that are kept

proofVars == <<task, phase, ran, result, proof, kept>>

\* What the classifiers look for in an output.  The two know memory that ran
\* out by different expressions: "oom_end" is for both (it ends a line),
\* "oom_mid" is for the proof (it is inside one), "no_space" for the hints
\* (ENOSPC, Killed).  So it is with a budget at the start of a line or not.
Phrases == {"pr_url", "oom_end", "oom_mid", "no_space", "enoent", "pull_denied",
            "permission_denied", "no_daemon", "name_in_use", "conflict",
            "budget_limited", "budget_mid", "bootstrap_guard", "missing_evidence",
            "no_changes_allowed", "no_patch_command", "openclaw_cli_unavailable",
            "openclaw_profile_unavailable", "openclaw_version_failed"}

NoCode == 256

\* A submitted task, and its inline template, have fields of their own, and
\* commands in an order.
IsTask(t) ==
  /\ DOMAIN t = {"template", "inline", "vars", "mode", "commands", "prompt", "repo", "repos", "env"}
  /\ t.commands \in Seq(Range(t.commands))
  /\ t.inline.commands \in Seq(Range(t.inline.commands))

ASSUME ProofAssumption ==
  /\ \A t \in Tasks : IsTask(t)
  /\ Outputs \subseteq SUBSET Phrases /\ Pasts \subseteq SUBSET Phrases
  /\ Codes \subseteq 0..255 /\ "none" \notin Signals

\* sha256Json: the key list given to JSON.stringify is that of the top
\* level, so of a nested record only the fields with a name of the top level
\* are left: no variable, no entry of env, nothing of a repository, and of an
\* inline template its id, mode, commands and prompt.
Json(t) ==
  [top |-> <<t.template, t.mode, t.commands, t.prompt, t.repo>>,
   inline |-> <<t.inline.id, t.inline.mode, t.inline.commands, t.inline.prompt>>,
   repos |-> Len(t.repos), vars |-> t.vars # NoVars, env |-> t.env # NoVars]

\* How spawnWithTimeout ends: the engine cannot be started (it is missing, or
\* not), or its CLI ends with a code or by a signal, before or after the
\* timer fired.
Endings ==
  [enoent : BOOLEAN, timedOut : {FALSE}, code : {NoCode}, signal : {"none"},
   out : {{}}, past : {{}}]
  \cup [enoent : {FALSE}, timedOut : BOOLEAN, code : Codes, signal : {"none"},
        out : Outputs, past : Pasts]
  \cup [enoent : {FALSE}, timedOut : BOOLEAN, code : {NoCode}, signal : Signals,
        out : Outputs, past : Pasts]

\* buildActionableError: advice of its own and all of the output, except that
\* a missing engine is told in words none of the classifiers knows.
ActionableError(end) ==
  IF end.enoent THEN {}
  ELSE end.out \cup end.past
       \cup (IF end.code = 137 /\ ~end.timedOut THEN {"oom_mid"} ELSE {})

\* extractPrUrl reads all of the output, whatever else the result is read
\* from is cut.
HasPr(end) == "pr_url" \in end.out \cup end.past
Recovered(end) == HasPr(end) /\ ~end.timedOut /\ end.code # 0
EndsOk(end) == (~end.timedOut /\ end.code = 0) \/ Recovered(end)

\* isMissingPatchCommand: the result fails, whatever the ending.
NoPatchCommand(end) == "no_patch_command" \in end.out

\* artifactManifest.status and resultSummary.status; a recovered run's
\* becomes "done".
BudgetStop(end) == "budget_limited" \in end.out /\ ~Recovered(end)

\* The outcomes collectGitHubEvidence may give, with its comment posted or
\* not; a task that is no GitHub task has none.  A run that is ok has a Block
\* if the task has nothing to run.
GitHubOutcomes(end) ==
  {"none"} \cup
  (IF HasPr(end) THEN {"pr", "missing_evidence"}
   ELSE IF "no_changes_allowed" \in end.out
   THEN {"succeeded_no_changes_with_done_evidence", "blocked_no_changes_with_evidence"}
   ELSE {"block", "missing_evidence"}
        \cup (IF EndsOk(end) /\ ~NoPatchCommand(end) THEN {"done"} ELSE {})
        \cup (IF BudgetStop(end) THEN {"budget_limited"}
              ELSE IF end.timedOut THEN {"timed_out"} ELSE {}))

\* The result as runTask leaves it: a missing patch command or missing
\* evidence fails it and replaces its error by a text none of the
\* classifiers knows.
Result(end, outcome) ==
  LET failed == NoPatchCommand(end) \/ outcome = "missing_evidence"
  IN  [ok |-> EndsOk(end) /\ ~failed,
       status |-> IF failed THEN "failed"
                  ELSE IF end.timedOut THEN "timeout"
                  ELSE IF EndsOk(end) THEN "completed" ELSE "failed",
       error |-> IF EndsOk(end) \/ failed THEN {} ELSE ActionableError(end),
       budget |-> BudgetStop(end), outcome |-> outcome,
       code |-> end.code, signal |-> end.signal, out |-> end.out]

(***************************************************************************)
(* The category of the hints (runner.ts, inferEvidenceFailureCategory): a  *)
(* line an OpenClaw command prints is looked for in the error too, and     *)
(* whether the run is ok or not.                                           *)
(***************************************************************************)
ResourceLimited(r) ==
  /\ ~r.ok
  /\ r.code = 137 \/ r.signal = "SIGKILL" \/ r.out \cap {"oom_end", "no_space"} # {}

HintCategory(r) ==
  CASE r.outcome = "succeeded_no_changes_with_done_evidence" -> "no_changes_allowed"
    [] r.outcome \in {"blocked_no_changes_with_evidence", "block", "budget_limited",
                      "timed_out", "missing_evidence"} -> r.outcome
    [] r.outcome \in {"none", "pr", "done"} ->
       IF r.status = "timeout" THEN "timed_out"
       ELSE IF r.budget THEN "budget_limited"
       ELSE IF ResourceLimited(r) THEN "resource_limited"
       ELSE IF "openclaw_cli_unavailable" \in r.out \cup r.error
       THEN "openclaw_cli_unavailable"
       ELSE IF "openclaw_profile_unavailable" \in r.out \cup r.error
       THEN "openclaw_profile_unavailable"
       ELSE IF "openclaw_version_failed" \in r.out \cup r.error
       THEN "openclaw_version_failed"
       ELSE IF r.ok THEN "none"
       ELSE IF r.code \notin {0, NoCode} THEN "exit_nonzero" ELSE "failed"

(***************************************************************************)
(* The outcome and the failure category of the proof.                      *)
(***************************************************************************)
ClassifyOutcome(r) ==
  IF r.ok THEN "done"
  ELSE IF r.status = "timeout" THEN "timed_out"
  ELSE IF r.error \cap {"enoent", "permission_denied", "no_daemon",
                        "pull_denied", "name_in_use"} # {}
  THEN "failed_infrastructure"
  ELSE IF "missing_evidence" \in r.error THEN "missing_evidence" ELSE "failed"

\* Mutant: an exit code is looked at first.
Bug_CodeFirst(r) ==
  IF r.ok THEN "none"
  ELSE IF r.code \notin {0, NoCode} THEN "exit" ELSE "unknown"

ClassifyFailure(r) ==
  CASE r.ok                               -> "none"
    [] ~r.ok /\ r.status = "timeout"      -> "timeout_exceeded"
    [] ~r.ok /\ r.status # "timeout"      ->
       IF r.code = 137 \/ r.error \cap {"oom_end", "oom_mid"} # {} THEN "oom"
       ELSE IF "enoent" \in r.error THEN "engine_not_found"
       ELSE IF "pull_denied" \in r.error THEN "image_pull_failure"
       ELSE IF r.error \cap {"permission_denied", "no_daemon"} # {} THEN "engine_permission"
       ELSE IF r.error \cap {"name_in_use", "conflict"} # {} THEN "container_name_collision"
       ELSE IF r.error \cap {"budget_limited", "budget_mid"} # {} THEN "budget_limit"
       ELSE IF "bootstrap_guard" \in r.error THEN "bootstrap_guard_blocked"
       ELSE IF r.signal \in {"SIGKILL", "SIGTERM"} THEN r.signal
       ELSE IF r.code \notin {0, NoCode} THEN "exit" ELSE "unknown"

(***************************************************************************)
(* buildExecutionProof.  runTask passes the task as it is after expansion  *)
(* and normalisation, and the expanded one if there is a template.         *)
(***************************************************************************)
HasTemplate(t) == t.template # NoName \/ t.inline # NoTemplate

BuildProof(t, r) ==
  LET input == Json(NormalizeTask(Expanded(t)))
      expanded == IF HasTemplate(t) THEN Json(Expanded(t)) ELSE input
  IN  [input |-> input, expanded |-> expanded, output |-> r.out,
       chain |-> <<input, expanded, r.out>>,
       ok |-> r.ok, outcome |-> ClassifyOutcome(r), failure |-> ClassifyFailure(r)]

\* Mutant: the chain is not compared.
Bug_NoChain(p, k) ==
  /\ Json(k.norm) = p.input
  /\ k.expanded # << >> => Json(k.expanded[1]) = p.expanded
  /\ k.out = p.output

\* verifyExecutionProof, given what is kept.
Verifies(p, k) ==
  /\ Json(k.norm) = p.input
  /\ k.expanded # << >> => Json(k.expanded[1]) = p.expanded
  /\ k.out = p.output
  /\ p.chain = <<p.input, p.expanded, k.out>>

Kept(t, out) ==
  [norm |-> NormalizeTask(Expanded(t)), out |-> out,
   expanded |-> IF HasTemplate(t) THEN <<Expanded(t)>> ELSE << >>]

-----------------------------------------------------------------------------
Init ==
  /\ task \in Tasks /\ phase = "submitted"
  /\ ran = << >> /\ result = << >> /\ proof = << >> /\ kept = << >>

Submit ==
  /\ phase = "submitted"
  /\ phase' = IF Refused(task) THEN "refused" ELSE "running"
  /\ UNCHANGED <<task, ran, result, proof, kept>>

End ==
  /\ phase = "running" /\ phase' = "ended"
  /\ \E end \in Endings : \E outcome \in GitHubOutcomes(end) :
       ran' = end /\ result' = Result(end, outcome)
  /\ UNCHANGED <<task, proof, kept>>

Prove ==
  /\ phase = "ended" /\ phase' = "proved"
  /\ proof' = BuildProof(task, result) /\ kept' = Kept(task, ran.out)
  /\ UNCHANGED <<task, ran, result>>

\* What is kept becomes that of another task, or another output, and the
\* digests of a part of the proof are made to fit.
\* Bound: only the proof of a run that is ok and has no evidence drifts; what
\* is verified is not how the run ended.
MayDrift ==
  /\ phase = "proved" /\ result.ok /\ result.outcome = "none"
  /\ ran.out \in Drifts /\ ran.past = {}

DriftTask(other) ==
  /\ MayDrift /\ ~Refused(other)
  /\ kept' = Kept(other, kept.out)
  /\ UNCHANGED <<task, phase, ran, result, proof>>

DriftOutput(out) ==
  /\ MayDrift
  /\ kept' = [kept EXCEPT !.out = out]
  /\ UNCHANGED <<task, phase, ran, result, proof>>

DriftDigests ==
  /\ MayDrift
  /\ \/ proof' = [proof EXCEPT !.output = kept.out]
     \/ proof' = [proof EXCEPT !.input = Json(kept.norm)]
     \/ proof' = [proof EXCEPT !.expanded =
                    IF kept.expanded = << >> THEN Json(kept.norm) ELSE Json(kept.expanded[1])]
  /\ UNCHANGED <<task, phase, ran, result, kept>>

Next ==
  \/ Submit \/ End \/ Prove \/ DriftDigests
  \/ \E other \in Tasks : DriftTask(other)
  \/ \E out \in Drifts : DriftOutput(out)

Spec == Init /\ [][Next]_proofVars
-----------------------------------------------------------------------------
(***************************************************************************)
(* Properties.                                                             *)
(***************************************************************************)
\* A proof that verifies is of the commands, prompt, mode and template that
\* ran and of what the container printed, whatever drifted, one part or
\* digest at a time (execution-proof.ts, verifyExecutionProof).
VerifiedIsWhatRan ==
  phase = "proved" /\ Verifies(proof, kept) =>
    LET norm == NormalizeTask(Expanded(task)) IN
    /\ kept.out = ran.out
    /\ kept.norm.template = norm.template /\ kept.norm.mode = norm.mode
    /\ kept.norm.commands = norm.commands /\ kept.norm.prompt = norm.prompt

\* What a submitted task sets itself is what runs: its commands come last,
\* after all of the template's, and its environment, prompt and mode are
\* not overridden by a template (task-templates.ts, expandTask).
TaskHasTheLastWord ==
  phase \in {"ended", "proved"} =>
    LET norm == NormalizeTask(Expanded(task)) IN
    /\ IsSuffix(task.commands, norm.commands)
    /\ \A k \in DOMAIN task.env : norm.env[k] = task.env[k]
    /\ task.prompt # NoText => norm.prompt = task.prompt
    /\ task.mode # NoName => norm.mode = task.mode

\* The hints of a GitHub run and its proof do not contradict each other,
\* though they know memory that ran out by different words and read the output
\* to different lengths (runner.ts inferEvidenceFailureCategory,
\* execution-proof.ts classifyFailure).  Both have a category for a run that
\* failed; a timeout that one names the other names, unless the run was short
\* of a patch command or the evidence of the run comes first; memory that ran
\* out is never a plain exit code.  Why a container failed is left to the
\* hints only where there is a pull request and no patch command.
ClassifiersAgree ==
  phase \in {"ended", "proved"} /\ result.outcome # "none" =>
    LET hint == HintCategory(result)
        failure == ClassifyFailure(result)
    IN  /\ result.ok => /\ failure = "none"
                        /\ hint \notin {"timed_out", "missing_evidence", "resource_limited",
                                        "exit_nonzero", "failed"}
        /\ ~result.ok => failure # "none" /\ hint # "none"
        /\ hint = "timed_out" =>
             ran.timedOut /\ (failure = "timeout_exceeded" \/ NoPatchCommand(ran))
        /\ failure = "timeout_exceeded" =>
             hint \in {"timed_out", "budget_limited", "block", "no_changes_allowed",
                       "blocked_no_changes_with_evidence"}
        /\ failure = "oom" => hint \notin {"exit_nonzero", "failed"}
        /\ hint = "resource_limited" /\ result.code = 137 => failure = "oom"
        /\ hint \in {"resource_limited", "exit_nonzero", "failed"} =>
             HasPr(ran) /\ NoPatchCommand(ran)

(***************************************************************************)
(* What a comment says and the code does not do.                           *)
(***************************************************************************)
\* "Digest of the expanded commands and env" (types.ts): a proof that
\* verifies against the kept expanded task is of the environment that ran.
EnvIsProved ==
  phase = "proved" /\ Verifies(proof, kept) /\ kept.expanded # << >> =>
    kept.expanded[1].env = Expanded(task).env
=============================================================================
