---------------------------- MODULE TaskTemplates ----------------------------
(***************************************************************************)
(* From the submitted task to the task that runs: the template registry,   *)
(* resolveTemplate and expandTask (task-templates.ts), then normalizeTask  *)
(* (task-normalizer.ts).  A text is named by what it says and holds a      *)
(* value, or Unfilled, for each of its ${placeholders}.                    *)
(***************************************************************************)
EXTENDS Naturals, Sequences, SequencesExt

NoName == "none"
Unfilled == "unfilled"
NoText == [says |-> NoName, fill |-> << >>]
NoVars == << >>

Text(says, holes) == [says |-> says, fill |-> [v \in holes |-> Unfilled]]

\* RunnerRepo: a slug, written in short (owner/repo) or as a URL.
Repo(slug, form) == [slug |-> slug, form |-> form]

\* mode stands for the fields with a fallback: mode, preset, baseBranch,
\* reportLanguage and timeoutMs.
Template(id, mode, commands, prompt, repos, env, required, optional) ==
  [id |-> id, mode |-> mode, commands |-> commands, prompt |-> prompt,
   repos |-> repos, env |-> env, required |-> required, optional |-> optional]

NoTemplate == Template(NoName, NoName, << >>, NoText, << >>, NoVars, {}, NoVars)

\* The four templates registered at import time; registerTemplate refuses a
\* second one of a name, so a name stands for one template.
TerminalBrief(id, required, optional) ==
  Template(id, "github-propose-patch", << >>,
           Text(id, required \cup DOMAIN optional), << >>,
           [A2A_DOCKER_RUNNER_NO_LIVE |-> Text("1", {})], required, optional)

Registry == {
  TerminalBrief("node-health", {"DOCTOR_ARGS", "EXPECTED_REVISION", "TARGET_NODE"},
                [DOCTOR_ARGS |-> "doctor"]),
  TerminalBrief("latency-diagnostics", {"TARGET_NODE", "RUN_ID"},
                [P95_THRESHOLD_MS |-> "500", P99_THRESHOLD_MS |-> "500",
                 SAMPLE_SIZE |-> "100", DIAGNOSTICS_SPLIT_CANDIDATES |-> "paths"]),
  TerminalBrief("session-store-residue", {"TARGET_NODE"},
                [ACTIVE_AGENT_ID |-> "main", MAX_BACKUP_COUNT |-> "50",
                 MAX_BACKUP_BYTES |-> "128M"]),
  TerminalBrief("worker-readiness", {"EXPECTED_REVISION", "TARGET_NODE", "RUN_ID"}, NoVars)}

(***************************************************************************)
(* resolveTemplate: the registry, else an inline template of that name; an *)
(* inline template alone is taken as it is.                                *)
(***************************************************************************)
ResolveTemplate(task) ==
  LET named == {t \in Registry : t.id = task.template}
  IN  IF task.template = NoName THEN task.inline
      ELSE IF named # {} THEN CHOOSE t \in named : TRUE
      ELSE IF task.inline.id = task.template THEN task.inline ELSE NoTemplate

\* expandTask throws only when there is no inline template at all.
Refused(task) ==
  /\ task.template # NoName /\ task.inline = NoTemplate
  /\ ResolveTemplate(task) = NoTemplate

\* A placeholder without a value is left as it is.
ExpandVars(text, vars) ==
  [text EXCEPT !.fill =
     [v \in DOMAIN @ |-> IF v \in DOMAIN vars THEN vars[v] ELSE @[v]]]

\* What the task says wins over what the template says.
Over(own, fallback) ==
  [k \in DOMAIN own \cup DOMAIN fallback |->
     IF k \in DOMAIN own THEN own[k] ELSE fallback[k]]

\* Mutant: the template's environment wins.
Bug_TemplateEnvWins(task, template) ==
  Over([k \in DOMAIN template.env |-> ExpandVars(template.env[k], task.vars)], task.env)

MergedEnv(task, template) ==
  Over(task.env, [k \in DOMAIN template.env |-> ExpandVars(template.env[k], task.vars)])

\* mergeRepos: the first of each URL as it is written.
MergeRepos(first, second) ==
  LET Add(seen, repo) == IF Contains(seen, repo) THEN seen ELSE Append(seen, repo)
  IN  FoldLeft(Add, << >>, first \o second)

ExpandTask(task) ==
  LET t == ResolveTemplate(task) IN
  IF t = NoTemplate THEN task
  ELSE [task EXCEPT
          !.mode = IF @ = NoName THEN t.mode ELSE @,
          !.commands = [i \in DOMAIN t.commands |-> ExpandVars(t.commands[i], task.vars)] \o @,
          !.prompt = IF @ = NoText THEN ExpandVars(t.prompt, task.vars) ELSE @,
          !.repos = MergeRepos(t.repos, @),
          !.env = MergedEnv(task, t)]

\* What runTask hands on.
Expanded(task) ==
  IF task.template = NoName /\ task.inline = NoTemplate THEN task ELSE ExpandTask(task)

(***************************************************************************)
(* normalizeTask: URLs are written out, a checkout path is the last part   *)
(* of the slug, a task without commands gets the default ones.             *)
(***************************************************************************)
DefaultCommands == <<Text("default", {})>>

NormalizeRepos(task) ==
  IF task.repos = << >> /\ task.repo # NoName THEN <<Repo(task.repo, "url")>>
  ELSE [i \in DOMAIN task.repos |-> Repo(task.repos[i].slug, "url")]

NormalizeTask(task) ==
  [task EXCEPT !.repos = NormalizeRepos(task),
               !.commands = IF @ = << >> THEN DefaultCommands ELSE @]
=============================================================================
