# A verification project for the A2A Docker Runner

The A2A Docker Runner executes one task of a broker inside a container: it
clones a repository, runs commands or a coding agent, opens a pull request or
comments on the issue, and returns a result with evidence. Around it stand a
worker's handler, which turns results into events for operators, and tools that
clean, scan, approve, plan, prove and probe. This directory holds TLA+ models
of them, the TLC configurations that check the models on small instances, and
theorems that TLAPS proves for every value of the constants. Paths and line
numbers are those of the repository; `runner.ts` stands for `src/runner.ts`,
and so on.

## 1. The system

### 1.1 Components

| Component | Source | State it keeps | Operations |
|---|---|---|---|
| Run lifecycle | `runner.ts` `runTask` | a work directory per run, the spawned engine CLI, its timer, the result | spawn, time out, kill, collect output, classify, write the manifest, post a comment, return |
| Container script | `runner.ts` `buildContainerScript`, `task-normalizer.ts` | the checkout, `/work/artifacts`, the branch and pull request on GitHub, the exit code | guards, Start comment, patch command, commit, push, pull request, branch update |
| GitHub evidence | `github-evidence.ts` | the comments of the issue | find or post a Block or Done comment, classify the outcome, release gate |
| Task normalizer, templates | `task-normalizer.ts`, `task-templates.ts` | none (a template registry) | defaults, lanes, expansion |
| Artifact manifest | `runner.ts` 820-1365, 1414 | `artifacts/manifest.json` | build, redact, write |
| Handler integration | `integration.ts` | none; it maps a payload to a task and a result to an event | build the task, canonical evidence, event id, handler status, two acknowledgement deciders |
| Ops | `ops.ts` | the root of all work directories | cleanup, doctor, deployed revision, install |
| Scanner | `scanner.ts` | reads the same root | history scan, readiness scan, cleanup plan |
| Approval chain | `approval-rehearsal.ts`, `execution-orchestrator.ts`, `source-public-preflight.ts` | packets, evidence bundles and plans | decide, plan, preflight, simulate |
| Execution proof | `execution-proof.ts` | the proof in the manifest | classify, build, verify |
| Configuration | `config.ts` | the runner's configuration, the generated patch command | load, executor policy, mounts |
| Probes | `worker-capacity-probe.ts`, `openclaw-profile-readiness.ts` | none | classify pressure, lane size, readiness |
| CLI, smoke, scripts | `cli.ts`, `engine-smoke.ts`, `scripts/` | none | one call each |

### 1.2 How they interact

A broker sends a payload to the worker's handler, which builds a task of it and
calls `runTask`. The task is expanded from its template and normalized; the
script is written and `docker run` (or podman) spawned. Host and container
share three things: the mounted work directory, the stream of the CLI while the
CLI lives, and the CLI's exit code. Killing the CLI does not stop the
container. Both sides write to GitHub: the container posts the Start comment,
pushes and opens the pull request; the host posts Block or Done afterwards.
Neither sees the other's writes, except through the text the container prints.
The broker may retry a task, and may do so while an earlier container of it is
still alive; all runs of a task share the issue and the repository. The handler
turns the result into an event with an id, which is acknowledged on a receipt
of delivery. Cleanup and scanner work on the directories of all runs without
any lock; an operator approves cleanup plans and executions on what they
report. Doctor, revision check and capacity probe look at the machine before
runs use it.

### 1.3 What is hard, and what makes each component correct

* **Run lifecycle.** The timer, the exit of the CLI, its close event and the
  container's own progress interleave. Correct: a timeout is a failure, every
  run ends, a pull request that was seen is not lost, the manifest on disk
  agrees with the verdict, also when the process dies between two writes.
* **Container script.** The guards must stand between the agent and GitHub
  whatever the agent leaves behind. Correct: no pull request without them.
* **GitHub evidence.** Requests fail or lose their answers; lookup and post are
  two requests; runs are retried. Correct: one comment of a kind, comments that
  exist, Done only when earned, no ok without evidence.
* **Handler integration.** Each reader of a result walks its own chain of
  conditions; flags come under several names; retries may return the URL of an
  earlier comment and so the same event id; receipts are lost, duplicated or
  late. Correct: all readers tell one story, what was asked is kept, an entry is
  closed only for evidence an operator has seen.
* **Ops and scanner.** They look at directories that runs write at that moment.
  Correct: a recent run is never removed, a run that is at work is never
  reported as ended, a plan adds up.
* **Approval chain.** Each gate trusts what the one before wrote, while reviews,
  manifests and histories change. Correct: nothing is planned that an earlier gate
  refused, and what is taken for a replay has the verdict of the first time.
* **Execution proof.** The result is classified twice, and proof, task and
  output are kept apart. Correct: the two do not contradict each other, and a proof
  that verifies is of what ran.
* **Configuration and patch command.** Four ways to give a command, three to
  give a mount; a script whose steps race with the gateway of the host.
  Correct: success is earned, content of the repository is never scrubbed,
  an agent works apart from the host.
* **Probes and doctor.** They read a machine that changes. Correct: an ok
  foretells that runs start, an ok revision is upstream's, more load never gives
  a larger lane.

The full list, each at its line, is `hazards` in `PROJECT.json`, with the
properties that cover it.

## 2. The models

| Module | What it is |
|---|---|
| `ContainerScript` | the bash script of a run: one action per block of the generated script |
| `RunTask` | the host side, composed with the script of every run, the issue, GitHub and the engine |
| `RunContract`, `RunTaskRefinement` | the abstract promise of a run to the issue and to its caller, and the mapping to it |
| `HandlerEvidence` | what the handler makes of a result: evidence, status, event, labels |
| `RunReport` | `RunTask` between the handler's two ends: the task of a payload, the report of a result |
| `TerminalCursor` | events, deliveries, receipts and the two deciders, over retries of a round's tasks |
| `OperatorCursor` | the abstract promise of the cursor: nothing is closed before it was shown |
| `RunStore` | the directory of runs: runs, cleanup and readiness scan, file by file |
| `HistoryScan` | what is made of the history of runs: profile, readiness report, cleanup plan |
| `ApprovalGate` | rehearsal, packet, plan, preflight and simulation |
| `ExecutionPreflight` | the source-public preflight capsule |
| `TaskTemplates` | template registry, expansion, normalization, as pure operators |
| `ExecutionProof` | a run's classification and its proof, which is verified after things drifted |
| `OpenClawPatchCommand` | the generated patch command of the openclaw profile, and its readiness validation |
| `WorkerOps` | `loadConfig`, doctor, install and the start of a run on one machine |
| `DeployedRevision` | the doctor's look at the deployed checkout |
| `WorkerCapacity` | the capacity probe |
| `MCRunTask`, `MCRunReport`, `MCTerminalCursor`, `MCRunStore`, `MCHistoryScan`, `MCApprovalChain`, `MCExecutionProof`, `MCWorkerHost` | the constants for TLC; `MCApprovalChain` and `MCWorkerHost` also put modules side by side |
| `RunTaskProofs`, `RunReportProofs`, `TerminalCursorProofs`, `RunStoreProofs`, `HistoryScanProofs`, `ApprovalChainProofs`, `ExecutionProofProofs`, `WorkerHostProofs` | theorems and proofs (section 4) |

`map` in `PROJECT.json` gives the lines each definition translates.

### 2.1 The run

`ContainerScript`: `task` is the task record with the fields that steer control
(`TaskRecord`); `box[r]` is where the script of run `r` stands; `exitCode[r]`
its exit code; `repo[r]` what the checkout and the artifacts hold as far as the
guards and the URL search can tell (a diff, a bootstrap file, a stray PR URL),
and the marker lines that the task's own commands printed (`log`);
`out[r]` what the host has received of the log, that is the first PR URL, the
markers within the first 8000 characters, and whether that limit is passed;
`prs` and `started` are the pull requests and Start comments on GitHub.

| Action | Code |
|---|---|
| `Checkout` | tools, gh, auth, clone, bootstrap guard (`runner.ts` 491-682) |
| `RunCommands` | given commands, or the test commands of a non-patch task (753-769) |
| `StartComment` | `task-normalizer.ts` 154-170 |
| `CommentOnly` | the summary of the comment lane, which names the pull request it is about (`task-normalizer.ts` 93-107) |
| `PatchCommand` | the agent, 118-153; `AgentRecord` lists what it may leave behind and print |
| `PatchGuards` | read-only guard and pre-PR bootstrap guard, 172-260 |
| `NothingToPublish`, `RefuseNewPr`, `OpenPr` | no diff; `forbidNewPr`; commit, push, `gh pr create` with its fallback, 300-352 |
| `UpdateBranch` | the branch update after the PR, which may bring in files of the base (`runner.ts` 521-567) |
| `PostGuard` | the guard after the commands (684-751) |
| `Killed` | the container dies at any point (external) |

`RunTask`: `host[r]` is where the call of `runTask` stands, between two awaits
that matter to another actor; `timedOut` and `code` are `spawnWithTimeout`'s;
`res[r]` is the result being built; `disk[r]` is `manifest.json`, separate from
`res` because the process may die in between; `posts` are the comments.

| Action | Code |
|---|---|
| `Launch`, `StartContainer`, `EngineFails`, `CliExits` | spawn (`runner.ts` 12-60) and the engine, which may also lose a container that goes on (external) |
| `TimerFires`, `CliKilled`, `Close` | `spawnWithTimeout`, 1471-1505 |
| `WriteManifest` | 61-77: sanitized task, listing, first manifest; rejects when a live or a killed container is in the way |
| `Settle` | 78-119: ok and status, recovery by PR URL, missing patch command, second write |
| `SkipComment`, `FindComment`, `PostComment` | the comment branch of `collectGitHubEvidence` and `postIdempotentEvidenceComment` |
| `Classify` | classification, release gate, fail-closed, hints and projection, 121-143 |
| `Prove` | execution proof and last write, 145-165 |
| `Crash` | the host process dies (external) |

`RunContract` knows only that a run begins, that its engine ends, that it then
leaves at most one comment, and decides once; and that a run which decides ok
did not tell the issue it is blocked. A run may be lost. `RunTaskRefinement`
maps `host` to the contract's stages.

### 2.2 The handler and the cursor

`HandlerEvidence` holds the functions of `integration.ts` that read a result:
`ExtractGitHubEvidence`, `HandlerStatus`, `EvidenceKind`, `EventStatus`,
`EventUrl` and the labels. Each is a chain of conditions of its own in the
code, and is one here. `RunReport` puts `RunTask` between them: `payload` is
what the broker sent, `BuildRunnerTask` the task the handler builds of it
(`buildRunnerTaskFromHandlerPayload` and the normalizer), and `Raw(r)` the JSON
a returned run prints. No function of the report is given a result that a run
cannot return.

`TerminalCursor` takes those events further. `events[t]` are the events of a
task's runs, oldest first; `Report` adds one, `Deliver` sends an entry that is
still open (seen or not; the receipt may lack a trace or the id), and `Decide`
asks one of the two deciders. Receipts stay, so each may be read late, more
than once or never. The outbox, the provider and the broker are not in this
repository: they are what the arguments of the deciders and the fixtures of
the tests show. `OperatorCursor` is the promise: an outcome is reported, shown,
closed, in this order, and never reopened.

### 2.3 Directories and history

`RunStore`: `root` and `dir` are the directories that exist, `born` and
`created` their two ages, `manifest` what is in `manifest.json`, which may be
cut short. A run is `MakeTaskRoot`, `MakeRunDir`, `WriteRunJson`,
`TruncateManifest`, `FillManifest` (three times at most) and `Return`, or a
`Crash` in between; a directory that is missing is made again where `mkdir` is
recursive in the code. Cleanup is `ListTaskRoot`, `JudgeRun`, `RemoveRun`,
`CheckTaskRoot` and `PruneTaskRoot` with the time read once; the readiness scan
is `ScanTaskRoot`, `ReadRunJson`, `ReadManifest`. `Tick` lets time pass, but
leaves no run unfinished beyond `RunLimit`, since `spawnWithTimeout` kills it.

`HistoryScan` looks at the same scanner from further away: a walk is a step,
and what is modelled is what it makes of what it saw. `ScanHistory` and
`ReadinessScan` cut, sort and count, `BuildCleanupDryRunPlan` filters, sorts
and cuts again, while runs come, end, grow old and go between one report and
the next. A run may crash between two of its first writes (no run directory, no
`run.json`), a task directory may become unreadable (`Seal`) and is then an
orphan to the readiness scan and nothing to the history scan.

### 2.4 Approval

`ApprovalGate`: `review` is what the operator said of each gate, and may change
at any time; a rehearsal (`Rehearse`) decides by it and writes its files one
after the other (`WriteFile`), or dies in between (`Crash`); `files` is the
output directory, which rehearsals share. `Plan` reads the packet that is there,
and makes the actions, the preflight checks P0 to P6, the failure semantics and
the simulation. `ExecutionPreflight`: `packet` is approved beside a manifest,
and manifest, packet, history and scan profile go on changing until
`BuildPreflight` makes a capsule of what is there then, with the idempotency key
(`PlanSeed`) by which a consumer knows it again.

### 2.5 Templates and proof

`TaskTemplates` are the functions from the submitted task to the one that runs,
in the order of the code: the registry, `ResolveTemplate`, `ExpandTask`
with `MergeRepos` and `MergedEnv`, `NormalizeTask`. A text is what it says with
a value or `Unfilled` for each placeholder. `ExecutionProof` submits a task
(`Submit`), ends its run in any way `spawnWithTimeout` knows (`End`), and makes
the proof (`Prove`); then the kept task, the kept output, or single digests
drift. `Json` says what of a task `sha256Json` digests: the list of keys it
gives to `JSON.stringify` also filters every nested record. `HintCategory` and
`ClassifyFailure` are the two classifications of one result. `Phrases` are what
they and the outcome of the evidence look for, apart where two expressions are
(memory, the budget stop), and each may also come after the first 8000
characters, where some readers still see it (`Pasts`).

### 2.6 The worker's host

`OpenClawPatchCommand` is the script that `buildOpenClawPatchCommandScript`
generates, one action per block: `CheckMount`, `CheckCli`, `CopyConfig`,
`GuardSessionStore`, `SetWorkspace`, `RunAgent`, `ScrubLeaks`,
`RequireChanges`. `GatewayWrites` is the gateway of the host, which goes on
writing the session registries that the guard reads. `Checks` and
`ClassifyReadinessFailure` are the readiness validation of the same container,
and `PrintedCategory` is what the lines the script printed stand for in `runner.ts`.
It is not yet the category of the run: `HintCategory` of `ExecutionProof` is,
and for a GitHub run it gives the outcome of the evidence first.

`WorkerOps`: `env` is the environment of the worker and `host` the machine
(engines, images, task root, token, readable directories, what is deployed).
`Config` is `loadConfig` with its policy; `Doctor` makes all of the doctor's
checks, the deployed revision and the deploy marker included, and may create the root;
`Install`, `Run`, `RefusedRun` and `Reconfigure` are the operations around it.
`DeployedRevision` is `checkDeployedRevision`, one action per git call
(`ReadHead`, `ReadBranch`, `ReadStatus`, `Judge`), while deploys, edits, local
commits and pushes come in between and the remote may not answer.
`WorkerCapacity` is the probe, one action per subsystem, while the load changes.

### 2.7 Abstractions

A URL is the run that created the object, `OtherPr` (some other pull request)
or `NoUrl`. Exit code 1 stands for every non-zero code but 2 and 4, which the
guards use. Time in `RunTask` is whether the timer has fired. The agent is any
member of `Agents`, chosen when it runs. GitHub with `Flaky` refuses listings,
throws, refuses posts and loses answers. `Overlap` lets the broker start a run
while another is unfinished. Even without `Overlap` the container of an earlier
run may be alive, since a run ends when its CLI does. A run that rejects while
it writes its last hints is not distinguished from one that crashes there.

A digest stands for what it is the digest of (two different things have two
digests). Names in ids are kept as far as the id keeps them: `SafeName` in an
`eventId`, `ShortName` in the id of a cleanup candidate. Texts are sets of the
phrases that a classifier searches for. Memory and disk are in twentieths,
fine enough for each threshold to be met and passed.

## 3. What TLC checks

| Run | Instance | Question |
|---|---|---|
| `single` | 1 run of `RunReport`: the tasks of 17 payloads and 17 of the command line (19 different ones), 112 agents, `Flaky`, `MayCrash` | Do verdict, manifest, comment, pull request and every report of them agree, is what was asked kept, does the run end? |
| `retry` | 2 runs in sequence of one patch task that allows no changes, `MayCrash`, symmetric runs | Does a retry find the comment of the earlier run, is every failure announced? |
| `overlap` | 2 runs at a time of a command task, with and without a passing release gate, `Flaky` | Is what a run says about itself true next to another run, does it keep the contract? |
| `cursor` | a round of 2 tasks, 2 attempts each, 2 receipts, either decider | Is nothing closed that no operator has seen, is no other outcome taken for a replay? |
| `store` | 2 runs of one or two tasks with cleanup, or 1 run with the scan; a ttl of 2 and runs of at most 1, over 4 moments | What may cleanup take, and what may the scan say of a run at work? |
| `history` | 2 tasks whose directories may become unreadable, 2 run tokens, 3 ages, limits of 1, 2 and the default of 3 | Do report and plan add up, is a profile full? |
| `approval` | 1 soft and 1 hard gate, 3 ways to plan; 2 manifests, 2 capsules | Is a plan earned, and has a replay the verdict of the first time, whatever changes meanwhile? |
| `proof` | 9 tasks with and without templates, every ending of the CLI, any two phrases in its output and one that is cut off | Do the two classifications contradict each other, is what verifies what ran, has the task the last word? |
| `worker` | 19 environments on the hosts of `FewHosts`; the patch command with 2 agents and 3 paths; 2 commits; 216 machines for the probe | Is a doctor's ok, a success, a revision and a lane earned? |
| `claim_done`, `claim_malformed`, `claim_env` | as `retry`, `store` and `proof` | section 3.1 |

Properties of `single`, `retry` and `overlap`:

* `TypeOK`: types.
* `TimeoutIsFailure`: the timer may fire after exit code 0 and before close;
  neither result nor manifest then says success.
* `DoneIsEarned`: Done is posted only by a run whose container has exited with
  0 behind the last guard, in time, and without a pull request.
* `PrIsNotLost`: a pull request that was seen is not reported as a failure
  because a later step failed; a log of the task's commands that holds the line
  about a missing patch command fails the run, and it is named then, too.
* `OkHasEvidence`: an ok GitHub task has a pull request or a Done comment; the
  two exceptions the code makes are spelled out.
* `ManifestIsHonest`: a `done` manifest was earned, also after a crash, and an
  ok result leaves no failed manifest.
* `OutcomeIsTrue`: the host reads the lines of the script and those of the
  task's own commands and agent as one output. Unless one of the latter is the
  line, a no-change outcome is one of a run without diff or pull request, though
  its container may have been killed, and pull request and Block go together
  only after a timeout.
* `ReportsAgree`: the handler's status, its risks, the event, the brief, the
  report and the operator's action tell one story of every result, and a budget
  stop is never closed out as done.
* `EventIsEarned`, `ProjectionAgrees`: the event names what is there, and says
  what the projection in the manifest says.
* `AskedIsKept`: a payload that asks for no pull request, under any of the names
  the flag has, gets none.
* `PrIsGuarded` (action property): no pull request without the Start comment,
  on a read-only task, against `forbidNewPr`, or with a bootstrap file.
* `RunsEnd` (liveness): every launched run ends though its container may not.
* `OneCommentPerKind`: one comment of a kind, if runs do not overlap and GitHub
  answers. It is false under `Overlap` or `Flaky`; both are limits of a lookup
  of one page followed by a post.
* `FailureIsAnnounced`: a failed run has a Block comment, its own or an earlier
  one, under the same conditions.
* `EvidenceIsReal`: a comment or own pull request that a run names exists.
* `KeepsContract` (refinement): `RunTask` implements `RunContract`.

Properties of the other runs:

* `LatestIsSeen`: an entry that is complete is one whose evidence an operator
  has seen, though receipts are late, repeated or of another event.
* `ReplaysAreEqual`: an `eventId` that comes again shows the operator the same.
* `KeepsPromise` (refinement): `TerminalCursor` implements `OperatorCursor`.
* `RecentIsKept`: cleanup never takes the directory of a run that is younger
  than the ttl, if its task has no other run; `LossIsConfined` (action
  property) says what is lost if it has: directories made after cleanup began.
* `CleanupIsComplete`: what was as old as the ttl is gone after cleanup.
* `VerdictNeedsEnd`: the scan calls ended, stale or fine only what has ended.
* `PlanAddsUp`: a plan lists the candidates of its report, each once and as many
  as its limit allows, and the report counts its own entries.
* `ProfileIsFull` (action property): no run that is too young takes the place
  of another, no run appears twice, and a limit that reaches all leaves out none.
* `PlanIsEarned`: a plan passes only on a packet all of whose gates passed, no
  override is offered for a failed gate, and the simulation says no more than
  the preflight.
* `BundleAgrees`: the files of rehearsals into one directory tell one decision
  when none is under way or was cut short.
* `ReplayKeepsVerdict`: two capsules with one idempotency key are both ready or
  both blocked, whatever manifest, history and packet became in between. The
  exceptions are what the key leaves out: the digest that was expected, and the
  decision if the packet's dedupe key was given by the caller.
* `VerifiedIsWhatRan`: what verifies is of the commands, prompt, mode, template
  and output that ran, whatever drifted.
* `TaskHasTheLastWord`: no template overrides what the task sets itself.
* `ClassifiersAgree`: hints and proof of a GitHub run do not contradict each
  other on success, timeouts and memory, though they search for different words,
  in texts of different length; and why the container failed is left to the
  hints only beside a pull request without a patch command.
* `DoctorForetells`: on an untouched machine an ok means that runs reach the
  patch command, unless a list of mounts displaced the profile's own. A failure
  names a cause: if runs come there all the same, then only those checks failed
  that no run depends on, the source of an extra mount, the deployed revision
  and the deploy marker.
* `SuccessIsEarned`, `ScrubSparesTracked` (action property), `MainWorksApart`,
  `ReadinessForetells`: the patch command succeeds only with an agent that
  ended well, changes, and no bootstrap file left; it never removes tracked
  content; an agent works apart from the host, except another than main whose
  entry names a workspace; and what the validation before the task says is what
  the script finds, down to what the line stands for that it prints. Whether
  that becomes the category of the run is for `HintCategory` of `ExecutionProof`
  to say; for a GitHub run without a pull request it does not.
* `OkWasUpstream`: a revision that is ok is a commit of upstream main.
* `LaneIsMonotone`: more load never earns a larger lane.

**Bounds.** One run is enough for `single`: every property there speaks of one
run, and runs touch each other only through comments and the broker's order. The
tasks vary each field from a complete patch task and cover every lane, and the
payloads vary each flag with and against its alias. Of the agents, `EveryAgent`
leaves out some combinations: one that leaves a bootstrap file prints no marker,
one that prints too much leaves no URL of another pull request (the code would
find it, `extractPrUrl` reads all of the output), and an agent that does the one
or the other prints one marker at most, the others two. The theorems hold for
every agent. Two runs are enough for what runs do to each other, a lookup finds
one earlier comment. Two attempts of two tasks give the cursor every pair of
events that could share an id, and two receipts every pair that could be
confused. In `store` cleanup compares one run with one other at most, and the
scan reads one run at a time, so it is checked with one; `MaxTime` is twice the
ttl, `StaleAge` is 0 so that any unfinished run is a candidate. Three ages in
`history`, limits below the number of runs and the default near it; a report and
its plan are dropped with the next step of a run, so that no state differs only
in what an earlier directory gave. One gate of each kind suffices where gates
are only compared with failed or not. In `proof` two phrases meet every order of
two conditions, and one that is cut off tells the readers of the whole output
from the others; only a run that is ok drifts, since verification does not look
at how a run ended. In `approval` and in `worker` the modules share no state and
each property speaks of one of them, so that in every behaviour only one of them
moves (`part`). On the hosts of `FewHosts` at most one place is unreadable, and
with such a place, or another revision than the expected one, root and token are
in order; the scripts of another agent, and those that may have to install the
CLI, have a checkout without a path of its own (`PlainCheckout`). `MaxCommits` 2
is one commit that is old and one that is new; `MaxPackets` 2 is what a
comparison needs; the loads are the thresholds, and one above.

**Deadlock.** `CHECK_DEADLOCK FALSE` in all runs but `history`: a system whose
runs have all ended, whose script has exited, or whose bound of plans or
packets is reached, rightly stops.

**Fairness.** `single` uses `Fairness` of `RunTask`. It assumes that the timer
fires if the run still waits, that SIGKILL ends the CLI, and that each await of
the host is answered or fails. Node keeps the timers and the close event alive
as long as the CLI lives. The assumption on awaits is real: `fetch` has no
timeout of its own, and a GitHub that accepts a connection and never answers
would hang a run until the client library gives up. Nothing is assumed of the
broker, the engine, the agent or the container, and none of the script's
actions is fair. The other specifications state no fairness: a notifier is not
bound to deliver, an operator not to review, and cleanup not to be called.

**Mutants.** `PROJECT.json` names for every property a plausible bug in the
code (operators named `Bug_...`) under which TLC finds it violated.

### 3.1 Where the code and its documentation disagree

Each of these runs checks one statement from the repository, and TLC finds a
trace of the code that contradicts it.

| Run | Statement | What the trace shows |
|---|---|---|
| `claim_done` | github-evidence.ts:504: Done is used when the task succeeded | the release gate fails the run after Done was posted |
| `claim_malformed` | scanner.ts:722: malformed runs are already corrupted, safe to clean | a run has no manifest until its container ended, so each run at work is malformed |
| `claim_env` | types.ts:72: `expandedDigest` is of the expanded commands and env | the key list of the digest drops the entries of env, and a proof verifies against another environment |

### 3.2 Divergences noted while modelling

What follows was met in the same way, by translating the code and comparing it
with what is written of it. The models show each of these behaviours, and the
properties above are stated so that they hold beside them. None has a run of
its own.

*Run and evidence.*

* docs/artifact-manifest.md:47: a patch task fails without a PR, Done or Block
  URL. The no-change lane (`github-evidence.ts` 226) and a budget stop that
  exits 0 (231) return ok without one.
* docs/artifact-manifest.md:25: a stability gate finds `resource_limited` and
  `exit_nonzero` in the hints. Those of a GitHub run are first what its evidence
  came to (`runner.ts` 268), so the two show only beside a pull request of a run
  without patch command, and for tasks without evidence.
* docs/artifact-manifest.md:14: `budget_limited` is not Done. A budget stop that
  exits 0 posts Done (`github-evidence.ts` 230).
* runner.ts:80: a PR URL in the output of a failed container means the PR was
  created. Any pull request that the log mentions counts (84), and README.md:199
  notwithstanding, it also turns exit 4 of a read-only run into ok.
* github-evidence.ts:160: artifacts are checked for a PR URL too. Only standard
  output is read, though the pipeline may end well on a URL of the artifacts.
* README.md:135: the evidence is a PR, a Block or a Done. A timeout after the
  pull request gives PR and Block (`github-evidence.ts` 172).
* docs/integration.md:158: a timeout returns `ok: false, status: "timeout"`. The
  run rejects on artifacts that a live container owns, and missing evidence
  overwrites the status (`runner.ts` 61, 131).
* README.md:225: no changes and a Done comment give the no-changes outcome. More
  than 8000 characters of log push the marker out (`github-evidence.ts` 245). The
  same line from the task's commands gives the outcome, whatever they changed,
  and `error=no_patch_command_configured` from them fails the run (`runner.ts` 167).

*Handler.*

* README.md:300: a budget-limited run is shown as blocked. With a pull request
  it is reported as done (`integration.ts` 583).
* integration.ts:915: an acknowledgement needs PR, Done or Block evidence. Only
  `buildTerminalAckDecision` asks for it; `decideTerminalEvidenceAck` (835)
  completes any event.
* integration.ts:286: the n of n/N counts completed tasks. It is the payload's
  sequence or the parent's order (1248), whatever the outcome.

*Directories.*

* ops.ts:61: a task root is removed only when no other entries remain. It is
  read and then removed recursively (132), with a run that came in between.
* scanner.ts:613: stale is an unfinished run. `TERMINAL_STATUSES` (624) leaves
  out `budget_limited`, and such a run grows stale after it returned.
* types.ts:793: the manifest's status is the task's outcome. A bundle made
  between two writes copies one that is still to change (`scanner.ts` 455).
* scanner.ts:715: an orphan has no valid runs and is of lowest risk. A task
  directory that cannot be read is one, whatever it holds (893).
* scanner.ts:174: the limit is applied after the sort. The walk stops at the
  limit before (163).
* scanner.ts:638, 666: candidate and plan ids are stable and derived from what
  they name. The first ends in an index (761), the second is made of three
  counts (796), which another set of directories may share.
* worker-capacity-probe.ts:79: a summary of timeouts. Nothing that a run writes
  is in the place `readTimedOut` looks (`scanner.ts` 330).

*Approval.*

* types.ts:1044: no duplicate plan ids. Neither repository nor branch is part of
  one (`execution-orchestrator.ts` 392).
* execution-orchestrator.ts:173: a binding must be present. A missing one is
  replaced by an empty one (69), which passes.
* source-public-preflight.ts:27: a digest that does not match blocks. One that
  is not 64 lower-case digits is dropped (44).
* A replay is known by the idempotency key. The digest that was expected is not
  part of it, nor is the decision, if the caller gave the dedupe key.
* source-public-preflight.ts:110: stale history blocks. Only missing history
  does (47).

*Templates and proof.*

* execution-proof.test.ts:126, 175: a missing engine and missing evidence are
  named in the proof. The texts that `runTask` puts into the error (`runner.ts`
  1423, 131) are not those the classifier looks for.
* types.ts:70: the input digest is of the task before expansion. `runTask` hands
  over the expanded one (`runner.ts` 148).
* task-templates.ts:123: an unresolved template throws. With an inline template
  beside it, that one is used (62).
* types.ts:43: optional variables have defaults. No default is ever applied
  (`task-templates.ts` 135).
* task-templates.ts:117: duplicate URLs are merged. A short and a long form of
  one repository are two (186).

*Host.*

* README.md:40: an empty `sessions.json` blocks. The guard inside the container
  looks at `main`, since nothing passes the agent's id on (`config.ts` 376); for
  the same reason an agent other than main keeps its host workspace, though
  config.ts:446 says that configuration and environment must agree.
* The policy on mounts knows paths by their names (`config.ts` 184, 596): a
  parent of a protected directory, another directory given as OpenClaw's own, and
  Claude's under another name are mounts like any other.
* config.ts:369: a backup buildup refuses the run. It is a warning (413).
* config.ts:550: what is refused was not safe to scrub. A path that was removed
  with its ignored directory counts as unsafe (538).
* openclaw-profile-readiness.ts:45, 49, 6: the categories tell of a failed
  install, of a CLI without version, of an explicit path. The validation does
  not know of the install (199), the script never prints
  `openclaw_version_failed` (`runner.ts` 311), and a path without PATH does not
  resolve (116).
* README.md:422: doctor reports readiness. With the configured engine missing it
  checks the other one and says ok (`ops.ts` 217).
* README.md:450: a legacy template is reported. `loadConfig` throws first
  (`config.ts` 574).
* README.md:592: with `githubPatch.status` ok all patch tasks may be routed. A
  list of extra mounts takes away the profile's own (`config.ts` 112): each run
  then ends for want of the mount, and the doctor, which looks at the mounts it
  is given, says ok.
* README.md:431: stale and dirty checkouts are warned of. A stale one is ok when
  the remote does not answer (`ops.ts` 540), a dirty one when git status times
  out (276).
* types.ts:1154: unread capacity is unknown. `known` is always true, and an
  unread disk counts as one with room (`worker-capacity-probe.ts` 360).
* worker-capacity-probe.ts:320: errors are collected. `probeDisk` swallows its
  own (136).

## 4. What is proved

`RunTaskProofs` proves, for any set of runs, any tasks, any agents and any
combination of `Overlap`, `Flaky` and `MayCrash`:

| Theorem | States |
|---|---|
| `TypeCorrect` | `Spec => []TypeOK` |
| `Invariance` | `Spec => []IInv` |
| `TimeoutSafety` | `Spec => []TimeoutIsFailure` |
| `DoneSafety` | `Spec => []DoneIsEarned` |
| `EvidenceSafety` | `Spec => []EvidenceIsReal` |
| `ManifestSafety` | `Spec => []ManifestIsHonest` |
| `PrSafety` | `Spec => PrIsGuarded` |
| `Refinement` | `Spec => KeepsContract` |

`RunReportProofs` first adds, of the same runs:

| Theorem | States | Assumes |
|---|---|---|
| `PrReported` | `Spec => []PrIsNotLost` | |
| `OkNamesEvidence` | `Spec => []OkHasEvidence` | |
| `FailuresAnnounced` | `Spec => []FailureIsAnnounced` | `~Flaky` |
| `CommentsAreReused` | `Spec => []OneCommentPerKind` | `~Flaky`, `~Overlap` |

The other proof modules:

| Module | Theorem | States |
|---|---|---|
| `TerminalCursorProofs` | `ReplaySafety` | `Spec => []ReplaysAreEqual` |
| | `SeenBeforeClosed` | `Spec => []LatestIsSeen` |
| | `CursorRefinement` | `Spec => KeepsPromise` |
| `ApprovalChainProofs` | `PlanSafety` | `GateSpec => []PlanIsEarned` |
| | `BundleSafety` | `GateSpec => []BundleAgrees` |
| | `ReplaySafety` | `PreflightSpec => []ReplayKeepsVerdict` |
| `WorkerHostProofs` | `DoctorRight` | `OpsSpec => []DoctorForetells` |
| | `EarnedSuccess` | `CommandSpec => []SuccessIsEarned` |
| | `TrackedSpared` | `CommandSpec => ScrubSparesTracked` |
| | `MainApart` | `CommandSpec => []MainWorksApart` |
| | `ReadinessNames` | `CommandSpec => []ReadinessForetells` |
| | `RevisionSafety` | `RevisionSpec => []OkWasUpstream` |
| | `LaneSafety` | `CapacitySpec => []LaneIsMonotone` |
| `RunReportProofs` | `ToldInvariance` | `Spec => []Told` |
| | `OneStory` | `ReportSpec => []ReportsAgree` |
| | `EarnedEvents` | `ReportSpec => []EventIsEarned` |
| | `ProjectionTold` | `ReportSpec => []ProjectionAgrees` |
| | `TrueOutcomes` | `ReportSpec => []OutcomeIsTrue` |
| | `AskedReachesGuards` | `ReportSpec => []AskedIsKept` |
| `RunStoreProofs` | `StoreInvariance` | `Spec => []StoreInv` |
| | `VerdictSafety` | `Spec => []VerdictNeedsEnd` |
| | `LossesAreOld` | `Spec => LossIsConfined`, if `RunLimit < Ttl` |
| | `RecentSurvives` | `Spec => []RecentIsKept`, if `RunLimit < Ttl` |
| | `CleanupCompletes` | `Spec => []CleanupIsComplete`, if `Ttl > 0` |
| `HistoryScanProofs` | `HistoryInvariance` | `Spec => []HistoryInv` |
| | `PlansAddUp` | `Spec => []PlanAddsUp` |
| | `ProfilesAreFull` | `Spec => ProfileIsFull` |
| `ExecutionProofProofs` | `OnlyWhatRanVerifies` | `Spec => []VerifiedIsWhatRan` |
| | `LastWord` | `Spec => []TaskHasTheLastWord` |
| | `OneClassification` | `Spec => []ClassifiersAgree` |

They speak of each module by itself; `MCApprovalChain` and `MCWorkerHost` let
one of several modules move, so that a behaviour of theirs is one of these.

The two hypotheses on the ttl are needed, and stated in the theorems and not in
the module because the command line takes any number (`parseTtlMs`, `cli.ts`
58). With a ttl no longer than a run, TLC finds a run that is judged old, goes
on, and loses what it wrote since; with a ttl of 0, a directory that appears
after its task directory was listed is old at once and on no list. The defaults
are a day, and a quarter of an hour for a run.

The assumptions are those the modules state on their constants: there is a run,
the URL constants differ, tasks and agents are records of their types, and the
modes are booleans (`RunsAssumption`, `TasksAssumption`, `AgentsAssumption`,
`ModesAssumption`); outputs are raw outputs (`CursorAssumption`) and the names
of a round's tasks stay apart in an id (`NamesAssumption`: without it two tasks
could share an `eventId`); soft and hard gates are different
(`GateAssumption`); the settings of the store name runs and calls
(`StoreAssumption`); names and tokens of the history are numbers in their
order, apart from those of an orphan (`ScanAssumption`); environments are records of their type and only a list of
mounts has mounts (`EnvsAssumption`); `Above` is a strict order
(`CommandAssumption`); a task has its fields and its commands are sequences, an
exit code is below 256, outputs are sets of phrases and no signal is called
`none` (`ProofAssumption`); the bounds are numbers. TLC evaluates them in every
run.

**The invariant of the run.** None of the properties is inductive. `Done` is
posted three steps after the exit code was read and several after the script's
last guard, so what holds at the post must be carried along. `IInv` has, for
each run:

* `CliInv`: an idle run has no CLI, a run that is past waiting has one that
  exited, and an exit code 0 of the CLI is the exit code of the container;
* `GuardInv`: what holds at each place of the script: behind the start block
  the Start comment is posted, behind the guards there is no bootstrap file and
  no read-only diff, a script that exited with 0 left no bootstrap file;
* `OutInv`: what a script prints is about itself: a PR URL of its own is open;
* `ResultInv`, `ManifestInv`: the result and the disk at each place of the host;
* `PostInv`: what is known of a run that has posted.

and `PostingOwes`: a run that is about to post owes a Block or a Done, without
which `posts` would lose its type. The proof has one step per action. Three
lemmas carry most of it: a step of the script of one run leaves every other run
as it is (`OtherRuns`, `FramedRun`), and steps of the script, of the engine and
of the host each keep the invariant of their run (`ScriptKeepsRunInv`,
`EngineKeepsRunInv`, `HostKeepsRunInv`). `PrIsGuarded` follows from `GuardInv`
at the only step that opens a pull request. `Refinement` shows that `SameStages`
holds for every step but the launch, the close, the post, the verdict and the
losses, which are steps of the contract.

The theorems on verdicts use a second layer of invariants on top of `IInv`:
`OutputInv` (the pipeline prints nothing that counts before the patch command
runs, so its notice of a missing command comes without a PR URL; any other one
is in the log of the task's commands, `Misled`),
`TentativeInv` (a pull request seen in time makes the tentative verdict ok) and
`FinalInv`. `FailuresAnnounced` carries `AnnounceInv` (a run that owed a comment
has bound it by the time it classifies), and `CommentsAreReused` carries
`OneActive` and `LookedUp`: without overlap nobody posts between a lookup that
found nothing and the post that follows it.

**The report.** What the handler says of a run is computed from its result and
manifest, so `RunReport`'s properties are facts about a third layer of the run's
invariant, `Told`. `PlaceInv` follows the script: only the patch lane runs the
pipeline, its pull request is the last act but one, and the notice of no changes
comes instead of it and never beside it. `BoundInv` says what result and
manifest have in common once they are settled: that a Done excludes a pull
request, and a Block does unless the timer fired. `OutcomeInv` says that what an
outcome was derived from has not changed since. `EvidenceCases` then names the
four ways in which the handler can extract evidence, `KindOfCases` the kind of
event each gives, and the properties are read off case by case.
`OnlyOpenPrOpens` (in `RunTaskProofs`) says that one action opens pull requests;
`AskedReachesGuards` follows the task from the payload to that action's guard.

**The store.** Runs, cleanup and scan share files and no lock. `StoreInv` has
`DirInv` (how far a run is and what is on disk), `LimitInv` (no run is left
unfinished beyond its limit), and `WalkInv`: when the command is about to
remove a task directory that looked empty, what has appeared in it since is
younger than the command. `RemovalInv` says that what is on the list of expired
runs is over for good, not only old: that is where the ttl must be longer than a
run, because `createdAt` is later than the directory and the run may still work.
`ListedInv` says that what is old when cleanup begins is on one of its lists
until it is gone; a run's step cannot break it, because what it makes or dates is
dated now.

**The history.** `HistoryInv` says little more than that no two runs have one
token. The work is in what lists do with a finite set, and needs no induction:
`Listable` orders a set by giving each member the number of those before it as
its place, and two injections between sets of one size are bijections. So a walk,
a sort by token and a sort by id (`WalkIsBijection`, `ByTokenRearranges`,
`IdsAreBijection`) each hold what they were given, every member once, and a cut
is a prefix (`CutIsPrefix`); `ReportIsTallied` and `PlanOfTally` count along
those. An id ends in the candidate's place, which is why names that are cut
alike do not fall together.

**The execution proof.** Any part may drift any number of times, but the chain
of a proof is never rewritten (`ChainInv`), and it holds what `verify` compares.
`ResultInv` keeps how the CLI ended beside what the classifiers read.
`OutcomeFacts` says what the evidence can have come to after each ending,
`HintFacts` and `FailureFacts` what either classifier makes of a result, and
`CategoriesAgree` puts the three together, case by case of the outcome. `LastWord` needs no
invariant but that the task is one of `Tasks`: it is a fact about
`ExpandTask` and `NormalizeTask`, with `ConcatEndsWith` for the commands.

**The cursor.** `IdDetermines` is its core: status, kind, URL and the task's
name in an `eventId` give back the whole event. `CursorInv` adds that what was
shown was emitted, and that a receipt which says visible, and an entry that is
complete, each belong to the id of an event that was shown. A decision then
completes only ids of shown events; the latest event of a task has the evidence
of the one that was shown, because they share the id. The refinement maps
`Report` to the report of an outcome, `Deliver` to showing it or a stutter, and
`Decide` to closing it.

**The approval chain.** What a packet tells need not be what the review says by
the time a plan is made, so `GateInv` says that a packet's decision is always
that of its own gates (`TruePacket`), in the job and on disk, and that the job
has written of its own packet what it has written so far. `PlanEarned` shows of
a plan of any such packet what the property says. `CapsulesInv` says of
each capsule that its key and its reasons are of one packet, manifest and
history, and of a packet that its dedupe key is the caller's or made of
repository and decision; `OneKeyOneVerdict` compares two such capsules.

**Revision and lanes.** An ok compares the head that was read first with what
the remote, or the last fetch, says at the end; `Tracked` says that what was
fetched is of upstream main and that upstream only grows. `CapacityInv` says
that a packet's lane is that of its own readings, and `GoodPacketsAreMonotone`
that the fold is monotone for such packets.

**The doctor.** Doctor, install and runs make the task root and pull images;
`SameHost` says that nothing a verdict or an outcome depends on changes by that.
So `FreshInv` (a fresh report is the one the doctor would make now) and `RanInv`
(the last run came as far as one would come now) are inductive, and the property
compares two functions of one host: `EngineForetold` shows that both look at the
same engine, `OkForetells` and `FailureNames` the two halves.

**The patch command.** `StepInv` says what each place of the script has behind
it, `MissInv` how it begins to fail, `WorkspaceInv` where the active agent works
once that is written. What the gateway writes meanwhile disturbs none of them: it
changes registries, and only the guard reads those. `ScrubbedUntracked` holds
because git tracks a directory when it tracks a path in it (`GitRules`).

**Only model-checked.** `RunsEnd` is liveness, out of the prover's reach. Every
other property of the passing runs is stated by a theorem.

## 5. Not modelled

Left out for good, and why:

* argument parsing and the ttl syntax of `cli.ts`, the engine smoke test (one
  scripted `docker run`), and the release, canary and deploy scripts under
  `scripts/`: one-shot programs that keep no state;
* redaction patterns, sanitizers of names and texts, the wording of comments,
  alerts, briefs, reports and advice, except for the phrases and markers that
  another part of the code searches for;
* `createArtifactBundle` and the audit reports, which copy or list what is
  there, and `probeTaskHistory` and the scheduling hint, which repeat readings
  that are modelled elsewhere;
* `postStartComment` (no production path calls it) and the ledger fields of the
  evidence that only a chat shows;
* the agent, the engine, GitHub, npm, the gateway and the outbox: external, as
  the code sees them.

What a next step could add: the parts of the components listed as `partly` in
`PROJECT.json` (the notes there say which), and the removal of a run's directory
seen through a second cleanup that overlaps the first.
