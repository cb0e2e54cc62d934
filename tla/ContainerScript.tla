-------------------------- MODULE ContainerScript --------------------------
(***************************************************************************)
(* The bash script a run executes inside its container: the frame that     *)
(* runner.ts generates (buildContainerScript) around the commands that     *)
(* task-normalizer.ts supplies (defaultCommands, the default patch         *)
(* pipeline).  Several runs of one task may be alive at once: every run    *)
(* has a container of its own, and all share the issue and the repository  *)
(* on GitHub.  The script never looks at the host; the host can only       *)
(* detach from it (variable cli), after which nothing it prints is seen.   *)
(***************************************************************************)
EXTENDS Integers, FiniteSets

CONSTANTS
  Runs,       \* the runs (runTask calls) of the task; the broker may retry it
  NoUrl,      \* absence of a URL
  OtherPr,    \* some pull request that no run of this task opened
  Tasks,      \* the tasks to consider, a set of TaskRecord
  Agents      \* what the patch command may do, a set of AgentRecord

(***************************************************************************)
(* The fields of a task and its configuration that steer control flow.     *)
(*   commands  the task gives commands, or a preset that does              *)
(*   mode      a GitHub patch mode                                         *)
(*   repo      a repository is given            issue  issueUrl is given   *)
(*   gate      worker, issue and title/brief are present and safe          *)
(*   token     config.githubTokenFile holds a token                        *)
(*   patch     a patch command (script, JSON or template) is configured    *)
(*   existing  the task names (or numbers) the pull request it is about    *)
(***************************************************************************)
TaskRecord ==
  [commands: BOOLEAN, mode: BOOLEAN, commentOnly: BOOLEAN, repo: BOOLEAN,
   readOnlyValidation: BOOLEAN, allowNoChanges: BOOLEAN,
   forbidNewPr: BOOLEAN, issue: BOOLEAN, gate: BOOLEAN, token: BOOLEAN,
   patch: BOOLEAN, existing: BOOLEAN]

(***************************************************************************)
(* The lines of the container's output the runner looks for.  The script   *)
(* prints the first two, the commands of a task the third.                 *)
(***************************************************************************)
Markers == {"no_patch_command", "no_changes_allowed", "budget_limited"}

(***************************************************************************)
(* What the commands of a task (the coding agent, or the given commands)   *)
(* may do:                                                                 *)
(*   changed  leave a diff against the base branch                         *)
(*   leak     leave a bootstrap file in the checkout                       *)
(*   mention  print the URL of some other pull request                     *)
(*   stray    leave such a URL in an artifact file (a prompt, a report)    *)
(*   marks    print marker lines, their own or those of a log they show:   *)
(*            their output is one stream with the script's                 *)
(*   verbose  print more than RESULT_STREAM_LIMIT characters               *)
(*   ok       exit with 0                                                  *)
(***************************************************************************)
AgentRecord ==
  [changed: BOOLEAN, leak: BOOLEAN, mention: BOOLEAN, stray: BOOLEAN,
   marks: SUBSET Markers, verbose: BOOLEAN, ok: BOOLEAN]

ASSUME RunsAssumption == Runs # {} /\ NoUrl \notin Runs /\ OtherPr \notin Runs
                         /\ NoUrl # OtherPr
ASSUME TasksAssumption == Tasks \subseteq TaskRecord
ASSUME AgentsAssumption == Agents \subseteq AgentRecord

VARIABLES
  task,       \* the task every run executes; fixed by Init
  cli,        \* the engine CLI the host spawned: "none", "running", "exited"
  box,        \* where each container's script is
  exitCode,   \* the script's exit code once box is "exited"
  repo,       \* what the checkout and the artifact directory hold; log: the
              \* marker lines in the log of the task's commands
  out,        \* what the script has printed while the CLI was attached
  prs,        \* the runs whose pipeline opened a pull request on GitHub
  started     \* the runs that posted a Start comment on the issue

scriptVars == <<box, exitCode, repo, out, prs, started>>

NoCode == -1                     \* null: no exit code (yet)
Codes  == {0, 1, 2, 4}           \* 1 stands for every other non-zero code
PrUrls == Runs \cup {OtherPr, NoUrl}

Boxes == {"none", "checkout", "start", "patch", "commands", "guards",
          "publish", "landed", "comment", "post", "exited"}

(***************************************************************************)
(* Task normalisation.                                                     *)
(***************************************************************************)
AllowsNoChanges == task.allowNoChanges \/ task.readOnlyValidation

Lane ==
  CASE task.commands                     -> "commands"
    [] ~task.commands /\ task.mode /\ task.commentOnly -> "comment"
    [] ~task.commands /\ task.mode /\ ~task.commentOnly /\ task.repo -> "patch"
    [] ~task.commands /\ ~task.mode /\ task.repo -> "commands"
    [] OTHER                             -> "none"

(***************************************************************************)
(* Helpers.  Output is streamed to the host only while the CLI is attached *)
(* (the first PR URL counts wherever it is; a marker counts only within    *)
(* the bounded prefix of the stream).                                      *)
(***************************************************************************)
Alive(r) == box[r] \notin {"none", "exited"}

Goto(r, b) == /\ box' = [box EXCEPT ![r] = b]
              /\ UNCHANGED exitCode

Exit(r, c) == /\ box' = [box EXCEPT ![r] = "exited"]
              /\ exitCode' = [exitCode EXCEPT ![r] = c]

Say(r, url, marks, flood) ==
  out' = [out EXCEPT ![r] =
            IF cli[r] # "running" THEN @
            ELSE [pr    |-> IF @.pr = NoUrl THEN url ELSE @.pr,
                  marks |-> IF @.full THEN @.marks ELSE @.marks \cup marks,
                  full  |-> @.full \/ flood]]

SayMark(r, m) == Say(r, NoUrl, {m}, FALSE)

(***************************************************************************)
(* Base tools, gh, authentication, clone, and the bootstrap guard that     *)
(* runs before the commands.                                               *)
(***************************************************************************)
FirstStep ==
  CASE Lane = "patch"    -> "start"
    [] Lane = "commands" -> "commands"
    [] Lane = "comment"  -> "comment"
    [] OTHER             -> "post"

ToolsFail(r) == Exit(r, 2)

Checkout(r) ==
  /\ box[r] = "checkout"
  /\ \/ ToolsFail(r)
     \/ Exit(r, 1)                               \* the clone failed
     \/ task.repo /\ Exit(r, 4)                  \* bootstrap files tracked
     \/ Goto(r, FirstStep)
  /\ UNCHANGED <<repo, out, prs, started>>

(***************************************************************************)
(* Explicit or test commands, run one after the other under pipefail.      *)
(***************************************************************************)
RunCommands(r) ==
  /\ box[r] = "commands"
  /\ \E a \in Agents:
       /\ repo' = [repo EXCEPT ![r].leak = a.leak, ![r].log = a.marks]
       /\ Say(r, IF a.mention THEN OtherPr ELSE NoUrl, a.marks, a.verbose)
       /\ IF a.ok THEN Goto(r, "post") ELSE Exit(r, 1)
  /\ UNCHANGED <<prs, started>>

(***************************************************************************)
(* The comment lane writes a summary, which is also printed: it names the  *)
(* pull request the task is about.                                         *)
(***************************************************************************)
CommentOnly(r) ==
  /\ box[r] = "comment"
  /\ Say(r, IF task.existing THEN OtherPr ELSE NoUrl, {}, FALSE)
  /\ Goto(r, "post")
  /\ UNCHANGED <<repo, prs, started>>

(***************************************************************************)
(* The default patch pipeline.  It posts a Start comment through gh (no    *)
(* lookup first), and gives up when gh reports a failure, which it also    *)
(* does when the comment is there and only the answer was lost.            *)
(***************************************************************************)
StartComment(r) ==
  /\ box[r] = "start"
  /\ \/ /\ task.issue /\ task.token
        /\ started' = started \cup {r}
        /\ Goto(r, "patch")
     \/ /\ task.issue
        /\ Exit(r, 2)
        /\ \/ UNCHANGED started
           \/ task.token /\ started' = started \cup {r}
     \/ /\ ~task.issue
        /\ Goto(r, "patch")
        /\ UNCHANGED started
  /\ UNCHANGED <<repo, out, prs>>

(***************************************************************************)
(* The patch command, and the return to the runner's own branch (which can *)
(* fail on a dirty tree).  Its log is an artifact, so a PR it mentions is  *)
(* also found there.                                                       *)
(***************************************************************************)
PatchCommand(r) ==
  /\ box[r] = "patch"
  /\ \/ /\ ~task.patch
        /\ SayMark(r, "no_patch_command")
        /\ Exit(r, 2)
        /\ UNCHANGED repo
     \/ /\ task.patch
        /\ \E a \in Agents:
             /\ repo' = [repo EXCEPT ![r] = [changed |-> a.changed,
                                             leak    |-> a.leak,
                                             stray   |-> a.stray \/ a.mention,
                                             log     |-> a.marks]]
             /\ Say(r, IF a.mention THEN OtherPr ELSE NoUrl, a.marks, a.verbose)
             /\ IF a.ok THEN Goto(r, "guards") ELSE Exit(r, 1)
  /\ UNCHANGED <<prs, started>>

(***************************************************************************)
(* The read-only guard and the bootstrap guard, just before anything is    *)
(* committed.                                                              *)
(***************************************************************************)
\* Mutant: the read-only guard is dropped.
Bug_ReadOnlyIgnored(r) == FALSE

ReadOnlyBlocks(r) == task.readOnlyValidation /\ repo[r].changed

LeakBlocks(r) == repo[r].leak

PatchGuards(r) ==
  /\ box[r] = "guards"
  /\ IF ReadOnlyBlocks(r) \/ LeakBlocks(r) THEN Exit(r, 4)
                                           ELSE Goto(r, "publish")
  /\ UNCHANGED <<repo, out, prs, started>>

NothingToPublish(r) ==
  /\ box[r] = "publish" /\ ~repo[r].changed
  /\ IF AllowsNoChanges THEN /\ SayMark(r, "no_changes_allowed")
                             /\ Goto(r, "post")
                        ELSE Exit(r, 2) /\ UNCHANGED out
  /\ UNCHANGED <<repo, prs, started>>

NewPrForbidden == task.forbidNewPr

RefuseNewPr(r) ==
  /\ box[r] = "publish" /\ repo[r].changed
  /\ NewPrForbidden
  /\ Exit(r, 2)
  /\ UNCHANGED <<repo, out, prs, started>>

(***************************************************************************)
(* Commit, push, gh pr create || true.  The push may fail (it does without *)
(* a token); gh may open the pull request and print its URL, open it and   *)
(* lose the answer, or be refused.  Without a URL the pipeline falls back  *)
(* on any PR URL it finds in the artifacts, and gives up without one.      *)
(***************************************************************************)
OpenPr(r) ==
  /\ box[r] = "publish" /\ repo[r].changed
  /\ ~NewPrForbidden
  /\ \/ Exit(r, 1) /\ UNCHANGED <<prs, out>>
     \/ /\ task.token
        /\ prs' = prs \cup {r}
        /\ Say(r, r, {}, FALSE)
        /\ Goto(r, "landed")
     \/ /\ task.token
        /\ \/ prs' = prs \cup {r}
           \/ UNCHANGED prs
        /\ UNCHANGED out
        /\ IF repo[r].stray THEN Goto(r, "landed") ELSE Exit(r, 2)
  /\ UNCHANGED <<repo, started>>

(***************************************************************************)
(* After the pull request: the branch update may merge a base that has     *)
(* gained bootstrap files; the issue comment with the URL is best effort.  *)
(***************************************************************************)
UpdateBranch(r) ==
  /\ box[r] = "landed"
  /\ \/ UNCHANGED repo
     \/ repo' = [repo EXCEPT ![r].leak = TRUE]
  /\ Goto(r, "post")
  /\ UNCHANGED <<out, prs, started>>

(***************************************************************************)
(* The guard after the commands, then status=completed.                    *)
(***************************************************************************)
\* Mutant: the last guard warns instead of exiting.
Bug_PostGuardWarns(r) == FALSE

PostGuardBlocks(r) == repo[r].leak

PostGuard(r) ==
  /\ box[r] = "post"
  /\ Exit(r, IF PostGuardBlocks(r) THEN 4 ELSE 0)
  /\ UNCHANGED <<repo, out, prs, started>>

(***************************************************************************)
(* The container dies (memory limit, forwarded SIGTERM, docker kill); bash *)
(* reports a non-zero code.                                                *)
(***************************************************************************)
Killed(r) ==
  /\ Alive(r)
  /\ Exit(r, 1)
  /\ UNCHANGED <<repo, out, prs, started>>

ScriptInit ==
  /\ task \in Tasks
  /\ cli = [r \in Runs |-> "none"]
  /\ box = [r \in Runs |-> "none"]
  /\ exitCode = [r \in Runs |-> NoCode]
  /\ repo = [r \in Runs |->
               [changed |-> FALSE, leak |-> FALSE, stray |-> FALSE, log |-> {}]]
  /\ out = [r \in Runs |-> [pr |-> NoUrl, marks |-> {}, full |-> FALSE]]
  /\ prs = {}
  /\ started = {}

Script(r) ==
  \/ Checkout(r)       \/ RunCommands(r)      \/ CommentOnly(r)
  \/ StartComment(r)
  \/ PatchCommand(r)   \/ PatchGuards(r)      \/ NothingToPublish(r)
  \/ RefuseNewPr(r)    \/ OpenPr(r)           \/ UpdateBranch(r)
  \/ PostGuard(r)      \/ Killed(r)

ScriptTypeOK ==
  /\ task \in Tasks
  /\ cli \in [Runs -> {"none", "running", "exited"}]
  /\ box \in [Runs -> Boxes]
  /\ exitCode \in [Runs -> Codes \cup {NoCode}]
  /\ repo \in [Runs -> [changed: BOOLEAN, leak: BOOLEAN, stray: BOOLEAN,
                    log: SUBSET Markers]]
  /\ out \in [Runs -> [pr: PrUrls, marks: SUBSET Markers, full: BOOLEAN]]
  /\ prs \subseteq Runs
  /\ started \subseteq Runs
=============================================================================
