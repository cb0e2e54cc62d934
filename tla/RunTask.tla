------------------------------ MODULE RunTask ------------------------------
(***************************************************************************)
(* The host side of a run (runTask in runner.ts): spawn the engine CLI,    *)
(* wait for it under a timer that sends SIGTERM and then SIGKILL, classify *)
(* the outcome, write the artifact manifest, post at most one evidence     *)
(* comment on the issue (collectGitHubEvidence in github-evidence.ts), and *)
(* return a result.  The container's script is ContainerScript; killing    *)
(* the CLI does not stop it, so it may outlive the run.                    *)
(*                                                                         *)
(* Every await of runTask that matters to another actor ends an action:    *)
(* the container, the other runs of the task and a crash of the host       *)
(* process come in between.                                                *)
(***************************************************************************)
EXTENDS ContainerScript

CONSTANTS
  Overlap,    \* may the broker start a run while another is unfinished?
  Flaky,      \* may GitHub fail to list or to accept a comment?
  MayCrash    \* may the host process of a run die?

ASSUME ModesAssumption == {Overlap, Flaky, MayCrash} \subseteq BOOLEAN

VARIABLES
  host,       \* where each runTask call is
  timedOut,   \* spawnWithTimeout's flag
  code,       \* the exit code of the engine CLI
  res,        \* the RunnerResult being built
  disk,       \* artifacts/manifest.json of each run, as it is on disk
  posts       \* the comments on the issue: <<kind, run that posted it>>

hostVars == <<host, timedOut, code, res, disk, posts>>
vars == <<task, cli, scriptVars, hostVars>>

Hosts == {"idle", "waiting", "closed", "settle", "lookup", "posting",
          "classify", "prove", "returned", "rejected", "crashed"}
Over == {"returned", "rejected", "crashed"}

Statuses  == {"completed", "failed", "timeout"}
Manifests == {"none", "done", "failed", "budget_limited"}
Outcomes  == {"none", "pr", "done", "block", "no_changes_done",
              "no_changes_blocked", "budget_limited", "timed_out",
              "missing_evidence"}
CommentUrls == Runs \cup {NoUrl}

Result == [ok: BOOLEAN, status: Statuses, pr: PrUrls, marks: SUBSET Markers,
           manifest: Manifests, kind: {"none", "block", "done"},
           comment: CommentUrls, outcome: Outcomes]

NoResult == [ok |-> FALSE, status |-> "failed", pr |-> NoUrl, marks |-> {},
             manifest |-> "none", kind |-> "none", comment |-> NoUrl,
             outcome |-> "none"]

Manifest == [status: Manifests, projection: {"none", "pr", "done", "block"},
             proof: BOOLEAN]

Init ==
  /\ ScriptInit
  /\ host = [r \in Runs |-> "idle"]
  /\ timedOut = [r \in Runs |-> FALSE]
  /\ code = [r \in Runs |-> NoCode]
  /\ res = [r \in Runs |-> NoResult]
  /\ disk = [r \in Runs |->
               [status |-> "none", projection |-> "none", proof |-> FALSE]]
  /\ posts = {}

(***************************************************************************)
(* Launch: the work directory is created and the CLI is spawned.  Either   *)
(* the CLI starts, or spawn reports an error and there is no process.      *)
(***************************************************************************)
Launch(r) ==
  /\ host[r] = "idle"
  /\ Overlap \/ \A q \in Runs : host[q] \in Over \cup {"idle"}
  /\ host' = [host EXCEPT ![r] = "waiting"]
  /\ cli' \in {[cli EXCEPT ![r] = s] : s \in {"running", "exited"}}
  /\ UNCHANGED <<task, scriptVars, timedOut, code, res, disk, posts>>

(***************************************************************************)
(* The engine starts the container.  Its CLI may fail before that (image,  *)
(* name, daemon) or lose its connection while the container goes on.       *)
(***************************************************************************)
StartContainer(r) ==
  /\ cli[r] = "running" /\ box[r] = "none"
  /\ box' = [box EXCEPT ![r] = "checkout"]
  /\ UNCHANGED <<task, cli, exitCode, repo, out, prs, started, hostVars>>

EngineFails(r) ==
  /\ cli[r] = "running" /\ box[r] # "exited"
  /\ cli' = [cli EXCEPT ![r] = "exited"]
  /\ code' = [code EXCEPT ![r] = 1]
  /\ UNCHANGED <<task, scriptVars, host, timedOut, res, disk, posts>>

ScriptStep(r) == Script(r) /\ UNCHANGED <<task, cli, hostVars>>

CliExits(r) ==
  /\ cli[r] = "running" /\ box[r] = "exited"
  /\ cli' = [cli EXCEPT ![r] = "exited"]
  /\ code' = [code EXCEPT ![r] = exitCode[r]]
  /\ UNCHANGED <<task, scriptVars, host, timedOut, res, disk, posts>>

(***************************************************************************)
(* The timer: SIGTERM at once, SIGKILL five seconds later.  The CLI may    *)
(* obey the first; it cannot survive the second.  The container can.       *)
(***************************************************************************)
TimerFires(r) ==
  /\ host[r] = "waiting" /\ ~timedOut[r]
  /\ timedOut' = [timedOut EXCEPT ![r] = TRUE]
  /\ UNCHANGED <<task, cli, scriptVars, host, code, res, disk, posts>>

\* Mutant: the CLI is only asked to stop.
Bug_NoSigkill(r) ==
  /\ timedOut[r] /\ cli[r] = "running" /\ box[r] = "none"
  /\ cli' = [cli EXCEPT ![r] = "exited"]
  /\ UNCHANGED <<task, scriptVars, host, timedOut, code, res, disk, posts>>

CliKilled(r) ==
  /\ timedOut[r] /\ cli[r] = "running"
  /\ cli' = [cli EXCEPT ![r] = "exited"]
  /\ UNCHANGED <<task, scriptVars, host, timedOut, code, res, disk, posts>>

(***************************************************************************)
(* The close (or error) event: the output collected so far is taken over   *)
(* and the timer cleared.                                                  *)
(***************************************************************************)
Close(r) ==
  /\ host[r] = "waiting" /\ cli[r] = "exited"
  /\ host' = [host EXCEPT ![r] = "closed"]
  /\ res' = [res EXCEPT ![r].pr = out[r].pr, ![r].marks = out[r].marks]
  /\ UNCHANGED <<task, cli, scriptVars, timedOut, code, disk, posts>>

(***************************************************************************)
(* The sanitized task.json, the artifact listing and the first manifest.   *)
(* A container that is still alive may own the directory or remove a file  *)
(* between listing and stat, one that was killed never gave the directory  *)
(* back (its EXIT trap did not run): then runTask rejects.                 *)
(***************************************************************************)
MayObstruct(r) == Alive(r) \/ exitCode[r] = 1

ExitedOk(r) == code[r] = 0 /\ ~timedOut[r]

\* Mutant: the exit code alone decides.
Bug_ManifestByCode(r) ==
  IF code[r] = 0 THEN "done" ELSE "failed"

ManifestStatus(r) ==
  CASE "budget_limited" \in res[r].marks -> "budget_limited"
    [] "budget_limited" \notin res[r].marks /\ ExitedOk(r) -> "done"
    [] OTHER -> "failed"

WriteManifest(r) ==
  /\ host[r] = "closed"
  /\ \/ /\ host' = [host EXCEPT ![r] = "settle"]
        /\ res' = [res EXCEPT ![r].manifest = ManifestStatus(r)]
        /\ disk' = [disk EXCEPT ![r].status = ManifestStatus(r)]
     \/ /\ MayObstruct(r)
        /\ host' = [host EXCEPT ![r] = "rejected"]
        /\ UNCHANGED <<res, disk>>
  /\ UNCHANGED <<task, cli, scriptVars, timedOut, code, posts>>

(***************************************************************************)
(* The tentative result.  A PR URL on stdout turns a non-zero exit into a  *)
(* success (and rewrites the manifest); a missing patch command turns any  *)
(* exit into a failure.                                                    *)
(***************************************************************************)
\* Mutants: recovery also after a timeout; no recovery at all.
Bug_RecoverTimeouts(r) == res[r].pr # NoUrl /\ code[r] # 0
Bug_NeverRecover(r) == FALSE

Recovered(r) == res[r].pr # NoUrl /\ ~timedOut[r] /\ code[r] # 0

MissingPatchCommand(r) == "no_patch_command" \in res[r].marks

Settle(r) ==
  LET ok == (ExitedOk(r) \/ Recovered(r)) /\ ~MissingPatchCommand(r)
      status == CASE ok -> "completed"
                  [] ~ok /\ timedOut[r] /\ ~MissingPatchCommand(r) -> "timeout"
                  [] OTHER -> "failed"
      manifest == IF Recovered(r) THEN "done" ELSE res[r].manifest
  IN /\ host[r] = "settle"
     /\ host' = [host EXCEPT ![r] = IF task.mode THEN "lookup" ELSE "prove"]
     /\ res' = [res EXCEPT ![r].ok = ok, ![r].status = status,
                           ![r].manifest = manifest]
     /\ disk' = [disk EXCEPT ![r].status = manifest]
     /\ UNCHANGED <<task, cli, scriptVars, timedOut, code, posts>>

(***************************************************************************)
(* Which comment the run owes the issue: Block when it failed or had       *)
(* nothing to execute, Done when it succeeded without a pull request.      *)
(***************************************************************************)
\* Mutants: Block on every run; Block only for the status "failed".
Bug_AlwaysBlock(r) == IF task.issue THEN "block" ELSE "none"
Bug_BlockOnlyFailed(r) ==
  IF ~task.issue THEN "none"
  ELSE IF res[r].status = "failed" THEN "block"
  ELSE IF res[r].ok /\ res[r].pr = NoUrl THEN "done" ELSE "none"

OwedComment(r) ==
  CASE task.issue /\ (~res[r].ok \/ Lane = "none") -> "block"
    [] task.issue /\ res[r].ok /\ Lane # "none" /\ res[r].pr = NoUrl -> "done"
    [] OTHER -> "none"

CanComment(r) == OwedComment(r) # "none" /\ task.token

Bind(r, kind, url) == res' = [res EXCEPT ![r].kind = kind, ![r].comment = url]

SkipComment(r) ==
  /\ host[r] = "lookup" /\ ~CanComment(r)
  /\ host' = [host EXCEPT ![r] = "classify"]
  /\ UNCHANGED <<task, cli, scriptVars, timedOut, code, res, disk, posts>>

(***************************************************************************)
(* The lookup before the post.  The marker names the task, the issue and   *)
(* the kind, so a comment of an earlier run is found and bound.  A listing *)
(* that is refused counts as empty (as one whose first hundred comments do *)
(* not hold the marker does), one that throws ends the attempt.            *)
(***************************************************************************)
\* Mutant: post without looking.
Bug_NoLookup(r) == {}

SameMarker(r) == {p \in posts : p[1] = OwedComment(r)}

FindComment(r) ==
  /\ host[r] = "lookup" /\ CanComment(r)
  /\ \/ \E p \in SameMarker(r) :
          /\ Bind(r, p[1], p[2])
          /\ host' = [host EXCEPT ![r] = "classify"]
     \/ /\ SameMarker(r) = {} \/ Flaky
        /\ host' = [host EXCEPT ![r] = "posting"]
        /\ UNCHANGED res
     \/ /\ Flaky
        /\ host' = [host EXCEPT ![r] = "classify"]
        /\ UNCHANGED res
  /\ UNCHANGED <<task, cli, scriptVars, timedOut, code, disk, posts>>

(***************************************************************************)
(* The post.  It may be refused, or accepted and its answer lost.          *)
(***************************************************************************)
\* Mutant: the answer of the post is not examined.
Bug_BindAnyway(r) ==
  /\ host[r] = "posting"
  /\ host' = [host EXCEPT ![r] = "classify"]
  /\ Bind(r, OwedComment(r), r)
  /\ \/ posts' = posts \cup {<<OwedComment(r), r>>}
     \/ Flaky /\ UNCHANGED posts
  /\ UNCHANGED <<task, cli, scriptVars, timedOut, code, disk>>

PostComment(r) ==
  /\ host[r] = "posting"
  /\ host' = [host EXCEPT ![r] = "classify"]
  /\ \/ /\ posts' = posts \cup {<<OwedComment(r), r>>}
        /\ Bind(r, OwedComment(r), r)
     \/ /\ Flaky
        /\ posts' \in {posts, posts \cup {<<OwedComment(r), r>>}}
        /\ UNCHANGED res
  /\ UNCHANGED <<task, cli, scriptVars, timedOut, code, disk>>

(***************************************************************************)
(* classifyGitHubEvidenceOutcome, then the release gate, which turns pr,   *)
(* done and block into missing_evidence when a required field is missing.  *)
(***************************************************************************)
NoChangeOutcome(r) ==
  IF res[r].kind = "block" THEN "no_changes_blocked" ELSE "no_changes_done"

\* Mutant: that no changes are allowed is taken for there being none.
Bug_AllowedIsUnchanged(r) ==
  IF res[r].pr # NoUrl THEN "pr"
  ELSE IF AllowsNoChanges THEN NoChangeOutcome(r)
  ELSE IF res[r].kind # "none" THEN res[r].kind
  ELSE IF res[r].manifest = "budget_limited" THEN "budget_limited"
  ELSE IF timedOut[r] THEN "timed_out"
  ELSE "missing_evidence"

RawOutcome(r) ==
  IF res[r].pr # NoUrl THEN "pr"
  ELSE IF "no_changes_allowed" \in res[r].marks THEN NoChangeOutcome(r)
  ELSE IF res[r].kind # "none" THEN res[r].kind
  ELSE IF res[r].manifest = "budget_limited" THEN "budget_limited"
  ELSE IF timedOut[r] THEN "timed_out"
  ELSE "missing_evidence"

GatePasses == task.gate /\ task.repo

Outcome(r) ==
  IF RawOutcome(r) \in {"pr", "done", "block"} /\ ~GatePasses
  THEN "missing_evidence"
  ELSE RawOutcome(r)

\* Mutant: the outcome is projected as it is.
Bug_RawProjection(outcome, kind) == outcome

Projection(outcome, kind) ==
  CASE outcome = "pr" -> "pr"
    [] outcome \in {"done", "no_changes_done"} /\ kind = "done" -> "done"
    [] outcome \in {"block", "no_changes_blocked"} /\ kind = "block" -> "block"
    [] OTHER -> "none"

(***************************************************************************)
(* The outcome goes into the result and, as hints and projection, into the *)
(* manifest; missing evidence fails the run.                               *)
(***************************************************************************)
\* Mutant: missing evidence does not fail the run.
Bug_MissingIsOk(r) == FALSE

FailsClosed(r) == Outcome(r) = "missing_evidence"

Classify(r) ==
  /\ host[r] = "classify"
  /\ host' = [host EXCEPT ![r] = "prove"]
  /\ res' = [res EXCEPT
               ![r].outcome = Outcome(r),
               ![r].ok = @ /\ ~FailsClosed(r),
               ![r].status = IF FailsClosed(r) THEN "failed" ELSE @]
  /\ disk' = [disk EXCEPT ![r].projection = Projection(Outcome(r), res[r].kind)]
  /\ UNCHANGED <<task, cli, scriptVars, timedOut, code, posts>>

(***************************************************************************)
(* The execution proof is added, the manifest written a last time, and the *)
(* result returned.                                                        *)
(***************************************************************************)
Prove(r) ==
  /\ host[r] = "prove"
  /\ host' = [host EXCEPT ![r] = "returned"]
  /\ disk' = [disk EXCEPT ![r].proof = TRUE]
  /\ UNCHANGED <<task, cli, scriptVars, timedOut, code, res, posts>>

(***************************************************************************)
(* The host process dies.  The CLI and the container live on.              *)
(***************************************************************************)
Crash(r) ==
  /\ MayCrash
  /\ host[r] \notin Over \cup {"idle"}
  /\ host' = [host EXCEPT ![r] = "crashed"]
  /\ UNCHANGED <<task, cli, scriptVars, timedOut, code, res, disk, posts>>

HostStep(r) ==
  \/ Close(r)       \/ WriteManifest(r) \/ Settle(r)   \/ SkipComment(r)
  \/ FindComment(r) \/ PostComment(r)   \/ Classify(r) \/ Prove(r)

Engine(r) ==
  StartContainer(r) \/ EngineFails(r) \/ ScriptStep(r) \/ CliExits(r)

Step(r) ==
  \/ Launch(r)     \/ Engine(r)   \/ TimerFires(r)
  \/ CliKilled(r)  \/ HostStep(r) \/ Crash(r)

Next == \E r \in Runs : Step(r)

Spec == Init /\ [][Next]_vars

(***************************************************************************)
(* Fairness.  Node keeps the run's process alive while the CLI lives, so   *)
(* both timers fire, the close event is delivered, and every await of the  *)
(* host is answered or fails.  Nothing is assumed of the broker (Launch),  *)
(* of the engine or of the script: a patch command may hang for ever.      *)
(***************************************************************************)
Fairness ==
  \A r \in Runs : WF_vars(TimerFires(r)) /\ WF_vars(CliKilled(r))
                  /\ WF_vars(HostStep(r))

FairSpec == Spec /\ Fairness
-----------------------------------------------------------------------------
(* Every variable has its type. *)
TypeOK ==
  /\ ScriptTypeOK
  /\ host \in [Runs -> Hosts]
  /\ timedOut \in [Runs -> BOOLEAN]
  /\ code \in [Runs -> Codes \cup {NoCode}]
  /\ res \in [Runs -> Result]
  /\ disk \in [Runs -> Manifest]
  /\ posts \subseteq ({"done", "block"} \X Runs)

(***************************************************************************)
(* The pipeline opens a pull request only behind all of its guards: the    *)
(* Start comment is on the issue, the task is neither read-only nor        *)
(* forbids a PR, and no bootstrap file is in the checkout at that moment.  *)
(***************************************************************************)
PrIsGuarded ==
  [][\A r \in prs' \ prs :
       /\ task.issue => r \in started
       /\ ~task.readOnlyValidation /\ ~task.forbidNewPr
       /\ repo[r].changed /\ ~repo[r].leak]_vars

(***************************************************************************)
(* A run whose timer fired never passes for a success: whatever the CLI's  *)
(* exit code or the URLs on its stdout (the timer may fire after the CLI   *)
(* exited 0 and before its close event), neither its result nor its        *)
(* manifest on disk says so.                                               *)
(***************************************************************************)
TimeoutIsFailure ==
  \A r \in Runs : timedOut[r] => ~res[r].ok /\ disk[r].status # "done"

(***************************************************************************)
(* A run posts Done on the issue only after its own container has finished *)
(* with exit code 0, so behind the last bootstrap guard, without a timeout *)
(* and without showing a pull request.                                     *)
(***************************************************************************)
DoneIsEarned ==
  \A r \in Runs : <<"done", r>> \in posts =>
    /\ box[r] = "exited" /\ exitCode[r] = 0
    /\ ~repo[r].leak /\ ~timedOut[r] /\ out[r].pr = NoUrl

(***************************************************************************)
(* A pull request the host saw is never reported as a failed patch just    *)
(* because the container exited non-zero afterwards; only a line of the    *)
(* task's commands about a missing patch command fails the run, and the    *)
(* pull request is named then, too.                                        *)
(***************************************************************************)
PrIsNotLost ==
  \A r \in Runs :
    /\ host[r] = "returned" /\ out[r].pr # NoUrl /\ ~timedOut[r]
    /\ task.mode => GatePasses
    => /\ res[r].ok \/ "no_patch_command" \in repo[r].log
       /\ task.mode => res[r].outcome = "pr" /\ disk[r].projection = "pr"

(***************************************************************************)
(* A GitHub task that returns ok names a pull request or a comment as its  *)
(* evidence, and never a Block comment; the exceptions are the no-change   *)
(* line and the budget stop, with which it returns ok without a URL.       *)
(***************************************************************************)
OkHasEvidence ==
  \A r \in Runs :
    host[r] = "returned" /\ task.mode /\ res[r].ok =>
      /\ res[r].kind # "block"
      /\ \/ res[r].outcome = "pr"
         \/ res[r].outcome \in {"done", "no_changes_done"} /\ res[r].kind = "done"
         \/ res[r].outcome \in {"no_changes_done", "budget_limited"}

(***************************************************************************)
(* Evidence is never made up: the comment a run names is on the issue, and *)
(* a run's own pull request is open on GitHub.                             *)
(***************************************************************************)
EvidenceIsReal ==
  \A r \in Runs :
    /\ res[r].comment # NoUrl => <<res[r].kind, res[r].comment>> \in posts
    /\ res[r].pr \in Runs => res[r].pr \in prs

(***************************************************************************)
(* The manifest on disk and the returned verdict: a manifest that says     *)
(* done belongs to a run that exited 0 in time or showed a pull request,   *)
(* also after a crash; and an ok result never leaves a failed manifest.    *)
(***************************************************************************)
ManifestIsHonest ==
  \A r \in Runs :
    /\ disk[r].status = "done" =>
         (code[r] = 0 /\ ~timedOut[r]) \/ res[r].pr # NoUrl
    /\ host[r] = "returned" /\ res[r].ok =>
         disk[r].status \in {"done", "budget_limited"} /\ disk[r].proof

(***************************************************************************)
(* With runs that follow one another and a GitHub that answers, retries    *)
(* leave at most one comment of a kind on the issue.                       *)
(***************************************************************************)
OneCommentPerKind ==
  \A p, q \in posts : p[1] = q[1] => p = q

(***************************************************************************)
(* With a GitHub that answers, a failed run of a complete task with an     *)
(* issue and a token never returns without a Block comment on the issue.   *)
(***************************************************************************)
FailureIsAnnounced ==
  \A r \in Runs :
    /\ host[r] = "returned" /\ ~res[r].ok
    /\ task.mode /\ task.issue /\ task.token /\ GatePasses
    => res[r].kind = "block" /\ \E q \in Runs : <<"block", q>> \in posts

(***************************************************************************)
(* Every run that is launched ends, even when its container never does.    *)
(***************************************************************************)
RunsEnd == \A r \in Runs : host[r] = "waiting" ~> host[r] \in Over
=============================================================================
