-------------------------- MODULE RunReportProofs --------------------------
(***************************************************************************)
(* Proofs about what is told of a run.  First the verdict: what a run      *)
(* reports when it returns, and what it has then told the issue, from what *)
(* the script's output can hold at each of its stages and what the host    *)
(* has decided by each of its own.  Then RunReport, what the handler tells *)
(* the broker: where the script stands when the pull request or the        *)
(* no-change notice comes, what the result and the manifest have in common *)
(* once they are settled, and from there a case analysis of the evidence   *)
(* the handler extracts.                                                   *)
(***************************************************************************)
EXTENDS RunReport, RunTaskProofs

Silent   == {"none", "checkout", "start", "patch", "commands", "comment"}
Verdicted == {"prove", "returned"}

(***************************************************************************)
(* The output: the script prints nothing that counts before the task's     *)
(* commands run, so its own notice that there is no patch command comes    *)
(* without a PR URL; any other one is a line of the commands' log.         *)
(***************************************************************************)
Misled(r) == "no_patch_command" \in repo[r].log

OutputInv(r) ==
  /\ box[r] \in Silent =>
       out[r].pr = NoUrl /\ out[r].marks = {} /\ repo[r].log = {}
  /\ "no_patch_command" \in out[r].marks =>
       Misled(r) \/ (box[r] = "exited" /\ out[r].pr = NoUrl)

(***************************************************************************)
(* The tentative verdict: a pull request seen in time makes it ok, unless  *)
(* the commands' log misled the host.                                      *)
(***************************************************************************)
TentativeInv(r) ==
  host[r] \in Commenting =>
    /\ res[r].pr # NoUrl /\ ~timedOut[r] => res[r].ok \/ Misled(r)
    /\ res[r].kind = "block" => ~res[r].ok \/ Lane = "none"

(***************************************************************************)
(* The final verdict.                                                      *)
(***************************************************************************)
ReportsPr(r) ==
  /\ res[r].ok \/ Misled(r)
  /\ task.mode => res[r].outcome = "pr" /\ disk[r].projection = "pr"

NamesEvidence(r) ==
  /\ res[r].kind # "block"
  /\ \/ res[r].outcome = "pr"
     \/ res[r].outcome \in {"done", "no_changes_done"} /\ res[r].kind = "done"
     \/ res[r].outcome \in {"no_changes_done", "budget_limited"}

FinalInv(r) ==
  host[r] \in Verdicted =>
    /\ res[r].pr # NoUrl /\ ~timedOut[r] /\ (task.mode => GatePasses)
         => ReportsPr(r)
    /\ task.mode /\ res[r].ok => NamesEvidence(r)

VerdictInv(r) == OutputInv(r) /\ TentativeInv(r) /\ FinalInv(r)

LEMMA FramedVerdict ==
  ASSUME NEW q \in Runs, SameRun(q), VerdictInv(q)
  PROVE  VerdictInv(q)'
BY DEF SameRun, VerdictInv, OutputInv, TentativeInv, FinalInv, ReportsPr, Misled,
       NamesEvidence, GatePasses, Lane

(***************************************************************************)
(* Output only grows, by what is said.                                     *)
(***************************************************************************)
LEMMA SayGrows ==
  ASSUME out \in OutType, NEW r \in Runs, NEW url, NEW marks, NEW flood,
         Say(r, url, marks, flood)
  PROVE  /\ out'[r].pr \in {out[r].pr, url}
         /\ out'[r].marks \subseteq out[r].marks \cup marks
BY DEF Say, OutType

LEMMA ScriptKeepsOutput ==
  ASSUME TypeOK, NEW r \in Runs, RunInv(r), OutputInv(r), ScriptStep(r)
  PROVE  OutputInv(r)' /\ (Misled(r) => Misled(r)')
<1> DEFINE Kept == OutputInv(r)' /\ (Misled(r) => Misled(r)')
<1> SUFFICES Kept
  OBVIOUS
<1>a. /\ box \in BoxType /\ exitCode \in CodeType /\ repo \in RepoType
      /\ out \in OutType
  BY DEF TypeOK, ScriptTypeOK, BoxType, CodeType, RepoType, OutType
<1>b. /\ \A b : Goto(r, b) => box'[r] = b
      /\ \A c : Exit(r, c) => box'[r] = "exited"
  BY <1>a, MoveFacts
<1>c. Script(r) /\ box[r] # "exited"
  BY ScriptKeepsGuards DEF ScriptStep
<1>d. "no_patch_command" \in out[r].marks => Misled(r)
  BY <1>c DEF OutputInv
<1>1. CASE Checkout(r) \/ StartComment(r)
  BY <1>1, <1>b, <1>d DEF Checkout, ToolsFail, StartComment, OutputInv, Silent, Misled
<1>2. CASE PatchGuards(r) \/ RefuseNewPr(r) \/ UpdateBranch(r) \/ PostGuard(r)
           \/ Killed(r)
  BY <1>2, <1>a, <1>b, <1>d DEF PatchGuards, RefuseNewPr, UpdateBranch, PostGuard,
     Killed, OutputInv, Silent, Misled, RepoType
<1>3. CASE RunCommands(r)
  <2>1. /\ box[r] \in Silent /\ box'[r] \notin Silent
        /\ out[r].marks = {} /\ repo[r].log = {}
    BY <1>3, <1>b DEF RunCommands, Silent, OutputInv
  <2>2. PICK a \in Agents :
          /\ repo' = [repo EXCEPT ![r].leak = a.leak, ![r].log = a.marks]
          /\ Say(r, IF a.mention THEN OtherPr ELSE NoUrl, a.marks, a.verbose)
    BY <1>3 DEF RunCommands
  <2>3. repo'[r].log = a.marks
    BY <1>a, <2>2 DEF RepoType
  <2>4. out'[r].marks \subseteq a.marks
    BY <1>a, <2>1, <2>2, SayGrows
  <2>5. QED
    BY <2>1, <2>3, <2>4 DEF OutputInv, Misled
<1>4. CASE PatchCommand(r)
  <2>1. /\ box[r] \in Silent /\ box'[r] \notin Silent
        /\ out[r].pr = NoUrl /\ out[r].marks = {} /\ repo[r].log = {}
    BY <1>4, <1>b DEF PatchCommand, Silent, OutputInv
  <2>2. CASE ~task.patch
    <3>1. SayMark(r, "no_patch_command") /\ Exit(r, 2) /\ repo' = repo
      BY <1>4, <2>2 DEF PatchCommand
    <3>2. box'[r] = "exited" /\ out'[r].pr = NoUrl
      BY <1>a, <1>b, <2>1, <3>1, SayGrows DEF SayMark
    <3>3. QED
      BY <2>1, <3>1, <3>2 DEF OutputInv, Misled
  <2>3. CASE task.patch
    <3>1. PICK a \in Agents :
            /\ repo' = [repo EXCEPT ![r] = [changed |-> a.changed,
                                            leak    |-> a.leak,
                                            stray   |-> a.stray \/ a.mention,
                                            log     |-> a.marks]]
            /\ Say(r, IF a.mention THEN OtherPr ELSE NoUrl, a.marks, a.verbose)
      BY <1>4, <2>3 DEF PatchCommand
    <3>2. repo'[r].log = a.marks
      BY <1>a, <3>1 DEF RepoType
    <3>3. out'[r].marks \subseteq a.marks
      BY <1>a, <2>1, <3>1, SayGrows
    <3>4. QED
      BY <2>1, <3>2, <3>3 DEF OutputInv, Misled
  <2>4. QED
    BY <2>2, <2>3
<1>5. CASE NothingToPublish(r)
  <2>1. box'[r] \notin Silent
    BY <1>5, <1>b DEF NothingToPublish, Silent
  <2>2. out'[r].marks \subseteq out[r].marks \cup {"no_changes_allowed"}
    BY <1>5, <1>a, SayGrows DEF NothingToPublish, SayMark
  <2>3. QED
    BY <1>5, <1>d, <2>1, <2>2 DEF NothingToPublish, OutputInv, Misled
<1>6. CASE OpenPr(r)
  <2>1. box'[r] \notin Silent
    BY <1>6, <1>b DEF OpenPr, Silent
  <2>2. out'[r].marks \subseteq out[r].marks
    <3>1. ASSUME Say(r, r, {}, FALSE)
          PROVE  out'[r].marks \subseteq out[r].marks \cup {}
      BY <1>a, <3>1, SayGrows
    <3>2. QED
      BY <1>6, <3>1 DEF OpenPr
  <2>3. QED
    BY <1>6, <1>d, <2>1, <2>2 DEF OpenPr, OutputInv, Misled
<1>7. CASE CommentOnly(r)
  <2>1. box'[r] \notin Silent /\ out[r].marks = {}
    BY <1>7, <1>b DEF CommentOnly, Silent, OutputInv
  <2>2. out'[r].marks \subseteq {}
    BY <1>7, <1>a, <2>1, SayGrows DEF CommentOnly
  <2>3. QED
    BY <1>7, <2>1, <2>2 DEF CommentOnly, OutputInv, Misled
<1>8. QED
  BY <1>c, <1>1, <1>2, <1>3, <1>4, <1>5, <1>6, <1>7 DEF Script

(***************************************************************************)
(* Steps that leave the result alone: the script, the engine, the timer,   *)
(* and a crash.                                                            *)
(***************************************************************************)
LEMMA OutsideKeepsVerdict ==
  ASSUME TypeOK, NEW r \in Runs, RunInv(r), VerdictInv(r),
         \/ ScriptStep(r) \/ Launch(r) \/ StartContainer(r) \/ EngineFails(r)
         \/ CliExits(r) \/ TimerFires(r) \/ CliKilled(r) \/ Crash(r)
  PROVE  VerdictInv(r)'
<1>a. /\ box \in [Runs -> Boxes] /\ host \in [Runs -> Hosts]
      /\ timedOut \in [Runs -> BOOLEAN]
  BY DEF TypeOK, ScriptTypeOK
<1>1. OutputInv(r)' /\ (Misled(r) => Misled(r)')
  <2>1. CASE ScriptStep(r)
    BY <2>1, ScriptKeepsOutput DEF VerdictInv
  <2>2. CASE StartContainer(r)
    BY <2>2, <1>a DEF StartContainer, VerdictInv, OutputInv, Silent, Misled
  <2>3. CASE ~ScriptStep(r) /\ ~StartContainer(r)
    BY <2>3 DEF Launch, EngineFails, CliExits, TimerFires, CliKilled, Crash,
       scriptVars, VerdictInv, OutputInv, Misled
  <2>4. QED
    BY <2>1, <2>2, <2>3
<1>2. /\ UNCHANGED <<task, res, disk>>
      /\ \/ host'[r] = host[r] /\ (timedOut'[r] = timedOut[r] \/ host[r] = "waiting")
         \/ host'[r] \in {"waiting", "crashed"}
  BY <1>a DEF ScriptStep, Launch, StartContainer, EngineFails, CliExits,
     TimerFires, CliKilled, Crash, hostVars
<1>3. TentativeInv(r)'
  BY <1>1, <1>2 DEF VerdictInv, TentativeInv, Commenting, Lane
<1>4. FinalInv(r)'
  BY <1>1, <1>2 DEF VerdictInv, FinalInv, Verdicted, ReportsPr, NamesEvidence, GatePasses
<1>5. QED
  BY <1>1, <1>3, <1>4 DEF VerdictInv

(***************************************************************************)
(* The verdict that classification gives.                                  *)
(***************************************************************************)
LEMMA ClassifyDecides ==
  ASSUME TypeOK, NEW r \in Runs, RunInv(r), VerdictInv(r), Classify(r)
  PROVE  FinalInv(r)'
<1>a. /\ host \in [Runs -> Hosts] /\ res \in [Runs -> Result]
      /\ disk \in [Runs -> Manifest] /\ task \in TaskRecord
  BY TasksAssumption DEF TypeOK, ScriptTypeOK
<1>b. ResultInv(r) /\ ManifestInv(r) /\ GuardInv(r) /\ OutInv(r) /\ TentativeInv(r)
  BY DEF RunInv, VerdictInv
<1>1. /\ host[r] = "classify" /\ host'[r] = "prove"
      /\ UNCHANGED <<task, timedOut, repo>>
      /\ res'[r].pr = res[r].pr /\ res'[r].kind = res[r].kind
      /\ res'[r].outcome = Outcome(r)
      /\ res'[r].ok = (res[r].ok /\ Outcome(r) # "missing_evidence")
      /\ disk'[r].projection = Projection(Outcome(r), res[r].kind)
  BY <1>a, OutcomeType, ProjectionType DEF Classify, FailsClosed, Result, Manifest, scriptVars
<1>2. ASSUME res[r].pr # NoUrl, ~timedOut[r], task.mode => GatePasses
      PROVE  (res[r].ok \/ Misled(r)) /\ Outcome(r) = "pr" /\ task.mode
  <2>1. task.mode
    BY <1>b, <1>1 DEF ResultInv, Commenting
  <2>2. QED
    BY <1>b, <1>1, <1>2, <2>1 DEF TentativeInv, Commenting, Outcome, RawOutcome
<1>3. ASSUME res[r].ok, Outcome(r) # "missing_evidence", task.mode
      PROVE  /\ res[r].kind # "block"
             /\ \/ Outcome(r) = "pr"
                \/ Outcome(r) \in {"done", "no_changes_done"} /\ res[r].kind = "done"
                \/ Outcome(r) \in {"no_changes_done", "budget_limited"}
  <2>1. res[r].kind \in {"none", "block", "done"} /\ ~timedOut[r]
    BY <1>a, <1>b, <1>3 DEF Result, ResultInv
  <2>2. ~(Lane = "none")
    <3>1. SUFFICES ASSUME Lane = "none" PROVE FALSE
      OBVIOUS
    <3>2. ~task.repo
      BY <1>a, <1>3, <3>1 DEF Lane, TaskRecord
    <3>3. res[r].pr = NoUrl /\ res[r].marks = {}
      BY <1>b, <1>1, <3>1 DEF GuardInv, OutInv, Closed
    <3>4. res[r].manifest # "budget_limited"
      BY <1>b, <3>3 DEF ManifestInv
    <3>5. RawOutcome(r) \in {"done", "block", "missing_evidence"}
      BY <2>1, <3>3, <3>4 DEF RawOutcome
    <3>6. QED
      BY <1>3, <3>2, <3>5 DEF Outcome, GatePasses
  <2>3. res[r].kind # "block"
    BY <1>b, <1>1, <1>3, <2>2 DEF TentativeInv, Commenting
  <2>4. QED
    BY <1>3, <2>1, <2>3 DEF Outcome, RawOutcome, NoChangeOutcome
<1>4. ASSUME res[r].pr # NoUrl, ~timedOut[r], task.mode => GatePasses
      PROVE  ReportsPr(r)'
  BY <1>1, <1>2, <1>4 DEF ReportsPr, Projection, Misled
<1>5. ASSUME res[r].ok, Outcome(r) # "missing_evidence", task.mode
      PROVE  NamesEvidence(r)'
  BY <1>1, <1>3, <1>5 DEF NamesEvidence
<1>6. QED
  BY <1>1, <1>4, <1>5 DEF FinalInv, GatePasses

LEMMA HostKeepsVerdict ==
  ASSUME TypeOK, NEW r \in Runs, RunInv(r), VerdictInv(r), HostStep(r)
  PROVE  VerdictInv(r)'
<1>a. /\ host \in [Runs -> Hosts] /\ res \in [Runs -> Result]
      /\ disk \in [Runs -> Manifest]
  BY DEF TypeOK
<1>b. OutputInv(r) /\ TentativeInv(r) /\ FinalInv(r) /\ OutInv(r) /\ ResultInv(r)
  BY DEF RunInv, VerdictInv
<1>c. UNCHANGED <<task, box, repo, out, timedOut>>
  BY DEF HostStep, Close, WriteManifest, Settle, SkipComment, FindComment,
         PostComment, Classify, Prove, scriptVars
<1>d. OutputInv(r)'
  BY <1>b, <1>c DEF OutputInv, Misled
<1>1. CASE Close(r) \/ WriteManifest(r)
  <2>1. host'[r] \in {"closed", "settle", "rejected"}
    BY <1>1, <1>a DEF Close, WriteManifest
  <2>2. QED
    BY <1>d, <2>1 DEF VerdictInv, TentativeInv, FinalInv, Commenting, Verdicted
<1>2. CASE Settle(r)
  <2> DEFINE ok == (ExitedOk(r) \/ Recovered(r)) /\ ~MissingPatchCommand(r)
  <2>1. /\ host[r] = "settle" /\ host'[r] = IF task.mode THEN "lookup" ELSE "prove"
        /\ res'[r].ok = ok /\ res'[r].pr = res[r].pr /\ res'[r].kind = res[r].kind
    BY <1>2, <1>a DEF Settle, Result
  <2>2. ASSUME res[r].pr # NoUrl, ~timedOut[r] PROVE ok \/ Misled(r)
    <3>1. ~MissingPatchCommand(r) \/ Misled(r)
      BY <1>b, <2>1, <2>2 DEF OutInv, OutputInv, MissingPatchCommand, Closed
    <3>2. QED
      BY <2>2, <3>1 DEF ExitedOk, Recovered
  <2>3. res[r].kind = "none"
    BY <1>b, <2>1 DEF ResultInv, Unsettled
  <2>4. TentativeInv(r)'
    BY <1>c, <2>1, <2>2, <2>3 DEF TentativeInv, Misled
  <2>5. FinalInv(r)'
    BY <1>c, <2>1, <2>2 DEF FinalInv, ReportsPr, Verdicted, Misled
  <2>6. QED
    BY <1>d, <2>4, <2>5 DEF VerdictInv
<1>3. CASE SkipComment(r) \/ FindComment(r) \/ PostComment(r)
  <2>1. /\ host[r] \in {"lookup", "posting"} /\ host'[r] \in {"posting", "classify"}
        /\ res'[r].pr = res[r].pr /\ res'[r].ok = res[r].ok
        /\ res'[r].kind \in {res[r].kind, OwedComment(r)}
    <3>1. ASSUME NEW kind, NEW url, Bind(r, kind, url)
          PROVE  /\ res'[r].pr = res[r].pr /\ res'[r].ok = res[r].ok
                 /\ res'[r].kind = kind
      BY <1>a, <3>1 DEF Bind, Result
    <3>2. CASE SkipComment(r)
      BY <3>2, <1>a DEF SkipComment
    <3>3. CASE FindComment(r)
      <4>1. host[r] = "lookup" /\ host'[r] \in {"posting", "classify"}
        BY <3>3, <1>a DEF FindComment
      <4>2. \/ UNCHANGED res
            \/ \E p \in posts : p[1] = OwedComment(r) /\ Bind(r, p[1], p[2])
        BY <3>3 DEF FindComment, SameMarker
      <4>3. QED
        BY <3>1, <4>1, <4>2
    <3>4. CASE PostComment(r)
      <4>1. host[r] = "posting" /\ host'[r] = "classify"
        BY <3>4, <1>a DEF PostComment
      <4>2. UNCHANGED res \/ Bind(r, OwedComment(r), r)
        BY <3>4 DEF PostComment
      <4>3. QED
        BY <3>1, <4>1, <4>2
    <3>5. QED
      BY <1>3, <3>2, <3>3, <3>4
  <2>2. OwedComment(r) = "block" => ~res[r].ok \/ Lane = "none"
    BY DEF OwedComment
  <2>3. TentativeInv(r)'
    BY <1>b, <1>c, <2>1, <2>2 DEF TentativeInv, Commenting, Lane, Misled
  <2>4. FinalInv(r)'
    BY <2>1 DEF FinalInv, Verdicted
  <2>5. QED
    BY <1>d, <2>3, <2>4 DEF VerdictInv
<1>4. CASE Classify(r)
  <2>1. host'[r] = "prove"
    BY <1>4, <1>a DEF Classify
  <2>2. TentativeInv(r)'
    BY <2>1 DEF TentativeInv, Commenting
  <2>3. QED
    BY <1>4, <1>d, <2>2, ClassifyDecides DEF VerdictInv
<1>5. CASE Prove(r)
  <2>1. /\ host[r] = "prove" /\ host'[r] = "returned" /\ UNCHANGED res
        /\ disk'[r].projection = disk[r].projection
    BY <1>5, <1>a DEF Prove, Manifest
  <2>2. TentativeInv(r)'
    BY <2>1 DEF TentativeInv, Commenting
  <2>3. FinalInv(r)'
    BY <1>b, <1>c, <2>1 DEF FinalInv, Verdicted, ReportsPr, NamesEvidence, GatePasses,
       Misled
  <2>4. QED
    BY <1>d, <2>2, <2>3 DEF VerdictInv
<1>6. QED
  BY <1>1, <1>2, <1>3, <1>4, <1>5 DEF HostStep

(***************************************************************************)
(* The invariant of the verdicts holds of every run.                       *)
(***************************************************************************)
Verdict == \A r \in Runs : VerdictInv(r)

THEOREM VerdictInvariance == Spec => []Verdict
<1>1. Init => Verdict
  BY DEF Init, ScriptInit, Verdict, VerdictInv, OutputInv, TentativeInv, FinalInv,
         Commenting, Verdicted, Silent
<1>2. IInv /\ Verdict /\ [Next]_vars => Verdict'
  <2>1. CASE UNCHANGED vars
    BY <2>1, FramedVerdict
    DEF Verdict, SameRun, OwnComments, vars, scriptVars, hostVars
  <2>2. ASSUME IInv, Verdict, NEW r \in Runs, Step(r) PROVE Verdict'
    <3>1. VerdictInv(r)'
      BY <2>2, OutsideKeepsVerdict, HostKeepsVerdict DEF IInv, Verdict, Step, Engine
    <3>2. ASSUME NEW q \in Runs, q # r PROVE VerdictInv(q)'
      BY <2>2, <3>2, OtherRuns, FramedVerdict DEF IInv, Verdict
    <3>3. QED
      BY <3>1, <3>2 DEF Verdict
  <2>3. QED
    BY <2>1, <2>2 DEF Next
<1>3. QED
  BY <1>1, <1>2, Invariance, PTL DEF Spec

(***************************************************************************)
(* A pull request the host saw in time is reported, whatever the container *)
(* did after opening it, and a success unless its commands' log misled the *)
(* host.                                                                   *)
(***************************************************************************)
THEOREM PrReported == Spec => []PrIsNotLost
<1>1. IInv /\ Verdict => PrIsNotLost
  BY DEF IInv, RunInv, OutInv, Closed, Verdict, VerdictInv, FinalInv, Verdicted,
         ReportsPr, Misled, PrIsNotLost
<1>2. QED
  BY <1>1, Invariance, VerdictInvariance, PTL

(***************************************************************************)
(* A GitHub task that returns ok names its evidence, but for the two lanes *)
(* without a URL, and never a Block comment.                               *)
(***************************************************************************)
THEOREM OkNamesEvidence == Spec => []OkHasEvidence
<1>1. Verdict => OkHasEvidence
  BY DEF Verdict, VerdictInv, FinalInv, Verdicted, NamesEvidence, OkHasEvidence
<1>2. QED
  BY <1>1, VerdictInvariance, PTL

(***************************************************************************)
(* Retries.  The rest of the module is about a GitHub that answers: what   *)
(* the lookup misses is not there, and what is posted is known.            *)
(***************************************************************************)
Announceable == task.mode /\ task.issue /\ task.token /\ GatePasses

AnnounceInv(r) ==
  /\ host[r] = "classify" /\ CanComment(r) =>
       res[r].kind = OwedComment(r) /\ res[r].comment # NoUrl
  /\ host[r] \in Verdicted /\ ~res[r].ok /\ Announceable =>
       res[r].kind = "block" /\ res[r].comment # NoUrl

LEMMA FramedAnnounce ==
  ASSUME NEW q \in Runs, SameRun(q), AnnounceInv(q)
  PROVE  AnnounceInv(q)'
BY DEF SameRun, AnnounceInv, CanComment, OwedComment, Announceable, GatePasses, Lane

(***************************************************************************)
(* What classification does to a run that owed a comment and posted it, or *)
(* owed none because it succeeded with a pull request.                     *)
(***************************************************************************)
LEMMA ClassifyKeepsOk ==
  ASSUME TypeOK, NEW r \in Runs, RunInv(r), AnnounceInv(r), Classify(r),
         Announceable, ~(res[r].ok /\ ~FailsClosed(r))
  PROVE  res[r].kind = "block" /\ res[r].comment # NoUrl
<1>a. task \in TaskRecord /\ res \in [Runs -> Result]
  BY TasksAssumption DEF TypeOK, ScriptTypeOK
<1>1. host[r] = "classify" /\ task.issue /\ task.token /\ task.repo /\ task.gate
  BY DEF Classify, Announceable, GatePasses
<1>2. Lane # "none"
  BY <1>a DEF Lane, TaskRecord, Announceable, GatePasses
<1>3. CASE ~res[r].ok
  BY <1>1, <1>2, <1>3 DEF AnnounceInv, CanComment, OwedComment
<1>4. CASE res[r].ok /\ res[r].pr # NoUrl
  BY <1>1, <1>4 DEF FailsClosed, Outcome, RawOutcome, GatePasses
<1>5. CASE res[r].ok /\ res[r].pr = NoUrl
  <2>1. OwedComment(r) = "done"
    BY <1>1, <1>2, <1>5 DEF OwedComment
  <2>2. res[r].kind = "done"
    BY <1>1, <2>1 DEF AnnounceInv, CanComment
  <2>3. ~FailsClosed(r)
    BY <1>1, <2>2 DEF FailsClosed, Outcome, RawOutcome, NoChangeOutcome, GatePasses
  <2>4. QED
    BY <1>5, <2>3
<1>6. QED
  BY <1>3, <1>4, <1>5

LEMMA StepKeepsAnnounce ==
  ASSUME ~Flaky, TypeOK, PostingOwes, NEW r \in Runs, RunInv(r), AnnounceInv(r),
         Step(r)
  PROVE  AnnounceInv(r)'
<1>a. /\ host \in [Runs -> Hosts] /\ res \in [Runs -> Result]
      /\ disk \in [Runs -> Manifest] /\ posts \subseteq ({"done", "block"} \X Runs)
  BY DEF TypeOK
<1>b. NoUrl \notin Runs
  BY RunsAssumption
<1>c. UNCHANGED task
  BY DEF Step, Engine, ScriptStep, HostStep, Launch, StartContainer, EngineFails,
     CliExits, TimerFires, CliKilled, Crash, Close, WriteManifest, Settle,
     SkipComment, FindComment, PostComment, Classify, Prove
<1>1. CASE Launch(r) \/ Crash(r) \/ Close(r) \/ WriteManifest(r)
  <2>1. host'[r] \notin Verdicted \cup {"classify"}
    BY <1>1, <1>a DEF Launch, Crash, Close, WriteManifest, Verdicted
  <2>2. QED
    BY <2>1 DEF AnnounceInv
<1>2. CASE Engine(r) \/ TimerFires(r) \/ CliKilled(r)
  BY <1>2, <1>c DEF Engine, ScriptStep, StartContainer, EngineFails, CliExits,
     TimerFires, CliKilled, hostVars, AnnounceInv, CanComment, OwedComment,
     Announceable, GatePasses, Lane
<1>3. CASE Settle(r)
  <2>1. host'[r] = IF task.mode THEN "lookup" ELSE "prove"
    BY <1>3, <1>a DEF Settle
  <2>2. QED
    BY <1>c, <2>1 DEF AnnounceInv, Verdicted, Announceable
<1>4. CASE SkipComment(r)
  <2>1. host'[r] = "classify" /\ ~CanComment(r) /\ UNCHANGED res
    BY <1>4, <1>a DEF SkipComment
  <2>2. ~CanComment(r)'
    BY <1>c, <2>1 DEF CanComment, OwedComment, Lane
  <2>3. QED
    BY <2>1, <2>2 DEF AnnounceInv, Verdicted
<1>5. ASSUME NEW q \in Runs, Bind(r, OwedComment(r), q), host'[r] = "classify",
             CanComment(r)
      PROVE  AnnounceInv(r)'
  <2>1. OwedComment(r) \in {"done", "block"}
    BY <1>5, OwedCommentType DEF CanComment
  <2>2. /\ res'[r].kind = OwedComment(r) /\ res'[r].comment = q
        /\ res'[r].ok = res[r].ok /\ res'[r].pr = res[r].pr
    BY <1>5, <1>a, <2>1 DEF Bind, Result
  <2>3. OwedComment(r)' = OwedComment(r)
    BY <1>c, <2>2 DEF OwedComment, Lane
  <2>4. QED
    BY <1>5, <1>b, <2>2, <2>3 DEF AnnounceInv, Verdicted
<1>6. CASE FindComment(r)
  <2>1. \/ host'[r] = "posting"
        \/ /\ host'[r] = "classify" /\ CanComment(r)
           /\ \E p \in posts : p[1] = OwedComment(r) /\ Bind(r, p[1], p[2])
    BY <1>6, <1>a DEF FindComment, SameMarker
  <2>2. \A p \in posts : p[2] \in Runs
    BY <1>a
  <2>3. QED
    BY <1>5, <2>1, <2>2 DEF AnnounceInv, Verdicted
<1>7. CASE PostComment(r)
  <2>1. host'[r] = "classify" /\ Bind(r, OwedComment(r), r) /\ CanComment(r)
    BY <1>7, <1>a DEF PostComment, PostingOwes
  <2>2. QED
    BY <1>5, <2>1
<1>8. CASE Classify(r)
  <2>1. /\ host'[r] = "prove" /\ res'[r].kind = res[r].kind
        /\ res'[r].comment = res[r].comment
        /\ res'[r].ok = (res[r].ok /\ ~FailsClosed(r))
    BY <1>8, <1>a DEF Classify, Result
  <2>2. Announceable' = Announceable
    BY <1>c DEF Announceable, GatePasses
  <2>3. QED
    BY <1>8, <2>1, <2>2, ClassifyKeepsOk DEF AnnounceInv
<1>9. CASE Prove(r)
  <2>1. host[r] = "prove" /\ host'[r] = "returned" /\ UNCHANGED res
    BY <1>9, <1>a DEF Prove
  <2>2. QED
    BY <1>c, <2>1 DEF AnnounceInv, Verdicted, Announceable, GatePasses
<1>10. QED
  BY <1>1, <1>2, <1>3, <1>4, <1>6, <1>7, <1>8, <1>9 DEF Step, HostStep

(***************************************************************************)
(* With a GitHub that answers, a failed run of a complete task never       *)
(* returns without a Block comment on the issue, even when runs overlap.   *)
(***************************************************************************)
THEOREM FailuresAnnounced ==
  ASSUME ~Flaky PROVE Spec => []FailureIsAnnounced
<1> DEFINE Inv == \A r \in Runs : AnnounceInv(r)
<1>1. Init => Inv
  BY DEF Init, AnnounceInv, Verdicted
<1>2. IInv /\ Inv /\ [Next]_vars => Inv'
  <2>1. CASE UNCHANGED vars
    BY <2>1, FramedAnnounce DEF SameRun, OwnComments, vars, scriptVars, hostVars
  <2>2. ASSUME IInv, Inv, NEW r \in Runs, Step(r) PROVE Inv'
    <3>1. AnnounceInv(r)'
      BY <2>2, StepKeepsAnnounce DEF IInv
    <3>2. ASSUME NEW q \in Runs, q # r PROVE AnnounceInv(q)'
      BY <2>2, <3>2, OtherRuns, FramedAnnounce DEF IInv
    <3>3. QED
      BY <3>1, <3>2
  <2>3. QED
    BY <2>1, <2>2 DEF Next
<1>3. IInv /\ Inv => FailureIsAnnounced
  <2> SUFFICES ASSUME IInv, Inv, NEW r \in Runs, host[r] = "returned", ~res[r].ok,
                      Announceable
               PROVE  res[r].kind = "block" /\ \E q \in Runs : <<"block", q>> \in posts
    BY DEF FailureIsAnnounced, Announceable
  <2>1. res[r].kind = "block" /\ res[r].comment # NoUrl
    BY DEF AnnounceInv, Verdicted
  <2>2. <<"block", res[r].comment>> \in posts
    BY <2>1 DEF IInv, RunInv, PostInv
  <2>3. res[r].comment \in Runs
    BY <2>2 DEF IInv, TypeOK
  <2>4. QED
    BY <2>1, <2>2, <2>3
<1>4. QED
  BY <1>1, <1>2, <1>3, Invariance, PTL DEF Spec

(***************************************************************************)
(* Without overlap at most one run is under way, so nobody posts between a *)
(* lookup that found nothing and the post that follows it.                 *)
(***************************************************************************)
Active(r) == host[r] \notin Over \cup {"idle"}

OneActive == \A p, q \in Runs : Active(p) /\ Active(q) => p = q
LookedUp  == \A r \in Runs : host[r] = "posting" => SameMarker(r) = {}
RetryInv  == OneActive /\ LookedUp /\ OneCommentPerKind

LEMMA StepKeepsRetryInv ==
  ASSUME ~Overlap, ~Flaky, TypeOK, TypeOK', RetryInv, NEW r \in Runs, Step(r)
  PROVE  RetryInv'
<1>a. /\ host \in [Runs -> Hosts] /\ host' \in [Runs -> Hosts]
      /\ posts \subseteq ({"done", "block"} \X Runs)
  BY DEF TypeOK
<1>b. \A q \in Runs : q # r => host'[q] = host[q] /\ res'[q] = res[q] /\ task' = task
  BY OtherRuns DEF SameRun
<1>1. Active(r) \/ host[r] = "idle" \/ UNCHANGED host
  BY <1>a DEF Step, Engine, HostStep, Launch, StartContainer, EngineFails,
     ScriptStep, hostVars, CliExits, TimerFires, CliKilled, Crash, Close,
     WriteManifest, Settle, SkipComment, FindComment, PostComment, Classify,
     Prove, Active, Over
<1>2. host[r] = "idle" /\ ~(UNCHANGED host) => Launch(r)
  BY <1>a DEF Step, Engine, HostStep, StartContainer, EngineFails,
     ScriptStep, hostVars, CliExits, TimerFires, CliKilled, Crash, Close,
     WriteManifest, Settle, SkipComment, FindComment, PostComment, Classify, Prove
<1>3. OneActive'
  <2>1. CASE Active(r) \/ UNCHANGED host
    BY <1>a, <1>b, <2>1 DEF RetryInv, OneActive, Active
  <2>2. CASE Launch(r)
    <3>1. \A q \in Runs : ~Active(q)
      BY <2>2 DEF Launch, Active
    <3>2. QED
      BY <1>b, <3>1 DEF OneActive, Active
  <2>3. QED
    BY <1>1, <1>2, <2>1, <2>2
<1>4. CASE PostComment(r)
  <2>1. /\ host[r] = "posting" /\ host'[r] = "classify"
        /\ posts' = posts \cup {<<OwedComment(r), r>>}
    BY <1>4, <1>a DEF PostComment
  <2>2. \A p \in posts : p[1] # OwedComment(r)
    BY <2>1 DEF RetryInv, LookedUp, SameMarker
  <2>3. OneCommentPerKind'
    BY <2>1, <2>2 DEF RetryInv, OneCommentPerKind
  <2>4. \A q \in Runs : host'[q] # "posting"
    BY <1>b, <2>1 DEF RetryInv, OneActive, Active, Over
  <2>5. QED
    BY <1>3, <2>3, <2>4 DEF RetryInv, LookedUp
<1>5. CASE ~PostComment(r)
  <2>1. UNCHANGED <<task, posts>>
    BY <1>5 DEF Step, Engine, HostStep, Launch, StartContainer, EngineFails,
       ScriptStep, hostVars, CliExits, TimerFires, CliKilled, Crash, Close,
       WriteManifest, Settle, SkipComment, FindComment, Classify, Prove
  <2>2. ASSUME host'[r] = "posting" PROVE SameMarker(r)' = {}
    <3>1. res'[r] = res[r] /\ SameMarker(r) = {}
      <4>1. CASE FindComment(r)
        BY <4>1, <1>a, <2>2 DEF FindComment
      <4>2. CASE ~FindComment(r)
        <5>1. host'[r] = host[r] /\ UNCHANGED res
          BY <1>5, <1>a, <2>2, <4>2 DEF Step, Engine, HostStep, Launch,
             StartContainer, EngineFails, ScriptStep, hostVars, CliExits,
             TimerFires, CliKilled, Crash, Close, WriteManifest, Settle,
             SkipComment, Classify, Prove
        <5>2. QED
          BY <2>2, <5>1 DEF RetryInv, LookedUp
      <4>3. QED
        BY <4>1, <4>2
    <3>2. OwedComment(r)' = OwedComment(r)
      BY <2>1, <3>1 DEF OwedComment, Lane
    <3>3. QED
      BY <2>1, <3>1, <3>2 DEF SameMarker
  <2>3. ASSUME NEW q \in Runs, q # r, host'[q] = "posting"
        PROVE  SameMarker(q)' = {}
    <3>1. OwedComment(q)' = OwedComment(q)
      BY <1>b, <2>1, <2>3 DEF OwedComment, Lane
    <3>2. SameMarker(q) = {}
      BY <1>b, <2>3 DEF RetryInv, LookedUp
    <3>3. QED
      BY <2>1, <3>1, <3>2 DEF SameMarker
  <2>4. QED
    BY <1>3, <2>1, <2>2, <2>3 DEF RetryInv, LookedUp, OneCommentPerKind
<1>6. QED
  BY <1>4, <1>5

(***************************************************************************)
(* Retries that follow one another reuse the comment of their kind, also   *)
(* when a host died right after it posted.                                 *)
(***************************************************************************)
THEOREM CommentsAreReused ==
  ASSUME ~Overlap, ~Flaky PROVE Spec => []OneCommentPerKind
<1>1. Init => RetryInv
  BY DEF Init, RetryInv, OneActive, LookedUp, OneCommentPerKind, Active
<1>2. TypeOK /\ TypeOK' /\ RetryInv /\ [Next]_vars => RetryInv'
  <2>1. CASE UNCHANGED vars
    BY <2>1 DEF vars, scriptVars, hostVars, RetryInv, OneActive, LookedUp,
       OneCommentPerKind, Active, SameMarker, OwedComment, Lane
  <2>2. QED
    BY <2>1, StepKeepsRetryInv DEF Next
<1>3. RetryInv => OneCommentPerKind
  BY DEF RetryInv
<1>4. QED
  BY <1>1, <1>2, <1>3, TypeCorrect, PTL DEF Spec

-----------------------------------------------------------------------------
Pipeline   == {"start", "patch", "guards", "publish", "landed"}
BeforePr   == {"none", "checkout", "start", "patch", "commands", "guards", "publish"}
Settled    == Commenting \cup Verdicted

(***************************************************************************)
(* The script: only the patch lane runs the pipeline, the pull request is  *)
(* its last act but one, and the script's own notice of no changes comes   *)
(* instead of it, in a task that allows it.                                *)
(***************************************************************************)
PlaceInv(r) ==
  /\ box[r] \in Pipeline => Lane = "patch"
  /\ box[r] \in BeforePr => r \notin prs
  /\ "no_changes_allowed" \in out[r].marks =>
       \/ "no_changes_allowed" \in repo[r].log
       \/ /\ box[r] \in {"post", "exited"} /\ AllowsNoChanges
          /\ ~repo[r].changed /\ r \notin prs

(***************************************************************************)
(* The result: status and ok are one, so are the kind and the URL of the   *)
(* comment, and a settled result is what is on disk.  A Done comment       *)
(* excludes a pull request, a Block comment does unless the timer fired or *)
(* the commands' log misled the host.                                      *)
(***************************************************************************)
BoundInv(r) ==
  /\ res[r].ok <=> res[r].status = "completed"
  /\ res[r].status = "timeout" => timedOut[r]
  /\ res[r].kind = "none" <=> res[r].comment = NoUrl
  /\ ~task.mode => res[r].kind = "none" /\ res[r].outcome = "none"
                   /\ disk[r].projection = "none"
  /\ host[r] \in Settled =>
       /\ disk[r].status = res[r].manifest
       /\ res[r].kind = "done" => res[r].pr = NoUrl
       /\ res[r].kind = "block" /\ res[r].pr # NoUrl => timedOut[r] \/ Misled(r)
  /\ host[r] \in Commenting => (res[r].kind = "done" => res[r].ok)

(***************************************************************************)
(* The verdict: what the outcome was derived from has not changed since.   *)
(***************************************************************************)
OutcomeInv(r) ==
  host[r] \in Verdicted /\ task.mode =>
    /\ res[r].outcome = Outcome(r)
    /\ disk[r].projection = Projection(res[r].outcome, res[r].kind)
    /\ res[r].kind = "done" => (res[r].ok <=> res[r].outcome # "missing_evidence")

ToldInv(r) == PlaceInv(r) /\ BoundInv(r) /\ OutcomeInv(r)

(***************************************************************************)
(* A pull request is open only for a task that may open one.               *)
(***************************************************************************)
PrsInv ==
  prs # {} => Lane = "patch" /\ ~task.readOnlyValidation /\ ~task.forbidNewPr

Told == PrsInv /\ \A r \in Runs : ToldInv(r)

(***************************************************************************)
(* The task is still the one that was built from the payload.              *)
(***************************************************************************)
PayloadKept ==
  payload # NoPayload => payload \in Payloads /\ task = BuildRunnerTask(payload)

LEMMA FramedTold ==
  ASSUME NEW q \in Runs, SameRun(q), q \in prs' <=> q \in prs, ToldInv(q)
  PROVE  ToldInv(q)'
<1>1. PlaceInv(q)'
  BY DEF SameRun, ToldInv, PlaceInv, Lane, AllowsNoChanges
<1>2. BoundInv(q)'
  BY DEF SameRun, ToldInv, BoundInv, Misled
<1>3. OutcomeInv(q)'
  BY DEF SameRun, ToldInv, OutcomeInv, Outcome, RawOutcome, NoChangeOutcome,
         GatePasses
<1>4. QED
  BY <1>1, <1>2, <1>3 DEF ToldInv

(***************************************************************************)
(* A step of its own script keeps a run's place in the pipeline.           *)
(***************************************************************************)
LEMMA ScriptKeepsPlace ==
  ASSUME TypeOK, NEW r \in Runs, PlaceInv(r), OutputInv(r), ScriptStep(r)
  PROVE  PlaceInv(r)'
<1>a. /\ box \in BoxType /\ exitCode \in CodeType /\ repo \in RepoType
      /\ out \in OutType
  BY DEF TypeOK, ScriptTypeOK, BoxType, CodeType, RepoType, OutType
<1>b. /\ \A b : Goto(r, b) => box'[r] = b
      /\ \A c : Exit(r, c) => box'[r] = "exited"
  BY <1>a, MoveFacts
<1>c. Script(r) /\ Lane' = Lane /\ AllowsNoChanges' = AllowsNoChanges
  BY DEF ScriptStep, Lane, AllowsNoChanges
<1>d. \A url, marks, flood : Say(r, url, marks, flood) =>
        out'[r].marks \subseteq out[r].marks \cup marks
  BY <1>a, SayGrows
<1>1. CASE Checkout(r)
  BY <1>1, <1>b, <1>c DEF Checkout, ToolsFail, FirstStep, PlaceInv, Pipeline, BeforePr
<1>2. CASE RunCommands(r)
  <2>1. PICK a \in Agents :
          /\ repo' = [repo EXCEPT ![r].leak = a.leak, ![r].log = a.marks]
          /\ Say(r, IF a.mention THEN OtherPr ELSE NoUrl, a.marks, a.verbose)
    BY <1>2 DEF RunCommands
  <2>2. box[r] = "commands" /\ box'[r] \in {"post", "exited"} /\ out[r].marks = {}
    BY <1>2, <1>b DEF RunCommands, OutputInv, Silent
  <2>3. repo'[r].log = a.marks /\ out'[r].marks \subseteq a.marks
    BY <1>a, <1>d, <2>1, <2>2 DEF RepoType
  <2>4. QED
    BY <2>2, <2>3 DEF PlaceInv, Pipeline, BeforePr
<1>3. CASE StartComment(r) \/ PatchGuards(r) \/ RefuseNewPr(r) \/ UpdateBranch(r)
  BY <1>3, <1>a, <1>b, <1>c DEF StartComment, PatchGuards, RefuseNewPr, UpdateBranch,
     PlaceInv, Pipeline, BeforePr, RepoType
<1>4. CASE PatchCommand(r)
  <2>1. /\ box[r] = "patch" /\ box'[r] \in {"guards", "exited"} /\ UNCHANGED prs
        /\ out[r].marks = {}
    BY <1>4, <1>b DEF PatchCommand, OutputInv, Silent
  <2>2. "no_changes_allowed" \in out'[r].marks => "no_changes_allowed" \in repo'[r].log
    <3>1. CASE ~task.patch
      <4>1. SayMark(r, "no_patch_command")
        BY <1>4, <3>1 DEF PatchCommand
      <4>2. out'[r].marks \subseteq {"no_patch_command"}
        BY <1>d, <2>1, <4>1 DEF SayMark
      <4>3. QED
        BY <4>2
    <3>2. CASE task.patch
      <4>1. PICK a \in Agents :
              /\ repo' = [repo EXCEPT ![r] = [changed |-> a.changed,
                                              leak    |-> a.leak,
                                              stray   |-> a.stray \/ a.mention,
                                              log     |-> a.marks]]
              /\ Say(r, IF a.mention THEN OtherPr ELSE NoUrl, a.marks, a.verbose)
        BY <1>4, <3>2 DEF PatchCommand
      <4>2. repo'[r].log = a.marks /\ out'[r].marks \subseteq a.marks
        BY <1>a, <1>d, <2>1, <4>1 DEF RepoType
      <4>3. QED
        BY <4>2
    <3>3. QED
      BY <3>1, <3>2
  <2>3. QED
    BY <1>c, <2>1, <2>2 DEF PlaceInv, Pipeline, BeforePr
<1>5. CASE NothingToPublish(r)
  <2>1. /\ box[r] = "publish" /\ ~repo[r].changed /\ UNCHANGED <<repo, prs>>
        /\ \/ AllowsNoChanges /\ box'[r] = "post"
           \/ UNCHANGED out /\ box'[r] = "exited"
    BY <1>5, <1>b DEF NothingToPublish
  <2>2. QED
    BY <1>c, <2>1 DEF PlaceInv, Pipeline, BeforePr
<1>6. CASE OpenPr(r)
  <2>1. out'[r].marks \subseteq out[r].marks
    <3>1. Say(r, r, {}, FALSE) => out'[r].marks \subseteq out[r].marks \cup {}
      BY <1>d
    <3>2. QED
      BY <1>6, <3>1 DEF OpenPr
  <2>2. box[r] = "publish" /\ box'[r] \in {"landed", "exited"}
    BY <1>6, <1>b DEF OpenPr
  <2>3. QED
    BY <1>6, <1>c, <2>1, <2>2 DEF OpenPr, PlaceInv, Pipeline, BeforePr
<1>7. CASE PostGuard(r) \/ Killed(r)
  BY <1>7, <1>b, <1>c DEF PostGuard, Killed, Alive, PlaceInv, Pipeline, BeforePr
<1>8. CASE CommentOnly(r)
  <2>1. box[r] = "comment" /\ box'[r] = "post" /\ out[r].marks = {}
    BY <1>8, <1>b DEF CommentOnly, OutputInv, Silent
  <2>2. out'[r].marks \subseteq {}
    BY <1>8, <1>d, <2>1 DEF CommentOnly
  <2>3. QED
    BY <2>1, <2>2 DEF PlaceInv, Pipeline, BeforePr
<1>9. QED
  BY <1>c, <1>1, <1>2, <1>3, <1>4, <1>5, <1>6, <1>7, <1>8 DEF Script

(***************************************************************************)
(* Only a task that may open a pull request gets that far.                 *)
(***************************************************************************)
LEMMA StepKeepsPrs ==
  ASSUME NEW r \in Runs, Step(r), RunInv(r), PlaceInv(r), PrsInv
  PROVE  PrsInv'
<1>1. UNCHANGED task
  BY DEF Step, Engine, ScriptStep, HostStep, Launch, StartContainer, EngineFails,
     CliExits, TimerFires, CliKilled, Crash, Close, WriteManifest, Settle,
     SkipComment, FindComment, PostComment, Classify, Prove
<1>2. CASE prs' = prs
  BY <1>1, <1>2 DEF PrsInv, Lane
<1>3. CASE OpenPr(r)
  <2>1. Lane = "patch" /\ ~task.readOnlyValidation /\ ~task.forbidNewPr
    BY <1>3 DEF OpenPr, PlaceInv, Pipeline, NewPrForbidden, RunInv, GuardInv,
       ReadOnlyBlocks
  <2>2. QED
    BY <1>1, <2>1 DEF PrsInv, Lane
<1>4. QED
  BY <1>2, <1>3, OnlyOpenPrOpens

(***************************************************************************)
(* The script, the engine, the timer and a crash leave the result and the  *)
(* manifest alone.                                                         *)
(***************************************************************************)
LEMMA OutsideKeepsTold ==
  ASSUME TypeOK, NEW r \in Runs, RunInv(r), OutputInv(r), ToldInv(r),
         \/ ScriptStep(r) \/ Launch(r) \/ StartContainer(r) \/ EngineFails(r)
         \/ CliExits(r) \/ TimerFires(r) \/ CliKilled(r) \/ Crash(r)
  PROVE  ToldInv(r)'
<1>a. /\ box \in [Runs -> Boxes] /\ host \in [Runs -> Hosts]
      /\ timedOut \in [Runs -> BOOLEAN]
  BY DEF TypeOK, ScriptTypeOK
<1>1. PlaceInv(r)' /\ (Misled(r) => Misled(r)')
  <2>1. CASE ScriptStep(r)
    BY <2>1, ScriptKeepsPlace, ScriptKeepsOutput DEF ToldInv
  <2>2. CASE StartContainer(r)
    BY <2>2, <1>a DEF StartContainer, ToldInv, PlaceInv, Pipeline, BeforePr, Misled
  <2>3. CASE ~ScriptStep(r) /\ ~StartContainer(r)
    BY <2>3 DEF Launch, EngineFails, CliExits, TimerFires, CliKilled, Crash,
       scriptVars, ToldInv, PlaceInv, Lane, Misled, AllowsNoChanges
  <2>4. QED
    BY <2>1, <2>2, <2>3
<1>2. /\ UNCHANGED <<task, res, disk>>
      /\ \/ host'[r] = host[r] /\ (timedOut'[r] = timedOut[r] \/ host[r] = "waiting")
         \/ host'[r] \in {"waiting", "crashed"} /\ timedOut' = timedOut
      /\ timedOut[r] => timedOut'[r]
  BY <1>a DEF ScriptStep, Launch, StartContainer, EngineFails, CliExits,
     TimerFires, CliKilled, Crash, hostVars
<1>3. BoundInv(r)'
  BY <1>1, <1>2 DEF ToldInv, BoundInv, Settled, Commenting, Verdicted
<1>4. OutcomeInv(r)'
  BY <1>2 DEF ToldInv, OutcomeInv, Verdicted, Outcome, RawOutcome, NoChangeOutcome,
     GatePasses
<1>5. QED
  BY <1>1, <1>3, <1>4 DEF ToldInv

(***************************************************************************)
(* What a comment says when it is bound to the result.                     *)
(***************************************************************************)
LEMMA BindingFits ==
  ASSUME TypeOK, NEW r \in Runs, RunInv(r), TentativeInv(r), BoundInv(r),
         host[r] \in {"lookup", "posting"}, host'[r] \in {"posting", "classify"},
         CanComment(r), UNCHANGED <<task, disk, timedOut, repo>>,
         \/ UNCHANGED res
         \/ \E q \in Runs : Bind(r, OwedComment(r), q)
  PROVE  BoundInv(r)'
<1>a. host \in [Runs -> Hosts] /\ res \in [Runs -> Result] /\ NoUrl \notin Runs
  BY RunsAssumption DEF TypeOK
<1>1. task.mode
  BY DEF RunInv, ResultInv, Commenting
<1>2. CASE UNCHANGED res
  BY <1>1, <1>2 DEF BoundInv, Settled, Commenting, Verdicted, Misled
<1>3. CASE \E q \in Runs : Bind(r, OwedComment(r), q)
  <2>1. OwedComment(r) \in {"done", "block"}
    BY OwedCommentType DEF CanComment
  <2>2. /\ res'[r].kind = OwedComment(r) /\ res'[r].comment \in Runs
        /\ res'[r].ok = res[r].ok /\ res'[r].status = res[r].status
        /\ res'[r].pr = res[r].pr /\ res'[r].manifest = res[r].manifest
    <3>1. PICK q \in Runs : Bind(r, OwedComment(r), q)
      BY <1>3
    <3>2. res' = [res EXCEPT ![r] = [res[r] EXCEPT !.kind = OwedComment(r),
                                                   !.comment = q]]
      BY <1>a, <3>1 DEF Bind
    <3>3. QED
      BY <1>a, <3>2, <2>1 DEF Result
  <2>3. OwedComment(r) = "done" => res[r].ok /\ res[r].pr = NoUrl
    BY DEF OwedComment
  <2>4. OwedComment(r) = "block" /\ res[r].pr # NoUrl => timedOut[r] \/ Misled(r)
    <3>1. Lane = "none" => res[r].pr = NoUrl
      BY DEF RunInv, GuardInv, OutInv, Closed
    <3>2. res[r].pr # NoUrl /\ ~timedOut[r] => res[r].ok \/ Misled(r)
      BY DEF TentativeInv, Commenting
    <3>3. OwedComment(r) = "block" => ~res[r].ok \/ Lane = "none"
      BY DEF OwedComment
    <3>4. QED
      BY <3>1, <3>2, <3>3
  <2>5. QED
    BY <1>a, <1>1, <2>1, <2>2, <2>3, <2>4 DEF BoundInv, Settled, Commenting, Verdicted,
       Misled
<1>4. QED
  BY <1>2, <1>3

LEMMA HostKeepsTold ==
  ASSUME TypeOK, PostingOwes, NEW r \in Runs, RunInv(r), TentativeInv(r),
         ToldInv(r), HostStep(r)
  PROVE  ToldInv(r)'
<1>a. /\ host \in [Runs -> Hosts] /\ res \in [Runs -> Result]
      /\ disk \in [Runs -> Manifest] /\ posts \subseteq ({"done", "block"} \X Runs)
  BY DEF TypeOK
<1>b. BoundInv(r) /\ OutcomeInv(r) /\ ResultInv(r)
  BY DEF ToldInv, RunInv
<1>c. UNCHANGED <<task, box, repo, out, prs, timedOut>>
  BY DEF HostStep, Close, WriteManifest, Settle, SkipComment, FindComment,
         PostComment, Classify, Prove, scriptVars
<1>d. PlaceInv(r)'
  BY <1>c DEF ToldInv, PlaceInv, Lane, AllowsNoChanges
<1>1. CASE Close(r) \/ WriteManifest(r)
  <2>1. /\ host[r] \in {"closed", "waiting"}
        /\ host'[r] \in {"closed", "settle", "rejected"}
        /\ res'[r].ok = res[r].ok /\ res'[r].status = res[r].status
        /\ res'[r].kind = res[r].kind /\ res'[r].comment = res[r].comment
        /\ res'[r].outcome = res[r].outcome
        /\ disk'[r].projection = disk[r].projection
    BY <1>1, <1>a DEF Close, WriteManifest, Result, Manifest
  <2>2. BoundInv(r)' /\ OutcomeInv(r)'
    BY <1>b, <1>c, <2>1 DEF BoundInv, OutcomeInv, Settled, Commenting, Verdicted
  <2>3. QED
    BY <1>d, <2>2 DEF ToldInv
<1>2. CASE Settle(r)
  <2> DEFINE ok == (ExitedOk(r) \/ Recovered(r)) /\ ~MissingPatchCommand(r)
  <2>1. /\ host[r] = "settle" /\ host'[r] = IF task.mode THEN "lookup" ELSE "prove"
        /\ res'[r].ok = ok /\ res'[r].status \in Statuses
        /\ res'[r].status = "completed" <=> ok
        /\ res'[r].status = "timeout" => timedOut[r]
        /\ res'[r].kind = res[r].kind /\ res'[r].comment = res[r].comment
        /\ res'[r].outcome = res[r].outcome
        /\ disk'[r].projection = disk[r].projection
        /\ disk'[r].status = res'[r].manifest
    BY <1>2, <1>a DEF Settle, Result, Manifest, Statuses
  <2>2. res[r].kind = "none"
    BY <1>b, <2>1 DEF ResultInv, Unsettled
  <2>3. BoundInv(r)' /\ OutcomeInv(r)'
    BY <1>b, <1>c, <2>1, <2>2 DEF BoundInv, OutcomeInv, Settled, Commenting, Verdicted
  <2>4. QED
    BY <1>d, <2>3 DEF ToldInv
<1>3. CASE SkipComment(r)
  <2>1. host[r] = "lookup" /\ host'[r] = "classify" /\ UNCHANGED <<res, disk>>
    BY <1>3, <1>a DEF SkipComment
  <2>2. BoundInv(r)' /\ OutcomeInv(r)'
    BY <1>b, <1>c, <2>1 DEF BoundInv, OutcomeInv, Settled, Commenting, Verdicted,
       Misled
  <2>3. QED
    BY <1>d, <2>2 DEF ToldInv
<1>4. CASE FindComment(r) \/ PostComment(r)
  <2>1. /\ host[r] \in {"lookup", "posting"} /\ host'[r] \in {"posting", "classify"}
        /\ CanComment(r) /\ UNCHANGED disk
    BY <1>4, <1>a DEF FindComment, PostComment, PostingOwes
  <2>2. \/ UNCHANGED res
        \/ \E q \in Runs : Bind(r, OwedComment(r), q)
    BY <1>4, <1>a DEF FindComment, PostComment, SameMarker
  <2>3. BoundInv(r)'
    BY <1>b, <1>c, <2>1, <2>2, BindingFits
  <2>4. OutcomeInv(r)'
    BY <2>1 DEF OutcomeInv, Verdicted
  <2>5. QED
    BY <1>d, <2>3, <2>4 DEF ToldInv
<1>5. CASE Classify(r)
  <2>1. /\ host[r] = "classify" /\ host'[r] = "prove" /\ task.mode
        /\ res'[r].ok = (res[r].ok /\ Outcome(r) # "missing_evidence")
        /\ res'[r].status = IF Outcome(r) = "missing_evidence" THEN "failed"
                            ELSE res[r].status
        /\ res'[r].kind = res[r].kind /\ res'[r].comment = res[r].comment
        /\ res'[r].pr = res[r].pr /\ res'[r].marks = res[r].marks
        /\ res'[r].manifest = res[r].manifest /\ res'[r].outcome = Outcome(r)
        /\ disk'[r].status = disk[r].status
        /\ disk'[r].projection = Projection(Outcome(r), res[r].kind)
    BY <1>5, <1>a, <1>b, OutcomeType, ProjectionType
    DEF Classify, FailsClosed, Result, Manifest, ResultInv, Commenting
  <2>2. Outcome(r)' = Outcome(r)
    BY <1>c, <2>1 DEF Outcome, RawOutcome, NoChangeOutcome, GatePasses
  <2>3. BoundInv(r)'
    BY <1>b, <1>c, <2>1 DEF BoundInv, Settled, Commenting, Verdicted, Misled
  <2>4. OutcomeInv(r)'
    BY <1>b, <2>1, <2>2 DEF OutcomeInv, BoundInv, Commenting
  <2>5. QED
    BY <1>d, <2>3, <2>4 DEF ToldInv
<1>6. CASE Prove(r)
  <2>1. /\ host[r] = "prove" /\ host'[r] = "returned" /\ UNCHANGED res
        /\ disk'[r].status = disk[r].status
        /\ disk'[r].projection = disk[r].projection
    BY <1>6, <1>a DEF Prove, Manifest
  <2>2. BoundInv(r)' /\ OutcomeInv(r)'
    BY <1>b, <1>c, <2>1 DEF BoundInv, OutcomeInv, Settled, Commenting, Verdicted,
       Misled, Outcome, RawOutcome, NoChangeOutcome, GatePasses
  <2>3. QED
    BY <1>d, <2>2 DEF ToldInv
<1>7. QED
  BY <1>1, <1>2, <1>3, <1>4, <1>5, <1>6 DEF HostStep

(***************************************************************************)
(* What the handler is told stays true of every run, whatever runs beside  *)
(* it.                                                                     *)
(***************************************************************************)
THEOREM ToldInvariance == Spec => []Told
<1>1. Init => Told
  <2> SUFFICES ASSUME Init, NEW r \in Runs PROVE PrsInv /\ ToldInv(r)
    BY DEF Told, Init, ScriptInit, PrsInv
  <2>1. PrsInv /\ PlaceInv(r)
    BY DEF Init, ScriptInit, PrsInv, PlaceInv, Pipeline, BeforePr
  <2>2. BoundInv(r) /\ OutcomeInv(r)
    BY DEF Init, BoundInv, OutcomeInv, NoResult, Settled, Commenting, Verdicted
  <2>3. QED
    BY <2>1, <2>2 DEF ToldInv
<1>2. IInv /\ Verdict /\ Told /\ [Next]_vars => Told'
  <2>1. CASE UNCHANGED vars
    <3>1. PrsInv => PrsInv'
      BY <2>1 DEF vars, scriptVars, PrsInv, Lane
    <3>2. ASSUME Told, NEW q \in Runs PROVE ToldInv(q)'
      BY <2>1, <3>2, FramedTold
      DEF Told, SameRun, OwnComments, vars, scriptVars, hostVars
    <3>3. QED
      BY <3>1, <3>2 DEF Told
  <2>2. ASSUME IInv, Verdict, Told, NEW r \in Runs, Step(r) PROVE Told'
    <3>1. PrsInv'
      BY <2>2, StepKeepsPrs DEF IInv, Told, ToldInv
    <3>2. ToldInv(r)'
      BY <2>2, OutsideKeepsTold, HostKeepsTold
      DEF IInv, Verdict, VerdictInv, Told, Step, Engine
    <3>3. ASSUME NEW q \in Runs, q # r PROVE ToldInv(q)'
      <4>1. q \in prs' <=> q \in prs
        BY <2>2, <3>3, OnlyOpenPrOpens, OtherRuns DEF SameRun, IInv
      <4>2. QED
        BY <2>2, <3>3, <4>1, OtherRuns, FramedTold DEF IInv, Told
    <3>4. QED
      BY <3>1, <3>2, <3>3 DEF Told
  <2>3. QED
    BY <2>1, <2>2 DEF Next
<1>3. QED
  BY <1>1, <1>2, Invariance, VerdictInvariance, PTL DEF Spec

(***************************************************************************)
(* The evidence the handler extracts from what a run returned.  In spite   *)
(* of the seven conditions of extractGitHubEvidence there are four cases:  *)
(* the pull request the host saw, else the Block comment, else the Done    *)
(* comment of a run that is ok and within its budget, else nothing.        *)
(***************************************************************************)
Extracted(r) == ExtractGitHubEvidence(Raw(r))

GivesPr(r) == res[r].pr # NoUrl /\ Extracted(r) = PrEvidence(res[r].pr)

GivesBlock(r) ==
  /\ res[r].pr = NoUrl /\ res[r].kind = "block" /\ res[r].comment # NoUrl
  /\ Extracted(r).pr = NoUrl /\ Extracted(r).done = NoUrl
  /\ Extracted(r).block = res[r].comment
  /\ Extracted(r).outcome \in {"block", "no_changes_blocked"}

GivesDone(r) ==
  /\ res[r].pr = NoUrl /\ res[r].kind = "done" /\ res[r].comment # NoUrl
  /\ res[r].ok /\ res[r].manifest # "budget_limited"
  /\ Extracted(r).pr = NoUrl /\ Extracted(r).block = NoUrl
  /\ Extracted(r).done = res[r].comment
  /\ Extracted(r).outcome \in {"done", "no_changes_done"}

GivesNothing(r) ==
  /\ res[r].pr = NoUrl /\ res[r].kind # "block"
  /\ res[r].kind = "done" => ~res[r].ok \/ res[r].manifest = "budget_limited"
  /\ Extracted(r) = NoEvidence

LEMMA EvidenceCases ==
  ASSUME IInv, Told, NEW r \in Reported
  PROVE  GivesPr(r) \/ GivesBlock(r) \/ GivesDone(r) \/ GivesNothing(r)
<1>a. r \in Runs /\ host[r] = "returned" /\ res[r] \in Result
  BY DEF Reported, IInv, TypeOK
<1>b. BoundInv(r) /\ OutcomeInv(r)
  BY <1>a DEF Told, ToldInv
<1>c. res[r].kind \in {"none", "block", "done"}
  BY <1>a DEF Result
<1> DEFINE raw == Raw(r)
           g   == Raw(r).github
<1>1. /\ raw.ok = res[r].ok /\ raw.status = res[r].status /\ raw.pr = res[r].pr
      /\ raw.budget = (res[r].manifest = "budget_limited")
  BY DEF Raw
<1>2. /\ g.block = IF res[r].kind = "block" THEN res[r].comment ELSE NoUrl
      /\ g.done = IF res[r].kind = "done" THEN res[r].comment ELSE NoUrl
      /\ g.pr \in {res[r].pr, NoUrl} /\ (task.mode => g.pr = res[r].pr)
      /\ g.outcome = IF task.mode THEN res[r].outcome ELSE "none"
  BY <1>b DEF Raw, Comment, NoEvidence, BoundInv
<1>3. TerminalDone(raw) <=>
        res[r].kind = "done" /\ res[r].ok /\ res[r].manifest # "budget_limited"
  BY <1>1, <1>2, <1>b DEF TerminalDone, BoundInv
<1>4. res[r].kind # "none" => task.mode /\ res[r].comment # NoUrl
  BY <1>b DEF BoundInv
<1>5. ASSUME task.mode
      PROVE  \/ res[r].pr # NoUrl /\ res[r].outcome \in {"pr", "missing_evidence"}
             \/ /\ res[r].pr = NoUrl /\ res[r].kind = "block"
                /\ res[r].outcome \in {"block", "no_changes_blocked", "missing_evidence"}
             \/ /\ res[r].pr = NoUrl /\ res[r].kind = "done"
                /\ res[r].outcome \in {"done", "no_changes_done", "missing_evidence"}
             \/ res[r].pr = NoUrl /\ res[r].kind = "none"
  BY <1>a, <1>b, <1>c, <1>5
  DEF OutcomeInv, Verdicted, Outcome, RawOutcome, NoChangeOutcome
<1>6. CASE res[r].pr # NoUrl
  <2>1. res[r].kind # "done"
    BY <1>a, <1>b, <1>6 DEF BoundInv, Settled, Verdicted
  <2>2. ~TerminalDone(raw) /\ g.outcome \notin {"block", "no_changes_blocked"}
    BY <1>2, <1>3, <1>5, <1>6, <2>1
  <2>3. g.block # NoUrl => g.pr # NoUrl
    BY <1>2, <1>4, <1>6
  <2>4. ExtractGitHubEvidence(raw) = PrEvidence(res[r].pr)
    BY <1>1, <1>2, <1>6, <2>2, <2>3 DEF ExtractGitHubEvidence
  <2>5. QED
    BY <1>6, <2>4 DEF GivesPr, Extracted
<1>7. CASE res[r].pr = NoUrl /\ res[r].kind = "block"
  <2>1. /\ g.block = res[r].comment /\ g.block # NoUrl /\ g.pr = NoUrl
        /\ ~TerminalDone(raw)
        /\ g.outcome \in {"block", "no_changes_blocked", "missing_evidence"}
    BY <1>2, <1>3, <1>4, <1>5, <1>7
  <2>2. ExtractGitHubEvidence(raw) = BlockEvidence(g)
    BY <2>1 DEF ExtractGitHubEvidence
  <2>3. QED
    BY <1>7, <2>1, <2>2
    DEF GivesBlock, Extracted, BlockEvidence, StructuredOutcome, NoEvidence
<1>8. CASE res[r].pr = NoUrl /\ res[r].kind = "done" /\ TerminalDone(raw)
  <2>1. /\ g.done = res[r].comment /\ g.done # NoUrl /\ g.pr = NoUrl /\ g.block = NoUrl
        /\ g.outcome \in {"done", "no_changes_done", "missing_evidence"}
    BY <1>2, <1>4, <1>5, <1>8
  <2>2. ExtractGitHubEvidence(raw) = DoneEvidence(g)
    BY <1>8, <2>1 DEF ExtractGitHubEvidence
  <2>3. QED
    BY <1>3, <1>8, <2>1, <2>2
    DEF GivesDone, Extracted, DoneEvidence, StructuredOutcome, NoEvidence
<1>9. CASE res[r].pr = NoUrl /\ res[r].kind # "block" /\ ~TerminalDone(raw)
  <2>1. ExtractGitHubEvidence(raw) = NoEvidence
    BY <1>1, <1>2, <1>9 DEF ExtractGitHubEvidence
  <2>2. QED
    BY <1>3, <1>9, <2>1 DEF GivesNothing, Extracted
<1>10. QED
  BY <1>3, <1>6, <1>7, <1>8, <1>9

(***************************************************************************)
(* The kind of the event in each of the four cases.                        *)
(***************************************************************************)
LEMMA KindOfCases ==
  ASSUME IInv, Told, NEW r \in Reported
  PROVE  /\ GivesPr(r)      => Kind(r) = "PR"
         /\ GivesBlock(r)   => Kind(r) = "Block"
         /\ GivesDone(r)    => Kind(r) = "Done"
         /\ GivesNothing(r) =>
              Kind(r) = IF res[r].manifest = "budget_limited" THEN "BudgetLimited"
                        ELSE IF TimedOut(Raw(r)) THEN "TimedOut" ELSE "MissingEvidence"
<1>1. Raw(r).budget = (res[r].manifest = "budget_limited")
  BY DEF Raw
<1>2. GivesPr(r) => Kind(r) = "PR"
  BY DEF GivesPr, Extracted, PrEvidence, NoEvidence, Kind, EvidenceKind
<1>3. GivesBlock(r) => Kind(r) = "Block"
  BY DEF GivesBlock, Extracted, Kind, EvidenceKind
<1>4. GivesDone(r) => Kind(r) = "Done"
  BY <1>1 DEF GivesDone, Extracted, Kind, EvidenceKind
<1>5. GivesNothing(r) =>
        Kind(r) = IF res[r].manifest = "budget_limited" THEN "BudgetLimited"
                  ELSE IF TimedOut(Raw(r)) THEN "TimedOut" ELSE "MissingEvidence"
  <2>1. GivesNothing(r) =>
          /\ Extracted(r).pr = NoUrl /\ Extracted(r).done = NoUrl
          /\ Extracted(r).block = NoUrl
    BY DEF GivesNothing, NoEvidence
  <2>2. QED
    BY <1>1, <2>1 DEF Extracted, Kind, EvidenceKind
<1>6. QED
  BY <1>2, <1>3, <1>4, <1>5

(***************************************************************************)
(* A run started by the handler is a run of RunTask: whatever holds of     *)
(* every run holds of it.                                                  *)
(***************************************************************************)
LEMMA ReportRuns == ReportSpec => Spec
<1>1. ReportInit => Init
  BY DEF ReportInit
<1>2. [ReportNext]_reportVars => [Next]_vars
  BY DEF ReportNext, reportVars
<1>3. QED
  BY <1>1, <1>2, PTL DEF ReportSpec, Spec

LEMMA ReportInvariance == ReportSpec => [](IInv /\ Told)
BY ReportRuns, Invariance, ToldInvariance, PTL

(***************************************************************************)
(* Broker, notifiers, operators and the canary audit are told one story of *)
(* every result a run can return, and a budget stop is never told as done. *)
(***************************************************************************)
THEOREM OneStory == ReportSpec => []ReportsAgree
<1>1. ASSUME IInv, Told PROVE ReportsAgree
  <2> SUFFICES ASSUME NEW r \in Reported
               PROVE
      LET kind   == Kind(r)
          status == EventStatus(kind, res[r].ok)
          handed == HandlerStatus(Raw(r))
      IN /\ handed = "pr_opened" <=> kind = "PR"
         /\ handed = "done" <=> kind = "Done"
         /\ status = "succeeded" <=> handed # "blocked"
         /\ BriefLabel(kind, status) = "completed" <=> handed # "blocked"
         /\ EventUrl(Raw(r)) # NoUrl <=> kind \in Answered
         /\ ReportUrl(Raw(r)) = EventUrl(Raw(r))
         /\ ~HasRisks(Raw(r)) => handed # "blocked"
         /\ OperatorAction(kind, TRUE) \in {"monitor_pr", "review_done_evidence"}
              => handed # "blocked"
         /\ disk[r].status = "budget_limited" =>
              handed = IF res[r].pr = NoUrl THEN "blocked" ELSE "pr_opened"
    BY DEF ReportsAgree
  <2> DEFINE kind   == Kind(r)
             status == EventStatus(kind, res[r].ok)
             handed == HandlerStatus(Raw(r))
  <2>a. disk[r].status = res[r].manifest
    BY <1>1 DEF Reported, Told, ToldInv, BoundInv, Settled, Verdicted
  <2>1. CASE GivesPr(r)
    <3>1. kind = "PR" /\ Extracted(r).pr = res[r].pr /\ res[r].pr # NoUrl
      BY <1>1, <2>1, KindOfCases DEF GivesPr, PrEvidence, NoEvidence
    <3>2. Extracted(r) # NoEvidence
      BY <3>1 DEF NoEvidence
    <3>3. handed = "pr_opened" /\ status = "succeeded"
      BY <3>1, <3>2 DEF HandlerStatus, EventStatus, Extracted
    <3>4. EventUrl(Raw(r)) = res[r].pr /\ ReportUrl(Raw(r)) = res[r].pr
      BY <3>1 DEF EventUrl, ReportUrl, Kind, Extracted
    <3>5. QED
      BY <2>1, <3>1, <3>3, <3>4 DEF BriefLabel, Answered, GivesPr
  <2>2. CASE GivesBlock(r)
    <3>1. /\ kind = "Block" /\ res[r].comment # NoUrl /\ res[r].pr = NoUrl
          /\ Extracted(r).pr = NoUrl /\ Extracted(r).done = NoUrl
          /\ Extracted(r).block = res[r].comment
          /\ Extracted(r).outcome \in {"block", "no_changes_blocked"}
      BY <1>1, <2>2, KindOfCases DEF GivesBlock
    <3>2. Extracted(r) # NoEvidence
      BY <3>1 DEF NoEvidence
    <3>3. handed = "blocked" /\ status = "blocked" /\ HasRisks(Raw(r))
      BY <3>1, <3>2 DEF HandlerStatus, EventStatus, HasRisks, Headline, Extracted
    <3>4. /\ EventUrl(Raw(r)) = res[r].comment /\ ReportUrl(Raw(r)) = res[r].comment
      BY <3>1 DEF EventUrl, ReportUrl, Kind, Extracted
    <3>5. /\ BriefLabel(kind, status) = "blocked"
          /\ OperatorAction(kind, TRUE) = "review_block_evidence"
      BY <3>1, <3>3 DEF BriefLabel, OperatorAction, Answered
    <3>6. QED
      BY <3>1, <3>3, <3>4, <3>5 DEF Answered
  <2>3. CASE GivesDone(r)
    <3>1. /\ kind = "Done" /\ res[r].comment # NoUrl
          /\ res[r].manifest # "budget_limited"
          /\ Extracted(r).pr = NoUrl /\ Extracted(r).block = NoUrl
          /\ Extracted(r).done = res[r].comment
      BY <1>1, <2>3, KindOfCases DEF GivesDone
    <3>2. Extracted(r) # NoEvidence
      BY <3>1 DEF NoEvidence
    <3>3. handed = "done" /\ status = "succeeded"
      BY <3>1, <3>2 DEF HandlerStatus, EventStatus, Extracted
    <3>4. EventUrl(Raw(r)) = res[r].comment /\ ReportUrl(Raw(r)) = res[r].comment
      BY <3>1 DEF EventUrl, ReportUrl, Kind, Extracted
    <3>5. QED
      BY <2>a, <3>1, <3>3, <3>4 DEF BriefLabel, Answered
  <2>4. CASE GivesNothing(r)
    <3>1. /\ kind \in {"BudgetLimited", "TimedOut", "MissingEvidence"}
          /\ res[r].pr = NoUrl /\ Extracted(r) = NoEvidence
      BY <1>1, <2>4, KindOfCases DEF GivesNothing
    <3>2. Extracted(r).pr = NoUrl /\ Extracted(r).done = NoUrl /\ Extracted(r).block = NoUrl
      BY <3>1 DEF NoEvidence
    <3>3. handed = "blocked" /\ HasRisks(Raw(r))
      BY <3>1, <3>2 DEF HandlerStatus, HasRisks, Headline, Extracted
    <3>4. status \in {"blocked", "cancelled", "failed"}
      BY <3>1 DEF EventStatus
    <3>5. EventUrl(Raw(r)) = NoUrl /\ ReportUrl(Raw(r)) = NoUrl
      BY <3>1, <3>2 DEF EventUrl, ReportUrl, Kind, Extracted
    <3>6. /\ BriefLabel(kind, status) # "completed"
          /\ OperatorAction(kind, TRUE) \in
               {"approve_bounded_continuation", "retry_or_block_recovery"}
      BY <3>1, <3>4 DEF BriefLabel, OperatorAction, Answered
    <3>7. QED
      BY <3>1, <3>3, <3>4, <3>5, <3>6 DEF Answered
  <2>5. QED
    BY <1>1, <2>1, <2>2, <2>3, <2>4, EvidenceCases
<1>2. QED
  BY <1>1, ReportInvariance, PTL

(***************************************************************************)
(* The event of a run names evidence that exists: a Done or a Block that   *)
(* is on the issue, a pull request the run itself printed.                 *)
(***************************************************************************)
THEOREM EarnedEvents == ReportSpec => []EventIsEarned
<1>1. ASSUME IInv, Told PROVE EventIsEarned
  <2> SUFFICES ASSUME NEW r \in Reported
               PROVE  LET url == EventUrl(Raw(r)) IN
                      CASE Kind(r) = "Done"  -> /\ res[r].ok /\ ~timedOut[r]
                                                /\ <<"done", url>> \in posts
                        [] Kind(r) = "Block" -> <<"block", url>> \in posts
                        [] Kind(r) = "PR"    -> url = out[r].pr
                        [] OTHER             -> TRUE
    BY DEF EventIsEarned
  <2>a. /\ res[r].comment # NoUrl => <<res[r].kind, res[r].comment>> \in posts
        /\ res[r].pr = out[r].pr /\ (res[r].ok => ~timedOut[r])
    BY <1>1 DEF IInv, RunInv, PostInv, OutInv, ResultInv, Reported, Closed
  <2>1. CASE GivesPr(r)
    <3>1. Kind(r) = "PR" /\ Extracted(r).pr = res[r].pr
      BY <1>1, <2>1, KindOfCases DEF GivesPr, PrEvidence, NoEvidence
    <3>2. EventUrl(Raw(r)) = out[r].pr
      BY <2>a, <3>1 DEF EventUrl, Kind, Extracted
    <3>3. QED
      BY <3>1, <3>2
  <2>2. CASE GivesBlock(r)
    <3>1. Kind(r) = "Block" /\ <<"block", Extracted(r).block>> \in posts
      BY <1>1, <2>2, <2>a, KindOfCases DEF GivesBlock
    <3>2. EventUrl(Raw(r)) = Extracted(r).block
      BY <3>1 DEF EventUrl, Kind, Extracted
    <3>3. QED
      BY <3>1, <3>2
  <2>3. CASE GivesDone(r)
    <3>1. /\ Kind(r) = "Done" /\ <<"done", Extracted(r).done>> \in posts
          /\ res[r].ok /\ ~timedOut[r]
      BY <1>1, <2>3, <2>a, KindOfCases DEF GivesDone
    <3>2. EventUrl(Raw(r)) = Extracted(r).done
      BY <3>1 DEF EventUrl, Kind, Extracted
    <3>3. QED
      BY <3>1, <3>2
  <2>4. CASE GivesNothing(r)
    <3>1. Kind(r) \in {"BudgetLimited", "TimedOut", "MissingEvidence"}
      BY <1>1, <2>4, KindOfCases
    <3>2. QED
      BY <3>1
  <2>5. QED
    BY <1>1, <2>1, <2>2, <2>3, <2>4, EvidenceCases
<1>2. QED
  BY <1>1, ReportInvariance, PTL

(***************************************************************************)
(* The projection on disk and the event agree on the kind of evidence, at  *)
(* opposite ends of the pipe, but for a budget stop.                       *)
(***************************************************************************)
THEOREM ProjectionTold == ReportSpec => []ProjectionAgrees
<1>1. ASSUME IInv, Told PROVE ProjectionAgrees
  <2> SUFFICES ASSUME NEW r \in Reported
      PROVE /\ disk[r].projection = "pr"    => Kind(r) = "PR"
            /\ disk[r].projection = "block" => Kind(r) = "Block"
            /\ disk[r].projection = "done"  =>
                 Kind(r) = IF Raw(r).budget THEN "BudgetLimited" ELSE "Done"
    BY DEF ProjectionAgrees
  <2>a. r \in Runs /\ BoundInv(r) /\ OutcomeInv(r) /\ host[r] = "returned"
    BY <1>1 DEF Told, ToldInv, Reported
  <2>1. Raw(r).budget = (res[r].manifest = "budget_limited")
    BY DEF Raw
  <2>2. ASSUME disk[r].projection # "none" PROVE task.mode
    BY <2>a, <2>2 DEF BoundInv
  <2>3. ASSUME task.mode
        PROVE  /\ res[r].outcome = Outcome(r)
               /\ disk[r].projection = Projection(Outcome(r), res[r].kind)
               /\ res[r].kind = "done" => (res[r].ok <=> Outcome(r) # "missing_evidence")
               /\ res[r].kind = "done" => res[r].pr = NoUrl
    BY <2>a, <2>3 DEF OutcomeInv, BoundInv, Verdicted, Settled
  <2>4. ASSUME disk[r].projection = "pr" PROVE Kind(r) = "PR"
    <3>1. Outcome(r) = "pr"
      BY <2>2, <2>3, <2>4 DEF Projection
    <3>2. res[r].pr # NoUrl
      BY <3>1, <2>a, <1>1 DEF Outcome, RawOutcome, NoChangeOutcome, IInv, TypeOK, Result
    <3>3. QED
      BY <1>1, <3>2, EvidenceCases, KindOfCases DEF GivesBlock, GivesDone, GivesNothing
  <2>5. ASSUME disk[r].projection = "block" PROVE Kind(r) = "Block"
    <3>1. Outcome(r) \in {"block", "no_changes_blocked"} /\ res[r].kind = "block"
      BY <2>2, <2>3, <2>5 DEF Projection
    <3>2. res[r].pr = NoUrl
      BY <3>1 DEF Outcome, RawOutcome
    <3>3. QED
      BY <1>1, <3>1, <3>2, EvidenceCases, KindOfCases
      DEF GivesPr, GivesDone, GivesNothing
  <2>6. ASSUME disk[r].projection = "done"
        PROVE  Kind(r) = IF Raw(r).budget THEN "BudgetLimited" ELSE "Done"
    <3>1. Outcome(r) \in {"done", "no_changes_done"} /\ res[r].kind = "done"
      BY <2>2, <2>3, <2>6 DEF Projection
    <3>2. res[r].ok /\ res[r].pr = NoUrl
      BY <2>2, <2>3, <2>6, <3>1
    <3>3. GivesDone(r) \/ (GivesNothing(r) /\ res[r].manifest = "budget_limited")
      BY <1>1, <3>1, <3>2, EvidenceCases DEF GivesPr, GivesBlock, GivesNothing
    <3>4. GivesDone(r) => res[r].manifest # "budget_limited"
      BY DEF GivesDone
    <3>5. QED
      BY <1>1, <2>1, <3>3, <3>4, KindOfCases
  <2>7. QED
    BY <2>4, <2>5, <2>6
<1>2. QED
  BY <1>1, ReportInvariance, PTL

(***************************************************************************)
(* A run that reports no changes may do so, left no diff and opened no     *)
(* pull request, and only one whose timer fired shows a pull request       *)
(* beside a Block, unless the log of its commands holds the script's line. *)
(***************************************************************************)
THEOREM TrueOutcomes == ReportSpec => []OutcomeIsTrue
<1>1. ASSUME IInv, Told PROVE OutcomeIsTrue
  <2> SUFFICES ASSUME NEW r \in Reported
      PROVE /\ /\ res[r].outcome \in {"no_changes_done", "no_changes_blocked"}
               /\ "no_changes_allowed" \notin repo[r].log
               => AllowsNoChanges /\ ~repo[r].changed /\ r \notin prs
            /\ res[r].pr # NoUrl /\ res[r].kind = "block" =>
                 timedOut[r] \/ "no_patch_command" \in repo[r].log
    BY DEF OutcomeIsTrue
  <2>a. /\ r \in Runs /\ PlaceInv(r) /\ BoundInv(r) /\ OutcomeInv(r)
        /\ host[r] = "returned" /\ res[r].kind \in {"none", "block", "done"}
        /\ res[r].marks = out[r].marks
    BY <1>1 DEF Told, ToldInv, Reported, IInv, TypeOK, Result, RunInv, OutInv, Closed
  <2>1. ASSUME res[r].outcome \in {"no_changes_done", "no_changes_blocked"},
               "no_changes_allowed" \notin repo[r].log
        PROVE  AllowsNoChanges /\ ~repo[r].changed /\ r \notin prs
    <3>1. Outcome(r) \in {"no_changes_done", "no_changes_blocked"}
      BY <2>a, <2>1 DEF BoundInv, OutcomeInv, Verdicted
    <3>2. "no_changes_allowed" \in out[r].marks
      BY <2>a, <3>1 DEF Outcome, RawOutcome
    <3>3. QED
      BY <2>a, <2>1, <3>2 DEF PlaceInv
  <2>2. res[r].pr # NoUrl /\ res[r].kind = "block" => timedOut[r] \/ Misled(r)
    BY <2>a DEF BoundInv, Settled, Verdicted
  <2>3. QED
    BY <2>1, <2>2 DEF Misled
<1>2. QED
  BY <1>1, ReportInvariance, PTL

(***************************************************************************)
(* What the payload asks for reaches the guards of the script: no run of a *)
(* payload that asks for verification, no new pull request, a read-only    *)
(* run or comments only ever opens a pull request.                         *)
(***************************************************************************)
THEOREM AskedReachesGuards == ReportSpec => []AskedIsKept
<1>1. ReportInit => PayloadKept
  BY DEF ReportInit, PayloadKept
<1>2. PayloadKept /\ [ReportNext]_reportVars => PayloadKept'
  <2>1. [ReportNext]_reportVars => UNCHANGED <<task, payload>>
    BY DEF ReportNext, reportVars, vars, Next, Step, Engine, ScriptStep, HostStep,
       Launch, StartContainer, EngineFails, CliExits, TimerFires, CliKilled,
       Crash, Close, WriteManifest, Settle, SkipComment, FindComment,
       PostComment, Classify, Prove
  <2>2. QED
    BY <2>1 DEF PayloadKept
<1>3. ASSUME IInv, Told, PayloadKept PROVE AskedIsKept
  <2> SUFFICES ASSUME payload # NoPayload,
                      \/ payload.mode = "github-verify"
                      \/ Asked(payload.forbidNewPr, payload.noNewPr)
                      \/ Asked(payload.commentOnly, payload.evidenceOnly)
                      \/ Asked(payload.readOnlyValidation, payload.validationOnly)
               PROVE  prs = {}
    BY DEF AskedIsKept
  <2>1. task = BuildRunnerTask(payload)
    BY <1>3 DEF PayloadKept
  <2>2. \/ task.forbidNewPr \/ task.readOnlyValidation \/ task.commentOnly
    BY <2>1 DEF BuildRunnerTask, IsVerifyMode
  <2>3. Lane = "patch" => ~task.commentOnly
    BY DEF Lane
  <2>4. QED
    BY <1>3, <2>2, <2>3 DEF Told, PrsInv
<1>4. QED
  BY <1>1, <1>2, <1>3, ReportInvariance, PTL DEF ReportSpec
=============================================================================
