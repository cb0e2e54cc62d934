--------------------------- MODULE RunTaskProofs ---------------------------
(***************************************************************************)
(* Proofs about RunTask, for any number of runs, any set of tasks and any  *)
(* behaviour of the patch command.  The invariants follow from one that is *)
(* inductive, IInv, whose parts are what each stage of a run has           *)
(* established for the stages that come after it.                          *)
(***************************************************************************)
EXTENDS RunTaskRefinement, TLAPS

RepoType   == [Runs -> [changed: BOOLEAN, leak: BOOLEAN, stray: BOOLEAN,
                        log: SUBSET Markers]]
OutType    == [Runs -> [pr: PrUrls, marks: SUBSET Markers, full: BOOLEAN]]
BoxType    == [Runs -> Boxes]
CodeType   == [Runs -> Codes \cup {NoCode}]

(***************************************************************************)
(* The helpers of the script keep the types of what they assign.           *)
(***************************************************************************)
LEMMA GotoTypes ==
  ASSUME box \in BoxType, exitCode \in CodeType,
         NEW r, NEW b \in Boxes, Goto(r, b)
  PROVE  box' \in BoxType /\ exitCode' \in CodeType
BY DEF Goto, BoxType, CodeType

LEMMA ExitTypes ==
  ASSUME box \in BoxType, exitCode \in CodeType,
         NEW r, NEW c \in Codes, Exit(r, c)
  PROVE  box' \in BoxType /\ exitCode' \in CodeType
BY DEF Exit, BoxType, CodeType, Boxes

LEMMA SayTypes ==
  ASSUME out \in OutType, NEW r \in Runs, NEW url \in PrUrls,
         NEW marks \in SUBSET Markers, NEW flood \in BOOLEAN,
         Say(r, url, marks, flood)
  PROVE  out' \in OutType
<1>1. CASE cli[r] # "running"
  <2>1. out' = [out EXCEPT ![r] = out[r]]
    BY <1>1 DEF Say
  <2>2. QED
    BY <2>1 DEF OutType
<1>2. CASE cli[r] = "running"
  <2> DEFINE new == [pr    |-> IF out[r].pr = NoUrl THEN url ELSE out[r].pr,
                     marks |-> IF out[r].full THEN out[r].marks
                                              ELSE out[r].marks \cup marks,
                     full  |-> out[r].full \/ flood]
  <2>1. out' = [out EXCEPT ![r] = new]
    BY <1>2 DEF Say
  <2>2. new \in [pr: PrUrls, marks: SUBSET Markers, full: BOOLEAN]
    BY DEF OutType
  <2> HIDE DEF new
  <2>3. QED
    BY <2>1, <2>2 DEF OutType
<1>3. QED
  BY <1>1, <1>2

LEMMA SayMarkTypes ==
  ASSUME out \in OutType, NEW r \in Runs, NEW m \in Markers, SayMark(r, m)
  PROVE  out' \in OutType
<1>1. NoUrl \in PrUrls /\ {m} \in SUBSET Markers /\ FALSE \in BOOLEAN
  BY DEF PrUrls
<1>2. Say(r, NoUrl, {m}, FALSE)
  BY DEF SayMark
<1>3. QED
  BY <1>1, <1>2, SayTypes

(***************************************************************************)
(* A step of the script in one of its containers, action by action.        *)
(***************************************************************************)
LEMMA ScriptTypes ==
  ASSUME ScriptTypeOK, NEW r \in Runs, Script(r), UNCHANGED <<task, cli>>
  PROVE  ScriptTypeOK'
<1> DEFINE Urls(a) == IF a.mention THEN OtherPr ELSE NoUrl
           Marks(a) == a.marks
<1>a. /\ box \in BoxType /\ exitCode \in CodeType
      /\ repo \in RepoType /\ out \in OutType
      /\ prs \subseteq Runs /\ started \subseteq Runs
  BY DEF ScriptTypeOK, BoxType, CodeType, RepoType, OutType
<1>b. ASSUME box' \in BoxType /\ exitCode' \in CodeType, repo' \in RepoType,
             out' \in OutType, prs' \subseteq Runs, started' \subseteq Runs
      PROVE  ScriptTypeOK'
  BY <1>b DEF ScriptTypeOK, BoxType, CodeType, RepoType, OutType
<1>c. /\ {"checkout", "start", "patch", "commands", "guards", "publish",
          "landed", "comment", "post"} \subseteq Boxes
      /\ {0, 1, 2, 4} \subseteq Codes
  BY DEF Boxes, Codes
<1>d. ASSUME NEW a \in Agents
      PROVE  /\ a \in AgentRecord
             /\ Urls(a) \in PrUrls /\ Marks(a) \in SUBSET Markers
             /\ a.verbose \in BOOLEAN
  BY AgentsAssumption DEF AgentRecord, PrUrls, Markers
<1>1. CASE Checkout(r)
  <2>1. FirstStep \in Boxes
    BY DEF FirstStep, Boxes
  <2>2. box' \in BoxType /\ exitCode' \in CodeType
    BY <1>1, <1>a, <1>c, <2>1, GotoTypes, ExitTypes DEF Checkout, ToolsFail
  <2>3. QED
    BY <1>1, <1>a, <1>b, <2>2 DEF Checkout
<1>2. CASE RunCommands(r)
  <2>1. PICK a \in Agents :
          /\ repo' = [repo EXCEPT ![r].leak = a.leak, ![r].log = a.marks]
          /\ Say(r, Urls(a), Marks(a), a.verbose)
          /\ IF a.ok THEN Goto(r, "post") ELSE Exit(r, 1)
    BY <1>2 DEF RunCommands
  <2>2. repo' \in RepoType
    BY <1>a, <1>d, <2>1 DEF RepoType, AgentRecord
  <2>3. out' \in OutType
    BY <1>a, <1>d, <2>1, SayTypes
  <2>4. box' \in BoxType /\ exitCode' \in CodeType
    BY <1>a, <1>c, <2>1, GotoTypes, ExitTypes
  <2>5. QED
    BY <1>2, <1>a, <1>b, <2>2, <2>3, <2>4 DEF RunCommands
<1>3. CASE StartComment(r)
  <2>1. box' \in BoxType /\ exitCode' \in CodeType
    BY <1>3, <1>a, <1>c, GotoTypes, ExitTypes DEF StartComment
  <2>2. QED
    BY <1>3, <1>a, <1>b, <2>1 DEF StartComment
<1>4. CASE PatchCommand(r)
  <2>1. CASE ~task.patch
    <3>1. SayMark(r, "no_patch_command") /\ Exit(r, 2) /\ repo' = repo
      BY <1>4, <2>1 DEF PatchCommand
    <3>2. out' \in OutType
      BY <1>a, <3>1, SayMarkTypes DEF Markers
    <3>3. box' \in BoxType /\ exitCode' \in CodeType
      BY <1>a, <1>c, <3>1, ExitTypes
    <3>4. QED
      BY <1>4, <1>a, <1>b, <3>1, <3>2, <3>3 DEF PatchCommand
  <2>2. CASE task.patch
    <3>1. PICK a \in Agents :
            /\ repo' = [repo EXCEPT ![r] = [changed |-> a.changed,
                                            leak    |-> a.leak,
                                            stray   |-> a.stray \/ a.mention,
                                            log     |-> a.marks]]
            /\ Say(r, Urls(a), Marks(a), a.verbose)
            /\ IF a.ok THEN Goto(r, "guards") ELSE Exit(r, 1)
      BY <1>4, <2>2 DEF PatchCommand
    <3>2. repo' \in RepoType
      BY <1>a, <1>d, <3>1 DEF RepoType, AgentRecord
    <3>3. out' \in OutType
      BY <1>a, <1>d, <3>1, SayTypes
    <3>4. box' \in BoxType /\ exitCode' \in CodeType
      BY <1>a, <1>c, <3>1, GotoTypes, ExitTypes
    <3>5. QED
      BY <1>4, <1>a, <1>b, <3>2, <3>3, <3>4 DEF PatchCommand
  <2>3. QED
    BY <2>1, <2>2
<1>5. CASE PatchGuards(r)
  <2>1. box' \in BoxType /\ exitCode' \in CodeType
    BY <1>5, <1>a, <1>c, GotoTypes, ExitTypes DEF PatchGuards
  <2>2. QED
    BY <1>5, <1>a, <1>b, <2>1 DEF PatchGuards
<1>6. CASE NothingToPublish(r)
  <2>1. box' \in BoxType /\ exitCode' \in CodeType
    BY <1>6, <1>a, <1>c, GotoTypes, ExitTypes DEF NothingToPublish
  <2>2. out' \in OutType
    BY <1>6, <1>a, SayMarkTypes DEF NothingToPublish, Markers
  <2>3. QED
    BY <1>6, <1>a, <1>b, <2>1, <2>2 DEF NothingToPublish
<1>7. CASE RefuseNewPr(r)
  <2>1. box' \in BoxType /\ exitCode' \in CodeType
    BY <1>7, <1>a, <1>c, ExitTypes DEF RefuseNewPr
  <2>2. QED
    BY <1>7, <1>a, <1>b, <2>1 DEF RefuseNewPr
<1>8. CASE OpenPr(r)
  <2>1. box' \in BoxType /\ exitCode' \in CodeType
    BY <1>8, <1>a, <1>c, GotoTypes, ExitTypes DEF OpenPr
  <2>2. r \in PrUrls /\ {} \in SUBSET Markers /\ FALSE \in BOOLEAN
    BY DEF PrUrls
  <2>3. out' \in OutType
    BY <1>8, <1>a, <2>2, SayTypes DEF OpenPr
  <2>4. QED
    BY <1>8, <1>a, <1>b, <2>1, <2>3 DEF OpenPr
<1>9. CASE UpdateBranch(r)
  <2>1. box' \in BoxType /\ exitCode' \in CodeType
    BY <1>9, <1>a, <1>c, GotoTypes DEF UpdateBranch
  <2>2. repo' \in RepoType
    BY <1>9, <1>a DEF UpdateBranch, RepoType
  <2>3. QED
    BY <1>9, <1>a, <1>b, <2>1, <2>2 DEF UpdateBranch
<1>10. CASE PostGuard(r)
  <2>1. box' \in BoxType /\ exitCode' \in CodeType
    BY <1>10, <1>a, <1>c, ExitTypes DEF PostGuard
  <2>2. QED
    BY <1>10, <1>a, <1>b, <2>1 DEF PostGuard
<1>11. CASE Killed(r)
  <2>1. box' \in BoxType /\ exitCode' \in CodeType
    BY <1>11, <1>a, <1>c, ExitTypes DEF Killed
  <2>2. QED
    BY <1>11, <1>a, <1>b, <2>1 DEF Killed
<1>12. CASE CommentOnly(r)
  <2>1. box' \in BoxType /\ exitCode' \in CodeType
    BY <1>12, <1>a, <1>c, GotoTypes DEF CommentOnly
  <2>2. /\ (IF task.existing THEN OtherPr ELSE NoUrl) \in PrUrls
        /\ {} \in SUBSET Markers /\ FALSE \in BOOLEAN
    BY DEF PrUrls
  <2>3. out' \in OutType
    BY <1>12, <1>a, <2>2, SayTypes DEF CommentOnly
  <2>4. QED
    BY <1>12, <1>a, <1>b, <2>1, <2>3 DEF CommentOnly
<1>13. QED
  BY <1>1, <1>2, <1>3, <1>4, <1>5, <1>6, <1>7, <1>8, <1>9, <1>10, <1>11, <1>12
  DEF Script

(***************************************************************************)
(* A step of the host, of the engine or of the timer.                      *)
(***************************************************************************)
LEMMA ManifestStatusType ==
  ASSUME NEW r PROVE ManifestStatus(r) \in Manifests
BY DEF ManifestStatus, Manifests

LEMMA OutcomeType ==
  ASSUME TypeOK, NEW r \in Runs PROVE Outcome(r) \in Outcomes
BY DEF TypeOK, Result, Outcome, RawOutcome, NoChangeOutcome, Outcomes

LEMMA ProjectionType ==
  ASSUME NEW outcome, NEW kind
  PROVE  Projection(outcome, kind) \in {"none", "pr", "done", "block"}
BY DEF Projection

LEMMA OwedCommentType ==
  ASSUME NEW r PROVE OwedComment(r) \in {"none", "block", "done"}
BY DEF OwedComment

LEMMA UpdatedResult ==
  ASSUME res \in [Runs -> Result], NEW r \in Runs, NEW new \in Result,
         res' = [res EXCEPT ![r] = new]
  PROVE  res' \in [Runs -> Result]
OBVIOUS

(***************************************************************************)
(* A run about to post owes a comment: the type of posts rests on it.      *)
(***************************************************************************)
PostingOwes == \A r \in Runs : host[r] = "posting" => CanComment(r)

LEMMA PostingOwesStep ==
  ASSUME TypeOK, PostingOwes, NEW r \in Runs, Step(r)
  PROVE  PostingOwes'
<1> SUFFICES ASSUME NEW q \in Runs, host'[q] = "posting" PROVE CanComment(q)'
  BY DEF PostingOwes
<1>a. host \in [Runs -> Hosts] /\ res \in [Runs -> Result]
  BY DEF TypeOK
<1>1. /\ UNCHANGED task /\ res'[q] = res[q]
      /\ host[q] = "posting" \/ CanComment(q)
  <2>1. CASE FindComment(r)
    BY <2>1, <1>a DEF FindComment, Bind
  <2>2. CASE Launch(r) \/ StartContainer(r) \/ EngineFails(r) \/ ScriptStep(r)
             \/ CliExits(r) \/ TimerFires(r) \/ CliKilled(r) \/ Crash(r)
    BY <2>2, <1>a DEF Launch, StartContainer, EngineFails, ScriptStep, CliExits,
                      TimerFires, CliKilled, Crash, hostVars
  <2>3. CASE Close(r) \/ WriteManifest(r) \/ Settle(r) \/ SkipComment(r)
    BY <2>3, <1>a DEF Close, WriteManifest, Settle, SkipComment
  <2>4. CASE PostComment(r) \/ Classify(r) \/ Prove(r)
    BY <2>4, <1>a DEF PostComment, Classify, Prove, Bind
  <2>5. QED
    BY <2>1, <2>2, <2>3, <2>4 DEF Step, Engine, HostStep
<1>2. QED
  BY <1>1 DEF PostingOwes, CanComment, OwedComment, Lane

LEMMA StepTypes ==
  ASSUME TypeOK, PostingOwes, NEW r \in Runs, Step(r)
  PROVE  TypeOK'
<1>a. /\ host \in [Runs -> Hosts] /\ timedOut \in [Runs -> BOOLEAN]
      /\ code \in [Runs -> Codes \cup {NoCode}] /\ res \in [Runs -> Result]
      /\ disk \in [Runs -> Manifest]
      /\ posts \subseteq ({"done", "block"} \X Runs)
  BY DEF TypeOK
<1>b. ASSUME UNCHANGED <<task, cli, scriptVars>> PROVE ScriptTypeOK'
  BY <1>b DEF TypeOK, ScriptTypeOK, scriptVars
<1>1. CASE Launch(r)
  <2>1. cli' \in [Runs -> {"none", "running", "exited"}]
    BY <1>1 DEF Launch, TypeOK, ScriptTypeOK
  <2>2. ScriptTypeOK'
    BY <1>1, <2>1 DEF Launch, TypeOK, ScriptTypeOK, scriptVars
  <2>3. QED
    BY <1>1, <1>a, <2>2 DEF Launch, TypeOK, Hosts
<1>2. CASE StartContainer(r)
  <2>1. ScriptTypeOK'
    BY <1>2 DEF StartContainer, TypeOK, ScriptTypeOK, Boxes
  <2>2. QED
    BY <1>2, <1>a, <2>1 DEF StartContainer, TypeOK, hostVars
<1>3. CASE EngineFails(r)
  <2>1. ScriptTypeOK'
    BY <1>3 DEF EngineFails, TypeOK, ScriptTypeOK, scriptVars
  <2>2. QED
    BY <1>3, <1>a, <2>1 DEF EngineFails, TypeOK, Codes
<1>4. CASE ScriptStep(r)
  <2>1. ScriptTypeOK'
    BY <1>4, ScriptTypes DEF ScriptStep, TypeOK
  <2>2. QED
    BY <1>4, <1>a, <2>1 DEF ScriptStep, TypeOK, hostVars
<1>5. CASE CliExits(r)
  <2>1. ScriptTypeOK'
    BY <1>5 DEF CliExits, TypeOK, ScriptTypeOK, scriptVars
  <2>2. exitCode[r] \in Codes \cup {NoCode}
    BY DEF TypeOK, ScriptTypeOK
  <2>3. QED
    BY <1>5, <1>a, <2>1, <2>2 DEF CliExits, TypeOK
<1>6. CASE TimerFires(r)
  BY <1>6, <1>a, <1>b DEF TimerFires, TypeOK
<1>7. CASE CliKilled(r)
  <2>1. ScriptTypeOK'
    BY <1>7 DEF CliKilled, TypeOK, ScriptTypeOK, scriptVars
  <2>2. QED
    BY <1>7, <1>a, <2>1 DEF CliKilled, TypeOK
<1>8. CASE Close(r)
  <2>1. out[r].pr \in PrUrls /\ out[r].marks \in SUBSET Markers
    BY DEF TypeOK, ScriptTypeOK
  <2> DEFINE new == [res[r] EXCEPT !.pr = out[r].pr, !.marks = out[r].marks]
  <2>2. res' \in [Runs -> Result]
    <3>1. new \in Result
      BY <1>a, <2>1 DEF Result
    <3>2. res' = [res EXCEPT ![r] = new]
      BY <1>8, <1>a DEF Close
    <3> HIDE DEF new
    <3>3. QED
      BY <1>a, <3>1, <3>2, UpdatedResult
  <2>3. QED
    BY <1>8, <1>a, <1>b, <2>2 DEF Close, TypeOK, Hosts
<1>9. CASE WriteManifest(r)
  <2>1. res' \in [Runs -> Result]
    <3> DEFINE new == [res[r] EXCEPT !.manifest = ManifestStatus(r)]
    <3>1. new \in Result
      BY <1>a, ManifestStatusType DEF Result
    <3>2. UNCHANGED res \/ res' = [res EXCEPT ![r] = new]
      BY <1>9 DEF WriteManifest
    <3> HIDE DEF new
    <3>3. QED
      BY <1>a, <3>1, <3>2, UpdatedResult
  <2>2. disk' \in [Runs -> Manifest]
    BY <1>9, <1>a, ManifestStatusType DEF WriteManifest, Manifest
  <2>3. QED
    BY <1>9, <1>a, <1>b, <2>1, <2>2 DEF WriteManifest, TypeOK, Hosts
<1>10. CASE Settle(r)
  <2>1. PICK ok \in BOOLEAN, status \in Statuses, manifest \in Manifests :
          /\ res' = [res EXCEPT ![r].ok = ok, ![r].status = status,
                                ![r].manifest = manifest]
          /\ disk' = [disk EXCEPT ![r].status = manifest]
    <3>1. res[r].manifest \in Manifests
      BY <1>a DEF Result
    <3>2. ((ExitedOk(r) \/ Recovered(r)) /\ ~MissingPatchCommand(r)) \in BOOLEAN
      OBVIOUS
    <3>3. QED
      BY <1>10, <3>1, <3>2 DEF Settle, Statuses, Manifests
  <2> DEFINE new == [res[r] EXCEPT !.ok = ok, !.status = status,
                                    !.manifest = manifest]
  <2>2. res' \in [Runs -> Result]
    <3>1. new \in Result
      BY <1>a DEF Result
    <3>2. res' = [res EXCEPT ![r] = new]
      BY <1>a, <2>1
    <3> HIDE DEF new
    <3>3. QED
      BY <1>a, <3>1, <3>2, UpdatedResult
  <2>3. disk' \in [Runs -> Manifest]
    BY <1>a, <2>1 DEF Manifest
  <2>4. QED
    BY <1>10, <1>a, <1>b, <2>2, <2>3 DEF Settle, TypeOK, Hosts
<1>11. CASE SkipComment(r)
  BY <1>11, <1>a, <1>b DEF SkipComment, TypeOK, Hosts
<1>12. CASE FindComment(r)
  <2> DEFINE new(kind, q) == [res[r] EXCEPT !.kind = kind, !.comment = q]
  <2>1. res' \in [Runs -> Result]
    <3>1. \A kind \in {"done", "block"}, q \in Runs : new(kind, q) \in Result
      BY <1>a DEF Result, CommentUrls
    <3>2. \/ UNCHANGED res
          \/ \E p \in posts : res' = [res EXCEPT ![r] = new(p[1], p[2])]
      BY <1>12, <1>a DEF FindComment, SameMarker, Bind
    <3> HIDE DEF new
    <3>3. QED
      BY <1>a, <3>1, <3>2, UpdatedResult
  <2>2. QED
    BY <1>12, <1>a, <1>b, <2>1 DEF FindComment, TypeOK, Hosts
<1>13. CASE PostComment(r)
  <2> DEFINE new == [res[r] EXCEPT !.kind = OwedComment(r), !.comment = r]
  <2>1. res' \in [Runs -> Result]
    <3>1. new \in Result
      BY <1>a, OwedCommentType DEF Result, CommentUrls
    <3>2. UNCHANGED res \/ res' = [res EXCEPT ![r] = new]
      BY <1>13, <1>a DEF PostComment, Bind
    <3> HIDE DEF new
    <3>3. QED
      BY <1>a, <3>1, <3>2, UpdatedResult
  <2>2. posts' \subseteq ({"done", "block"} \X Runs)
    <3>1. OwedComment(r) \in {"done", "block"}
      BY <1>13, OwedCommentType DEF PostComment, PostingOwes, CanComment
    <3>2. QED
      BY <1>13, <1>a, <3>1 DEF PostComment
  <2>3. QED
    BY <1>13, <1>a, <1>b, <2>1, <2>2 DEF PostComment, TypeOK, Hosts
<1>14. CASE Classify(r)
  <2>1. Outcome(r) \in Outcomes
    BY OutcomeType
  <2> DEFINE new == [res[r] EXCEPT
                       !.outcome = Outcome(r),
                       !.ok = @ /\ ~FailsClosed(r),
                       !.status = IF FailsClosed(r) THEN "failed" ELSE @]
  <2>2. res' \in [Runs -> Result]
    <3>1. new \in Result
      BY <1>a, <2>1 DEF Result, Statuses
    <3>2. res' = [res EXCEPT ![r] = new]
      BY <1>14, <1>a DEF Classify
    <3> HIDE DEF new
    <3>3. QED
      BY <1>a, <3>1, <3>2, UpdatedResult
  <2>3. disk' \in [Runs -> Manifest]
    BY <1>14, <1>a, ProjectionType DEF Classify, Manifest
  <2>4. QED
    BY <1>14, <1>a, <1>b, <2>2, <2>3 DEF Classify, TypeOK, Hosts
<1>15. CASE Prove(r)
  <2>1. disk' \in [Runs -> Manifest]
    BY <1>15, <1>a DEF Prove, Manifest
  <2>2. QED
    BY <1>15, <1>a, <1>b, <2>1 DEF Prove, TypeOK, Hosts
<1>16. CASE Crash(r)
  BY <1>16, <1>a, <1>b DEF Crash, TypeOK, Hosts
<1>17. QED
  BY <1>1, <1>2, <1>3, <1>4, <1>5, <1>6, <1>7, <1>8, <1>9, <1>10, <1>11,
     <1>12, <1>13, <1>14, <1>15, <1>16
  DEF Step, Engine, HostStep

LEMMA TypeInit ==
  ASSUME Init PROVE TypeOK /\ PostingOwes
<1>1. ScriptTypeOK
  BY DEF Init, ScriptInit, ScriptTypeOK, Boxes, PrUrls, Markers
<1>2. NoResult \in Result
  BY DEF NoResult, Result, Statuses, PrUrls, Manifests, CommentUrls, Outcomes
<1>3. QED
  BY <1>1, <1>2 DEF Init, TypeOK, PostingOwes, Hosts, Manifest, Manifests

LEMMA TypeStutter ==
  ASSUME TypeOK, PostingOwes, UNCHANGED vars PROVE TypeOK' /\ PostingOwes'
BY DEF TypeOK, ScriptTypeOK, PostingOwes, CanComment, OwedComment, Lane,
       vars, scriptVars, hostVars

(***************************************************************************)
(* In every reachable state every variable has its type: results and       *)
(* manifests are the records the readers of runTask's output expect.       *)
(***************************************************************************)
THEOREM TypeCorrect == Spec => []TypeOK
<1>1. Init => TypeOK /\ PostingOwes
  BY TypeInit
<1>2. TypeOK /\ PostingOwes /\ [Next]_vars => TypeOK' /\ PostingOwes'
  BY TypeStutter, StepTypes, PostingOwesStep DEF Next
<1>3. QED
  BY <1>1, <1>2, PTL DEF Spec

(***************************************************************************)
(* The inductive invariant.                                                *)
(***************************************************************************)
Closed     == {"closed", "settle", "lookup", "posting", "classify", "prove",
               "returned", "rejected"}
Unsettled  == {"idle", "waiting", "closed", "settle"}
Commenting == {"lookup", "posting", "classify"}

(***************************************************************************)
(* The CLI: it is gone once its close event was handled, and only then is  *)
(* its exit code known, which is the container's.                          *)
(***************************************************************************)
CliInv(r) ==
  /\ host[r] = "idle" => cli[r] = "none"
  /\ host[r] \in Closed => cli[r] = "exited"
  /\ code[r] # NoCode => cli[r] = "exited"
  /\ code[r] = 0 => box[r] = "exited" /\ exitCode[r] = 0

(***************************************************************************)
(* The guards of the script: what holds behind each of them.               *)
(***************************************************************************)
GuardInv(r) ==
  /\ exitCode[r] = 0 => box[r] = "exited" /\ ~repo[r].leak
  /\ box[r] \in {"patch", "guards", "publish"} /\ task.issue => r \in started
  /\ box[r] = "publish" => ~LeakBlocks(r) /\ ~ReadOnlyBlocks(r)
  /\ Lane = "none" => /\ box[r] \in {"none", "checkout", "post", "exited"}
                      /\ out[r].pr = NoUrl /\ out[r].marks = {}

(***************************************************************************)
(* The output: a run's URL on it is a pull request that exists, and after  *)
(* the close event the result holds what was printed.                      *)
(***************************************************************************)
OutInv(r) ==
  /\ out[r].pr \in Runs => out[r].pr \in prs
  /\ res[r].pr \in Runs => res[r].pr \in prs
  /\ host[r] \in Closed => res[r].pr = out[r].pr /\ res[r].marks = out[r].marks

(***************************************************************************)
(* The result: nothing is decided before the run settles, and what is      *)
(* decided then is final but for the gate that fails closed.               *)
(***************************************************************************)
Success(r) == (code[r] = 0 /\ ~timedOut[r]) \/ res[r].pr # NoUrl

ResultInv(r) ==
  /\ host[r] \in Unsettled => ~res[r].ok
  /\ host[r] \in Unsettled \cup {"lookup", "posting"}
       => res[r].comment = NoUrl /\ res[r].kind = "none"
  /\ host[r] \in {"idle", "waiting", "closed"}
       => res[r].manifest = "none" /\ disk[r].status = "none"
  /\ host[r] = "settle" => res[r].manifest = ManifestStatus(r)
  /\ host[r] \in Commenting => task.mode
  /\ host[r] = "returned" => disk[r].proof
  /\ res[r].ok => /\ cli[r] = "exited" /\ ~timedOut[r] /\ Success(r)
                  /\ disk[r].status \in {"done", "budget_limited"}
  /\ host[r] \in {"prove", "returned"} /\ Lane = "none" /\ task.mode => ~res[r].ok

(***************************************************************************)
(* The manifest, in the result and on disk.                                *)
(***************************************************************************)
ManifestInv(r) ==
  /\ "done" \in {res[r].manifest, disk[r].status} =>
       cli[r] = "exited" /\ ~timedOut[r] /\ Success(r)
  /\ res[r].manifest = "budget_limited" => "budget_limited" \in res[r].marks

(***************************************************************************)
(* The comments on the issue.                                              *)
(***************************************************************************)
PostInv(r) ==
  /\ \A kind \in {"done", "block"} : <<kind, r>> \in posts =>
       /\ host[r] \in {"classify", "prove", "returned", "crashed"}
       /\ cli[r] = "exited" /\ task.mode
  /\ <<"done", r>> \in posts =>
       code[r] = 0 /\ ~timedOut[r] /\ out[r].pr = NoUrl
  /\ <<"block", r>> \in posts => ~res[r].ok \/ Lane = "none"
  /\ res[r].comment # NoUrl => <<res[r].kind, res[r].comment>> \in posts

RunInv(r) ==
  /\ CliInv(r) /\ GuardInv(r) /\ OutInv(r)
  /\ ResultInv(r) /\ ManifestInv(r) /\ PostInv(r)

IInv == TypeOK /\ PostingOwes /\ \A r \in Runs : RunInv(r)

(***************************************************************************)
(* A step of one run leaves every other run as it is; on GitHub it may     *)
(* only add to what is there, and nothing in another run's name.           *)
(***************************************************************************)
OwnComments(q) == {kind \in {"done", "block"} : <<kind, q>> \in posts}

SameRun(q) ==
  /\ task' = task /\ cli'[q] = cli[q] /\ box'[q] = box[q]
  /\ exitCode'[q] = exitCode[q] /\ repo'[q] = repo[q] /\ out'[q] = out[q]
  /\ host'[q] = host[q] /\ timedOut'[q] = timedOut[q] /\ code'[q] = code[q]
  /\ res'[q] = res[q] /\ disk'[q] = disk[q]
  /\ prs \subseteq prs' /\ started \subseteq started' /\ posts \subseteq posts'
  /\ OwnComments(q)' = OwnComments(q)

LEMMA FramedRun ==
  ASSUME NEW q \in Runs, SameRun(q), RunInv(q)
  PROVE  RunInv(q)'
<1>1. CliInv(q)' /\ GuardInv(q)' /\ OutInv(q)'
  BY DEF SameRun, RunInv, CliInv, GuardInv, OutInv, LeakBlocks, ReadOnlyBlocks,
         Lane
<1>2. ResultInv(q)' /\ ManifestInv(q)'
  BY DEF SameRun, RunInv, ResultInv, ManifestInv, Success, ManifestStatus,
         ExitedOk, Lane
<1>3. PostInv(q)'
  BY DEF SameRun, RunInv, PostInv, OwnComments, Lane
<1>4. QED
  BY <1>1, <1>2, <1>3 DEF RunInv

LEMMA OtherRuns ==
  ASSUME TypeOK, NEW r \in Runs, Step(r), NEW q \in Runs, q # r
  PROVE  SameRun(q)
<1>a. /\ cli \in [Runs -> {"none", "running", "exited"}]
      /\ box \in [Runs -> Boxes] /\ exitCode \in [Runs -> Codes \cup {NoCode}]
      /\ repo \in RepoType /\ out \in OutType
      /\ host \in [Runs -> Hosts] /\ timedOut \in [Runs -> BOOLEAN]
      /\ code \in [Runs -> Codes \cup {NoCode}] /\ res \in [Runs -> Result]
      /\ disk \in [Runs -> Manifest]
  BY DEF TypeOK, ScriptTypeOK, RepoType, OutType
<1>1. CASE ScriptStep(r)
  <2>1. ASSUME NEW url, NEW marks, NEW flood, Say(r, url, marks, flood)
        PROVE  out'[q] = out[q]
    BY <1>a, <2>1 DEF Say, OutType
  <2>2. ASSUME NEW b, Goto(r, b)
        PROVE  box'[q] = box[q] /\ exitCode'[q] = exitCode[q]
    BY <1>a, <2>2 DEF Goto
  <2>3. ASSUME NEW c, Exit(r, c)
        PROVE  box'[q] = box[q] /\ exitCode'[q] = exitCode[q]
    BY <1>a, <2>3 DEF Exit
  <2> DEFINE Framed == /\ box'[q] = box[q] /\ exitCode'[q] = exitCode[q]
                       /\ repo'[q] = repo[q] /\ out'[q] = out[q]
                       /\ prs \subseteq prs' /\ started \subseteq started'
  <2>4. ASSUME Checkout(r) \/ PatchGuards(r) \/ RefuseNewPr(r) \/ PostGuard(r)
               \/ Killed(r)
        PROVE  Framed
    BY <2>2, <2>3, <2>4 DEF Checkout, ToolsFail, PatchGuards, RefuseNewPr,
                            PostGuard, Killed
  <2>5. ASSUME RunCommands(r) PROVE Framed
    BY <1>a, <2>1, <2>2, <2>3, <2>5 DEF RunCommands, RepoType
  <2>6. ASSUME StartComment(r) PROVE Framed
    BY <2>2, <2>3, <2>6 DEF StartComment
  <2>7. ASSUME PatchCommand(r) PROVE Framed
    BY <1>a, <2>1, <2>2, <2>3, <2>7 DEF PatchCommand, SayMark, RepoType
  <2>8. ASSUME NothingToPublish(r) PROVE Framed
    BY <2>1, <2>2, <2>3, <2>8 DEF NothingToPublish, SayMark
  <2>9. ASSUME OpenPr(r) PROVE Framed
    BY <2>1, <2>2, <2>3, <2>9 DEF OpenPr
  <2>10. ASSUME UpdateBranch(r) PROVE Framed
    BY <1>a, <2>2, <2>10 DEF UpdateBranch, RepoType
  <2>11. ASSUME CommentOnly(r) PROVE Framed
    BY <2>1, <2>2, <2>11 DEF CommentOnly
  <2>12. Framed
    BY <1>1, <2>4, <2>5, <2>6, <2>7, <2>8, <2>9, <2>10, <2>11
    DEF ScriptStep, Script
  <2>13. QED
    BY <1>1, <2>12 DEF ScriptStep, SameRun, OwnComments, hostVars
<1>2. CASE Launch(r) \/ StartContainer(r) \/ EngineFails(r) \/ CliExits(r)
           \/ TimerFires(r) \/ CliKilled(r) \/ Crash(r)
  BY <1>2, <1>a DEF Launch, StartContainer, EngineFails, CliExits, TimerFires,
     CliKilled, Crash, SameRun, OwnComments, hostVars, scriptVars
<1>3. CASE Close(r) \/ WriteManifest(r) \/ Settle(r) \/ SkipComment(r)
  BY <1>3, <1>a DEF Close, WriteManifest, Settle, SkipComment,
     SameRun, OwnComments, scriptVars
<1>4. CASE FindComment(r) \/ Classify(r) \/ Prove(r)
  BY <1>4, <1>a DEF FindComment, Bind, Classify, Prove,
     SameRun, OwnComments, scriptVars
<1>5. CASE PostComment(r)
  <2>1. posts' \subseteq posts \cup {<<OwedComment(r), r>>} /\ posts \subseteq posts'
    BY <1>5 DEF PostComment
  <2>2. OwnComments(q)' = OwnComments(q)
    BY <2>1 DEF OwnComments
  <2>3. QED
    BY <1>5, <1>a, <2>1, <2>2 DEF PostComment, Bind, SameRun, scriptVars
<1>6. QED
  BY <1>1, <1>2, <1>3, <1>4, <1>5 DEF Step, Engine, HostStep

(***************************************************************************)
(* What the helpers of the script do to the run that calls them.           *)
(***************************************************************************)
LEMMA SayFacts ==
  ASSUME out \in OutType, NEW r \in Runs, NEW url, NEW marks, NEW flood,
         Say(r, url, marks, flood)
  PROVE  /\ cli[r] # "running" => out'[r] = out[r]
         /\ out'[r].pr \in {out[r].pr, url}
BY DEF Say, OutType

LEMMA MoveFacts ==
  ASSUME box \in BoxType, exitCode \in CodeType, NEW r \in Runs
  PROVE  /\ \A b : Goto(r, b) => box'[r] = b /\ exitCode'[r] = exitCode[r]
         /\ \A c : Exit(r, c) => box'[r] = "exited" /\ exitCode'[r] = c
BY DEF Goto, Exit, BoxType, CodeType

(***************************************************************************)
(* A step of its own script keeps the invariant of a run.                  *)
(***************************************************************************)
LEMMA ScriptKeepsGuards ==
  ASSUME TypeOK, NEW r \in Runs, RunInv(r), ScriptStep(r)
  PROVE  /\ GuardInv(r)' /\ box[r] # "exited"
         /\ cli[r] # "running" => out'[r] = out[r]
         /\ out'[r].pr \in Runs => out'[r].pr \in prs'
         /\ prs \subseteq prs'
<1> DEFINE Kept == /\ GuardInv(r)' /\ box[r] # "exited"
                   /\ cli[r] # "running" => out'[r] = out[r]
                   /\ out'[r].pr \in Runs => out'[r].pr \in prs'
                   /\ prs \subseteq prs'
<1> SUFFICES Kept
  OBVIOUS
<1>a. /\ box \in BoxType /\ exitCode \in CodeType /\ repo \in RepoType
      /\ out \in OutType /\ prs \subseteq Runs /\ started \subseteq Runs
  BY DEF TypeOK, ScriptTypeOK, BoxType, CodeType, RepoType, OutType
<1>b. GuardInv(r) /\ (out[r].pr \in Runs => out[r].pr \in prs)
  BY DEF RunInv, OutInv
<1>c. Script(r) /\ UNCHANGED <<task, cli>>
  BY DEF ScriptStep
<1>d. /\ \A b : Goto(r, b) => box'[r] = b /\ exitCode'[r] = exitCode[r]
      /\ \A c : Exit(r, c) => box'[r] = "exited" /\ exitCode'[r] = c
  BY <1>a, MoveFacts
<1>e. NoUrl \notin Runs /\ OtherPr \notin Runs
  BY RunsAssumption
<1>1. CASE Checkout(r)
  BY <1>1, <1>b, <1>c, <1>d
  DEF Checkout, ToolsFail, FirstStep, GuardInv, Lane, LeakBlocks, ReadOnlyBlocks
<1>2. CASE RunCommands(r)
  <2>1. PICK a \in Agents :
          /\ repo' = [repo EXCEPT ![r].leak = a.leak, ![r].log = a.marks]
          /\ Say(r, IF a.mention THEN OtherPr ELSE NoUrl, a.marks, a.verbose)
          /\ IF a.ok THEN Goto(r, "post") ELSE Exit(r, 1)
    BY <1>2 DEF RunCommands
  <2>2. /\ cli[r] # "running" => out'[r] = out[r]
        /\ out'[r].pr \in {out[r].pr, NoUrl, OtherPr}
    BY <1>a, <2>1, SayFacts
  <2>3. Lane # "none"
    BY <1>2, <1>b DEF RunCommands, GuardInv
  <2>4. GuardInv(r)'
    BY <1>2, <1>b, <1>c, <1>d, <2>1, <2>3 DEF RunCommands, GuardInv, Lane
  <2>5. QED
    BY <1>2, <1>b, <1>e, <2>2, <2>4 DEF RunCommands
<1>3. CASE StartComment(r)
  BY <1>3, <1>b, <1>c, <1>d
  DEF StartComment, GuardInv, Lane, LeakBlocks, ReadOnlyBlocks
<1>4. CASE PatchCommand(r)
  <2>1. Lane # "none"
    BY <1>4, <1>b DEF PatchCommand, GuardInv
  <2>2. /\ cli[r] # "running" => out'[r] = out[r]
        /\ out'[r].pr \in {out[r].pr, NoUrl, OtherPr}
    BY <1>4, <1>a, SayFacts DEF PatchCommand, SayMark
  <2>3. \/ box'[r] = "exited" /\ exitCode'[r] \in {1, 2}
        \/ box'[r] = "guards" /\ exitCode'[r] = exitCode[r]
    BY <1>4, <1>d DEF PatchCommand
  <2>4. GuardInv(r)'
    BY <1>4, <1>b, <1>c, <2>1, <2>3 DEF PatchCommand, GuardInv, Lane
  <2>5. QED
    BY <1>4, <1>b, <1>e, <2>2, <2>4 DEF PatchCommand
<1>5. CASE PatchGuards(r)
  BY <1>5, <1>b, <1>c, <1>d
  DEF PatchGuards, GuardInv, Lane, LeakBlocks, ReadOnlyBlocks
<1>6. CASE NothingToPublish(r)
  <2>1. Lane # "none"
    BY <1>6, <1>b DEF NothingToPublish, GuardInv
  <2>2. /\ cli[r] # "running" => out'[r] = out[r]
        /\ out'[r].pr \in {out[r].pr, NoUrl}
    BY <1>6, <1>a, SayFacts DEF NothingToPublish, SayMark
  <2>3. GuardInv(r)'
    BY <1>6, <1>b, <1>c, <1>d, <2>1 DEF NothingToPublish, GuardInv, Lane
  <2>4. QED
    BY <1>6, <1>b, <1>e, <2>2, <2>3 DEF NothingToPublish
<1>7. CASE RefuseNewPr(r)
  BY <1>7, <1>b, <1>c, <1>d
  DEF RefuseNewPr, GuardInv, Lane, LeakBlocks, ReadOnlyBlocks
<1>8. CASE OpenPr(r)
  <2>1. Lane # "none"
    BY <1>8, <1>b DEF OpenPr, GuardInv
  <2>2. \/ out' = out
        \/ /\ cli[r] # "running" => out'[r] = out[r]
           /\ out'[r].pr \in {out[r].pr, r} /\ prs' = prs \cup {r}
    BY <1>8, <1>a, SayFacts DEF OpenPr
  <2>3. /\ \/ box'[r] = "exited" /\ exitCode'[r] \in {1, 2}
           \/ box'[r] = "landed" /\ exitCode'[r] = exitCode[r]
        /\ box[r] = "publish" /\ UNCHANGED <<repo, started>>
    BY <1>8, <1>d DEF OpenPr
  <2>4. GuardInv(r)'
    BY <1>b, <1>c, <2>1, <2>3 DEF GuardInv, Lane
  <2>5. QED
    BY <1>b, <2>2, <2>3, <2>4, <1>8 DEF OpenPr
<1>9. CASE UpdateBranch(r)
  <2>1. Lane # "none"
    BY <1>9, <1>b DEF UpdateBranch, GuardInv
  <2>2. QED
    BY <1>9, <1>b, <1>c, <1>d, <2>1 DEF UpdateBranch, GuardInv, Lane
<1>10. CASE PostGuard(r)
  BY <1>10, <1>b, <1>c, <1>d
  DEF PostGuard, PostGuardBlocks, GuardInv, Lane, LeakBlocks, ReadOnlyBlocks
<1>11. CASE Killed(r)
  BY <1>11, <1>b, <1>c, <1>d
  DEF Killed, Alive, GuardInv, Lane, LeakBlocks, ReadOnlyBlocks
<1>12. CASE CommentOnly(r)
  <2>1. Lane # "none"
    BY <1>12, <1>b DEF CommentOnly, GuardInv
  <2>2. /\ cli[r] # "running" => out'[r] = out[r]
        /\ out'[r].pr \in {out[r].pr, NoUrl, OtherPr}
    BY <1>12, <1>a, SayFacts DEF CommentOnly
  <2>3. GuardInv(r)'
    BY <1>12, <1>b, <1>c, <1>d, <2>1 DEF CommentOnly, GuardInv, Lane
  <2>4. QED
    BY <1>12, <1>b, <1>e, <2>2, <2>3 DEF CommentOnly
<1>13. QED
  BY <1>c, <1>1, <1>2, <1>3, <1>4, <1>5, <1>6, <1>7, <1>8, <1>9, <1>10, <1>11,
     <1>12 DEF Script

LEMMA ScriptKeepsRunInv ==
  ASSUME TypeOK, NEW r \in Runs, RunInv(r), ScriptStep(r)
  PROVE  RunInv(r)'
<1>a. UNCHANGED <<task, cli, host, timedOut, code, res, disk, posts>>
  BY DEF ScriptStep, hostVars
<1>b. /\ GuardInv(r)' /\ box[r] # "exited"
      /\ cli[r] # "running" => out'[r] = out[r]
      /\ out'[r].pr \in Runs => out'[r].pr \in prs'
      /\ prs \subseteq prs'
  BY ScriptKeepsGuards
<1>1. CliInv(r)'
  BY <1>a, <1>b DEF RunInv, CliInv
<1>2. OutInv(r)'
  BY <1>a, <1>b DEF RunInv, CliInv, OutInv
<1>3. ResultInv(r)' /\ ManifestInv(r)'
  BY <1>a DEF RunInv, ResultInv, ManifestInv, Success, ManifestStatus, ExitedOk,
              Lane
<1>4. PostInv(r)'
  BY <1>a, <1>b DEF RunInv, PostInv, Lane
<1>5. QED
  BY <1>b, <1>1, <1>2, <1>3, <1>4 DEF RunInv

(***************************************************************************)
(* A step of the engine, of the timer or a crash.                          *)
(***************************************************************************)
LEMMA EngineKeepsRunInv ==
  ASSUME TypeOK, NEW r \in Runs, RunInv(r),
         \/ Launch(r) \/ StartContainer(r) \/ EngineFails(r) \/ CliExits(r)
         \/ TimerFires(r) \/ CliKilled(r) \/ Crash(r)
  PROVE  RunInv(r)'
<1>a. /\ cli \in [Runs -> {"none", "running", "exited"}]
      /\ box \in [Runs -> Boxes] /\ exitCode \in [Runs -> Codes \cup {NoCode}]
      /\ host \in [Runs -> Hosts] /\ timedOut \in [Runs -> BOOLEAN]
      /\ code \in [Runs -> Codes \cup {NoCode}]
  BY DEF TypeOK, ScriptTypeOK
<1>b. /\ CliInv(r) /\ GuardInv(r) /\ OutInv(r)
      /\ ResultInv(r) /\ ManifestInv(r) /\ PostInv(r)
  BY DEF RunInv
<1>1. CASE Launch(r)
  <2>1. /\ host[r] = "idle" /\ host'[r] = "waiting"
        /\ UNCHANGED <<task, scriptVars, timedOut, code, res, disk, posts>>
        /\ cli[r] # "exited" /\ code[r] = NoCode
    BY <1>1, <1>a, <1>b DEF Launch, CliInv
  <2>2. CliInv(r)' /\ GuardInv(r)' /\ OutInv(r)'
    BY <1>b, <2>1 DEF CliInv, GuardInv, OutInv, LeakBlocks, ReadOnlyBlocks, Lane,
                      scriptVars, NoCode, Closed
  <2>3. ResultInv(r)'
    BY <1>b, <2>1 DEF ResultInv, Unsettled, Commenting
  <2>4. ManifestInv(r)' /\ PostInv(r)'
    BY <1>b, <2>1 DEF ManifestInv, PostInv, Success, scriptVars, Lane
  <2>5. QED
    BY <2>2, <2>3, <2>4 DEF RunInv
<1>2. CASE StartContainer(r)
  <2>1. /\ box[r] = "none" /\ box'[r] = "checkout"
        /\ UNCHANGED <<task, cli, exitCode, repo, out, prs, started, hostVars>>
    BY <1>2, <1>a DEF StartContainer
  <2>2. CliInv(r)' /\ GuardInv(r)' /\ OutInv(r)'
    BY <1>b, <2>1 DEF CliInv, GuardInv, OutInv, LeakBlocks, ReadOnlyBlocks, Lane,
                      hostVars
  <2>3. ResultInv(r)' /\ ManifestInv(r)' /\ PostInv(r)'
    BY <1>b, <2>1 DEF ResultInv, ManifestInv, PostInv, Success, ManifestStatus,
                      ExitedOk, Lane, hostVars
  <2>4. QED
    BY <2>2, <2>3 DEF RunInv
<1>3. CASE EngineFails(r) \/ CliExits(r) \/ CliKilled(r)
  <2>1. /\ cli[r] = "running" /\ cli'[r] = "exited"
        /\ UNCHANGED <<task, scriptVars, host, timedOut, res, disk, posts>>
    BY <1>3, <1>a DEF EngineFails, CliExits, CliKilled
  <2>2. /\ host[r] \in {"waiting", "crashed"}
        /\ code'[r] = 0 => box[r] = "exited" /\ exitCode[r] = 0
    BY <1>3, <1>a, <1>b, <2>1 DEF EngineFails, CliExits, CliKilled, CliInv,
                                  Hosts, Closed
  <2>3. CliInv(r)' /\ GuardInv(r)' /\ OutInv(r)'
    BY <1>b, <2>1, <2>2 DEF CliInv, GuardInv, OutInv, LeakBlocks, ReadOnlyBlocks,
                            Lane, scriptVars, Closed
  <2>4. ResultInv(r)'
    BY <1>b, <2>1, <2>2 DEF ResultInv, Unsettled, Commenting
  <2>5. ManifestInv(r)' /\ PostInv(r)'
    BY <1>b, <2>1, <2>2 DEF ManifestInv, ResultInv, PostInv, Success, scriptVars,
                            Lane
  <2>6. QED
    BY <2>3, <2>4, <2>5 DEF RunInv
<1>4. CASE TimerFires(r)
  <2>1. /\ host[r] = "waiting"
        /\ UNCHANGED <<task, cli, scriptVars, host, code, res, disk, posts>>
    BY <1>4 DEF TimerFires
  <2>2. CliInv(r)' /\ GuardInv(r)' /\ OutInv(r)'
    BY <1>b, <2>1 DEF CliInv, GuardInv, OutInv, LeakBlocks, ReadOnlyBlocks, Lane,
                      scriptVars
  <2>3. ResultInv(r)'
    BY <1>b, <2>1 DEF ResultInv, Unsettled, Commenting
  <2>4. ManifestInv(r)' /\ PostInv(r)'
    BY <1>b, <2>1 DEF ManifestInv, ResultInv, PostInv, Success, scriptVars, Lane
  <2>5. QED
    BY <2>2, <2>3, <2>4 DEF RunInv
<1>5. CASE Crash(r)
  <2>1. /\ host[r] \notin {"idle", "returned", "rejected", "crashed"}
        /\ host'[r] = "crashed"
        /\ UNCHANGED <<task, cli, scriptVars, timedOut, code, res, disk, posts>>
    BY <1>5, <1>a DEF Crash, Over
  <2>2. CliInv(r)' /\ GuardInv(r)' /\ OutInv(r)'
    BY <1>b, <2>1 DEF CliInv, GuardInv, OutInv, LeakBlocks, ReadOnlyBlocks, Lane,
                      scriptVars, Closed
  <2>3. ResultInv(r)'
    BY <1>b, <2>1 DEF ResultInv, Unsettled, Commenting, Success
  <2>4. ManifestInv(r)' /\ PostInv(r)'
    BY <1>b, <2>1 DEF ManifestInv, PostInv, Success, scriptVars, Lane
  <2>5. QED
    BY <2>2, <2>3, <2>4 DEF RunInv
<1>6. QED
  BY <1>1, <1>2, <1>3, <1>4, <1>5

(***************************************************************************)
(* A step of the host.  None of them touches the container, so only the    *)
(* result, the manifest and the comments are in question.                  *)
(***************************************************************************)
LEMMA HostKeepsRunInv ==
  ASSUME TypeOK, PostingOwes, NEW r \in Runs, RunInv(r), HostStep(r)
  PROVE  RunInv(r)'
<1>a. /\ host \in [Runs -> Hosts] /\ res \in [Runs -> Result]
      /\ disk \in [Runs -> Manifest]
  BY DEF TypeOK
<1>b. /\ CliInv(r) /\ GuardInv(r) /\ OutInv(r)
      /\ ResultInv(r) /\ ManifestInv(r) /\ PostInv(r)
  BY DEF RunInv
<1>c. UNCHANGED <<task, cli, scriptVars, timedOut, code>>
  BY DEF HostStep, Close, WriteManifest, Settle, SkipComment, FindComment,
         PostComment, Classify, Prove
<1>d. GuardInv(r)'
  BY <1>b, <1>c DEF GuardInv, LeakBlocks, ReadOnlyBlocks, Lane, scriptVars
<1>e. ASSUME host'[r] # "idle", cli[r] = "exited" PROVE CliInv(r)'
  BY <1>b, <1>c, <1>e DEF CliInv, scriptVars
<1>f. ASSUME res'[r].pr = res[r].pr, res'[r].marks = res[r].marks,
             host[r] \in Closed
      PROVE  OutInv(r)'
  BY <1>b, <1>c, <1>f DEF OutInv, scriptVars
<1>g. ASSUME OutInv(r)', ResultInv(r)', ManifestInv(r)', PostInv(r)',
             host'[r] # "idle", cli[r] = "exited"
      PROVE  RunInv(r)'
  BY <1>d, <1>e, <1>g DEF RunInv
<1>1. CASE Close(r)
  <2>1. /\ host[r] = "waiting" /\ cli[r] = "exited" /\ host'[r] = "closed"
        /\ res'[r] = [res[r] EXCEPT !.pr = out[r].pr, !.marks = out[r].marks]
        /\ UNCHANGED <<disk, posts>>
    BY <1>1, <1>a DEF Close
  <2>2. /\ res'[r].pr = out[r].pr /\ res'[r].marks = out[r].marks
        /\ res'[r].ok = res[r].ok /\ res'[r].manifest = res[r].manifest
        /\ res'[r].kind = res[r].kind /\ res'[r].comment = res[r].comment
    BY <1>a, <2>1 DEF Result
  <2>3. OutInv(r)'
    BY <1>b, <1>c, <2>1, <2>2 DEF OutInv, scriptVars
  <2>4. ResultInv(r)'
    BY <1>b, <1>c, <2>1, <2>2 DEF ResultInv, Unsettled, Commenting
  <2>5. ManifestInv(r)' /\ PostInv(r)'
    BY <1>b, <1>c, <2>1, <2>2 DEF ManifestInv, ResultInv, PostInv, scriptVars, Lane
  <2>6. QED
    BY <1>g, <2>1, <2>3, <2>4, <2>5
<1>2. CASE WriteManifest(r)
  <2>1. /\ host[r] = "closed" /\ cli[r] = "exited" /\ UNCHANGED posts
        /\ \/ /\ host'[r] = "settle"
              /\ res'[r] = [res[r] EXCEPT !.manifest = ManifestStatus(r)]
              /\ disk'[r] = [disk[r] EXCEPT !.status = ManifestStatus(r)]
           \/ host'[r] = "rejected" /\ UNCHANGED <<res, disk>>
    BY <1>2, <1>a, <1>b DEF WriteManifest, CliInv, Closed
  <2>2. /\ res'[r].pr = res[r].pr /\ res'[r].marks = res[r].marks
        /\ res'[r].ok = res[r].ok /\ res'[r].kind = res[r].kind
        /\ res'[r].comment = res[r].comment
        /\ \/ /\ host'[r] = "settle" /\ res'[r].manifest = ManifestStatus(r)
              /\ disk'[r].status = ManifestStatus(r)
           \/ host'[r] = "rejected" /\ UNCHANGED <<res, disk>>
    BY <1>a, <2>1 DEF Result, Manifest
  <2>3. OutInv(r)'
    BY <1>f, <2>1, <2>2 DEF Closed
  <2>4. ManifestStatus(r)' = ManifestStatus(r)
    BY <1>c, <2>2 DEF ManifestStatus, ExitedOk
  <2>5. ResultInv(r)'
    BY <1>b, <1>c, <2>1, <2>2, <2>4 DEF ResultInv, Unsettled, Commenting
  <2>6. ManifestInv(r)'
    BY <1>b, <1>c, <2>1, <2>2
    DEF ManifestInv, ResultInv, ManifestStatus, ExitedOk, Success
  <2>7. PostInv(r)'
    BY <1>b, <1>c, <2>1, <2>2 DEF PostInv, scriptVars, Lane
  <2>8. QED
    BY <1>g, <2>1, <2>3, <2>5, <2>6, <2>7
<1>3. CASE Settle(r)
  <2> DEFINE ok == (ExitedOk(r) \/ Recovered(r)) /\ ~MissingPatchCommand(r)
             manifest == IF Recovered(r) THEN "done" ELSE res[r].manifest
  <2>1. /\ host[r] = "settle" /\ cli[r] = "exited" /\ UNCHANGED posts
        /\ host'[r] = IF task.mode THEN "lookup" ELSE "prove"
        /\ res'[r].ok = ok /\ res'[r].manifest = manifest
        /\ res'[r].pr = res[r].pr /\ res'[r].marks = res[r].marks
        /\ res'[r].kind = res[r].kind /\ res'[r].comment = res[r].comment
        /\ disk'[r].status = manifest
    BY <1>3, <1>a, <1>b DEF Settle, CliInv, Closed, Result, Manifest
  <2>2. OutInv(r)'
    BY <1>f, <2>1 DEF Closed
  <2>3. ok => ~timedOut[r] /\ Success(r) /\ manifest \in {"done", "budget_limited"}
    BY <1>b, <2>1 DEF ResultInv, ManifestStatus, ExitedOk, Recovered, Success
  <2>4. ResultInv(r)'
    BY <1>b, <1>c, <2>1, <2>3 DEF ResultInv, Unsettled, Commenting, Success
  <2>5. ManifestInv(r)'
    BY <1>b, <1>c, <2>1 DEF ManifestInv, Recovered, Success
  <2>6. PostInv(r)'
    BY <1>b, <1>c, <2>1 DEF PostInv, scriptVars, Lane
  <2>7. QED
    BY <1>g, <2>1, <2>2, <2>4, <2>5, <2>6
<1>4. CASE SkipComment(r)
  <2>1. /\ host[r] = "lookup" /\ cli[r] = "exited" /\ host'[r] = "classify"
        /\ UNCHANGED <<res, disk, posts>>
    BY <1>4, <1>a, <1>b DEF SkipComment, CliInv, Closed
  <2>2. OutInv(r)'
    BY <1>f, <2>1 DEF Closed
  <2>3. ResultInv(r)'
    BY <1>b, <1>c, <2>1 DEF ResultInv, Unsettled, Commenting, Success
  <2>4. ManifestInv(r)' /\ PostInv(r)'
    BY <1>b, <1>c, <2>1 DEF ManifestInv, Success, PostInv, scriptVars, Lane
  <2>5. QED
    BY <1>g, <2>1, <2>2, <2>3, <2>4
<1>5. CASE FindComment(r)
  <2>1. /\ host[r] = "lookup" /\ cli[r] = "exited" /\ UNCHANGED <<disk, posts>>
        /\ host'[r] \in {"classify", "posting"}
    BY <1>5, <1>a, <1>b DEF FindComment, CliInv, Closed
  <2>2. \/ UNCHANGED res
        \/ /\ host'[r] = "classify"
           /\ \E p \in posts :
                res'[r] = [res[r] EXCEPT !.kind = p[1], !.comment = p[2]]
    BY <1>5, <1>a DEF FindComment, SameMarker, Bind
  <2>3. /\ res'[r].pr = res[r].pr /\ res'[r].marks = res[r].marks
        /\ res'[r].ok = res[r].ok /\ res'[r].manifest = res[r].manifest
        /\ \/ res'[r].kind = res[r].kind /\ res'[r].comment = res[r].comment
           \/ /\ host'[r] = "classify"
              /\ <<res'[r].kind, res'[r].comment>> \in posts
    <3>1. posts \subseteq ({"done", "block"} \X Runs)
      BY DEF TypeOK
    <3>2. ASSUME NEW p \in posts,
                 res'[r] = [res[r] EXCEPT !.kind = p[1], !.comment = p[2]]
          PROVE  /\ res'[r].pr = res[r].pr /\ res'[r].marks = res[r].marks
                 /\ res'[r].ok = res[r].ok /\ res'[r].manifest = res[r].manifest
                 /\ <<res'[r].kind, res'[r].comment>> = p
      <4>1. res'[r].kind = p[1] /\ res'[r].comment = p[2]
        BY <1>a, <3>2 DEF Result
      <4>2. p = <<p[1], p[2]>>
        BY <3>1
      <4>3. QED
        BY <1>a, <3>2, <4>1, <4>2 DEF Result
    <3>3. QED
      BY <2>2, <3>2
  <2>4. OutInv(r)'
    BY <1>f, <2>1, <2>3 DEF Closed
  <2>5. ResultInv(r)'
    BY <1>b, <1>c, <2>1, <2>3 DEF ResultInv, Unsettled, Commenting, Success
  <2>6. ManifestInv(r)' /\ PostInv(r)'
    BY <1>b, <1>c, <2>1, <2>3 DEF ManifestInv, Success, PostInv, scriptVars, Lane
  <2>7. QED
    BY <1>g, <2>1, <2>4, <2>5, <2>6
<1>6. CASE PostComment(r)
  <2> DEFINE mine == <<OwedComment(r), r>>
  <2>1. /\ host[r] = "posting" /\ cli[r] = "exited" /\ UNCHANGED disk
        /\ host'[r] = "classify" /\ posts' \in {posts, posts \cup {mine}}
    BY <1>6, <1>a, <1>b DEF PostComment, CliInv, Closed
  <2>2. /\ res'[r].pr = res[r].pr /\ res'[r].marks = res[r].marks
        /\ res'[r].ok = res[r].ok /\ res'[r].manifest = res[r].manifest
        /\ \/ res'[r].kind = res[r].kind /\ res'[r].comment = res[r].comment
           \/ <<res'[r].kind, res'[r].comment>> = mine /\ mine \in posts'
    BY <1>6, <1>a DEF PostComment, Bind, Result
  <2>3. OutInv(r)'
    BY <1>f, <2>1, <2>2 DEF Closed
  <2>4. ResultInv(r)'
    BY <1>b, <1>c, <2>1, <2>2 DEF ResultInv, Unsettled, Commenting, Success
  <2>5. ManifestInv(r)'
    BY <1>b, <1>c, <2>1, <2>2 DEF ManifestInv, Success
  <2>6. OwedComment(r) \in {"done", "block"} /\ task.mode
    BY <1>b, <2>1, OwedCommentType DEF PostingOwes, CanComment, ResultInv, Commenting
  <2>7. \A kind \in {"done", "block"} : <<kind, r>> \notin posts
    BY <1>b, <2>1 DEF PostInv
  <2>8. OwedComment(r) = "done" => code[r] = 0 /\ ~timedOut[r] /\ out[r].pr = NoUrl
    BY <1>b, <2>1 DEF OwedComment, ResultInv, OutInv, Success, Closed
  <2>9. OwedComment(r) = "block" => ~res[r].ok \/ Lane = "none"
    BY DEF OwedComment
  <2>10. \A kind \in {"done", "block"} :
           <<kind, r>> \in posts' => kind = OwedComment(r)
    BY <2>1, <2>7
  <2>11. res'[r].comment # NoUrl => <<res'[r].kind, res'[r].comment>> \in posts'
    BY <1>b, <2>1, <2>2 DEF PostInv
  <2>12. PostInv(r)'
    BY <1>c, <2>1, <2>2, <2>6, <2>8, <2>9, <2>10, <2>11
    DEF PostInv, scriptVars, Lane
  <2>13. QED
    BY <1>g, <2>1, <2>3, <2>4, <2>5, <2>12
<1>7. CASE Classify(r)
  <2>1. /\ host[r] = "classify" /\ cli[r] = "exited" /\ host'[r] = "prove"
        /\ UNCHANGED posts
        /\ res'[r].pr = res[r].pr /\ res'[r].marks = res[r].marks
        /\ res'[r].ok = (res[r].ok /\ ~FailsClosed(r))
        /\ res'[r].manifest = res[r].manifest
        /\ res'[r].kind = res[r].kind /\ res'[r].comment = res[r].comment
        /\ disk'[r].status = disk[r].status
    BY <1>7, <1>a, <1>b DEF Classify, CliInv, Closed, Result, Manifest
  <2>2. OutInv(r)'
    BY <1>f, <2>1 DEF Closed
  <2>3. Lane = "none" /\ task.mode /\ res[r].ok => FailsClosed(r)
    <3>1. SUFFICES ASSUME Lane = "none", task.mode, res[r].ok
                   PROVE  Outcome(r) = "missing_evidence"
      BY DEF FailsClosed
    <3>2. task \in TaskRecord
      BY TasksAssumption DEF TypeOK, ScriptTypeOK
    <3>3. ~task.repo
      BY <3>1, <3>2 DEF Lane, TaskRecord
    <3>4. res[r].pr = NoUrl /\ res[r].marks = {}
      BY <1>b, <2>1, <3>1 DEF GuardInv, OutInv, Closed
    <3>5. res[r].manifest # "budget_limited" /\ ~timedOut[r]
      BY <1>b, <3>1, <3>4 DEF ManifestInv, ResultInv
    <3>6. res[r].kind \in {"none", "block", "done"}
      BY <1>a DEF Result
    <3>7. RawOutcome(r) \in {"done", "block", "missing_evidence"}
      BY <3>4, <3>5, <3>6 DEF RawOutcome
    <3>8. QED
      BY <3>3, <3>7 DEF Outcome, GatePasses
  <2>4. ResultInv(r)'
    BY <1>b, <1>c, <2>1, <2>3
    DEF ResultInv, Unsettled, Commenting, Success, Lane
  <2>5. ManifestInv(r)' /\ PostInv(r)'
    BY <1>b, <1>c, <2>1 DEF ManifestInv, Success, PostInv, scriptVars, Lane
  <2>6. QED
    BY <1>g, <2>1, <2>2, <2>4, <2>5
<1>8. CASE Prove(r)
  <2>1. /\ host[r] = "prove" /\ cli[r] = "exited" /\ host'[r] = "returned"
        /\ UNCHANGED <<res, posts>>
        /\ disk'[r].status = disk[r].status /\ disk'[r].proof
    BY <1>8, <1>a, <1>b DEF Prove, CliInv, Closed, Manifest
  <2>2. OutInv(r)'
    BY <1>f, <2>1 DEF Closed
  <2>3. ResultInv(r)'
    BY <1>b, <1>c, <2>1 DEF ResultInv, Unsettled, Commenting, Success, Lane
  <2>4. ManifestInv(r)' /\ PostInv(r)'
    BY <1>b, <1>c, <2>1 DEF ManifestInv, Success, PostInv, scriptVars, Lane
  <2>5. QED
    BY <1>g, <2>1, <2>2, <2>3, <2>4
<1>9. QED
  BY <1>1, <1>2, <1>3, <1>4, <1>5, <1>6, <1>7, <1>8 DEF HostStep

(***************************************************************************)
(* Every run keeps what its stages have established, whatever the other    *)
(* runs, the engine, GitHub and a crash do in between.                     *)
(***************************************************************************)
THEOREM Invariance == Spec => []IInv
<1>1. Init => IInv
  <2> SUFFICES ASSUME Init PROVE IInv
    OBVIOUS
  <2>1. TypeOK /\ PostingOwes
    BY TypeInit
  <2>2. ASSUME NEW r \in Runs PROVE RunInv(r)
    <3>1. CliInv(r) /\ GuardInv(r) /\ OutInv(r)
      BY RunsAssumption
      DEF Init, ScriptInit, CliInv, GuardInv, OutInv, NoResult, NoCode, Closed
    <3>2. ResultInv(r) /\ ManifestInv(r) /\ PostInv(r)
      BY DEF Init, ScriptInit, ResultInv, ManifestInv, PostInv, NoResult,
             Unsettled, Commenting
    <3>3. QED
      BY <3>1, <3>2 DEF RunInv
  <2>3. QED
    BY <2>1, <2>2 DEF IInv
<1>2. IInv /\ [Next]_vars => IInv'
  <2>1. CASE UNCHANGED vars
    <3>1. ASSUME IInv PROVE TypeOK' /\ PostingOwes'
      BY <2>1, <3>1, TypeStutter DEF IInv
    <3>2. ASSUME IInv, NEW q \in Runs PROVE RunInv(q)'
      BY <2>1, <3>2, FramedRun
      DEF IInv, SameRun, OwnComments, vars, scriptVars, hostVars
    <3>3. QED
      BY <3>1, <3>2 DEF IInv
  <2>2. ASSUME IInv, NEW r \in Runs, Step(r) PROVE IInv'
    <3>1. TypeOK' /\ PostingOwes'
      BY <2>2, StepTypes, PostingOwesStep DEF IInv
    <3>2. RunInv(r)'
      BY <2>2, ScriptKeepsRunInv, EngineKeepsRunInv, HostKeepsRunInv
      DEF IInv, Step, Engine
    <3>3. ASSUME NEW q \in Runs, q # r PROVE RunInv(q)'
      BY <2>2, <3>3, OtherRuns, FramedRun DEF IInv
    <3>4. QED
      BY <3>1, <3>2, <3>3 DEF IInv
  <2>3. QED
    BY <2>1, <2>2 DEF Next
<1>3. QED
  BY <1>1, <1>2, PTL DEF Spec

(***************************************************************************)
(* A run whose timer fired is never a success, neither in its result nor   *)
(* in the manifest it leaves on disk.                                      *)
(***************************************************************************)
THEOREM TimeoutSafety == Spec => []TimeoutIsFailure
<1>1. IInv => TimeoutIsFailure
  BY DEF IInv, RunInv, ResultInv, ManifestInv, TimeoutIsFailure
<1>2. QED
  BY <1>1, Invariance, PTL

(***************************************************************************)
(* Done on the issue means that the container of the run that posted it    *)
(* ended with exit code 0 behind its last guard, in time, without a PR.    *)
(***************************************************************************)
THEOREM DoneSafety == Spec => []DoneIsEarned
<1>1. IInv => DoneIsEarned
  BY DEF IInv, RunInv, CliInv, GuardInv, PostInv, DoneIsEarned
<1>2. QED
  BY <1>1, Invariance, PTL

(***************************************************************************)
(* The comment and the pull request a run names exist on GitHub, even when *)
(* its calls are refused or their answers lost.                            *)
(***************************************************************************)
THEOREM EvidenceSafety == Spec => []EvidenceIsReal
<1>1. IInv => EvidenceIsReal
  BY DEF IInv, RunInv, OutInv, PostInv, EvidenceIsReal
<1>2. QED
  BY <1>1, Invariance, PTL

(***************************************************************************)
(* A manifest that says done belongs to a success, also when its run was   *)
(* lost, and an ok result never leaves a failed or unproved manifest.      *)
(***************************************************************************)
THEOREM ManifestSafety == Spec => []ManifestIsHonest
<1>1. IInv => ManifestIsHonest
  BY DEF IInv, RunInv, ResultInv, ManifestInv, Success, ManifestIsHonest
<1>2. QED
  BY <1>1, Invariance, PTL

(***************************************************************************)
(* Pull requests are opened by OpenPr alone, in the name of the run that   *)
(* takes it.                                                               *)
(***************************************************************************)
LEMMA OnlyOpenPrOpens ==
  ASSUME NEW q \in Runs, Step(q)
  PROVE  prs' = prs \/ (OpenPr(q) /\ UNCHANGED task /\ prs' \subseteq prs \cup {q})
<1>1. CASE ScriptStep(q)
  BY <1>1 DEF ScriptStep, Script, Checkout, RunCommands, StartComment,
     PatchCommand, PatchGuards, NothingToPublish, RefuseNewPr, OpenPr,
     UpdateBranch, PostGuard, Killed, CommentOnly
<1>2. CASE Launch(q) \/ StartContainer(q) \/ EngineFails(q) \/ CliExits(q)
           \/ TimerFires(q) \/ CliKilled(q) \/ Crash(q)
  BY <1>2 DEF Launch, StartContainer, EngineFails, CliExits, TimerFires,
     CliKilled, Crash, scriptVars
<1>3. CASE HostStep(q)
  BY <1>3 DEF HostStep, Close, WriteManifest, Settle, SkipComment,
     FindComment, PostComment, Classify, Prove, scriptVars
<1>4. QED
  BY <1>1, <1>2, <1>3 DEF Step, Engine

(***************************************************************************)
(* No run's pipeline opens a pull request ahead of one of its guards.      *)
(***************************************************************************)
THEOREM PrSafety == Spec => PrIsGuarded
<1> DEFINE Guarded == \A r \in prs' \ prs :
                        /\ task.issue => r \in started
                        /\ ~task.readOnlyValidation /\ ~task.forbidNewPr
                        /\ repo[r].changed /\ ~repo[r].leak
<1>1. ASSUME IInv, NEW q \in Runs, Step(q) PROVE Guarded
  <2>1. prs' = prs \/ (OpenPr(q) /\ prs' \subseteq prs \cup {q})
    BY <1>1, OnlyOpenPrOpens
  <2>2. GuardInv(q)
    BY <1>1 DEF IInv, RunInv
  <2>3. QED
    BY <2>1, <2>2 DEF OpenPr, GuardInv, LeakBlocks, ReadOnlyBlocks, NewPrForbidden
<1>2. IInv /\ [Next]_vars => [Guarded]_vars
  BY <1>1 DEF Next
<1>3. QED
  BY <1>2, Invariance, PTL DEF Spec, PrIsGuarded

(***************************************************************************)
(* RunTask implements RunContract.                                         *)
(***************************************************************************)
Stages   == [q \in Runs |-> StageOf(host[q])]
Verdicts == [q \in Runs |-> VerdictOf(host[q], res[q])]

LEMMA SameStages ==
  ASSUME TypeOK, NEW r \in Runs, Step(r)
  PROVE  /\ Stages' = [Stages EXCEPT ![r] = StageOf(host'[r])]
         /\ Verdicts' = [Verdicts EXCEPT ![r] = VerdictOf(host'[r], res'[r])]
<1>1. \A q \in Runs : q # r => host'[q] = host[q] /\ res'[q] = res[q]
  BY OtherRuns DEF SameRun
<1>2. QED
  BY <1>1 DEF Stages, Verdicts

LEMMA StepKeepsContract ==
  ASSUME IInv, NEW r \in Runs, Step(r)
  PROVE  Contract!Next \/ UNCHANGED Contract!cvars
<1>a. TypeOK /\ host \in [Runs -> Hosts] /\ RunInv(r)
  BY DEF IInv, TypeOK
<1>b. /\ Stages' = [Stages EXCEPT ![r] = StageOf(host'[r])]
      /\ Verdicts' = [Verdicts EXCEPT ![r] = VerdictOf(host'[r], res'[r])]
  BY <1>a, SameStages
<1>c. /\ Stages[r] = StageOf(host[r]) /\ Verdicts[r] = VerdictOf(host[r], res[r])
      /\ Stages = [Stages EXCEPT ![r] = Stages[r]]
      /\ Verdicts = [Verdicts EXCEPT ![r] = Verdicts[r]]
  BY DEF Stages, Verdicts
<1>d. ASSUME StageOf(host'[r]) = StageOf(host[r]), posts' = posts,
             VerdictOf(host'[r], res'[r]) = VerdictOf(host[r], res[r])
      PROVE  UNCHANGED Contract!cvars
  BY <1>b, <1>c, <1>d DEF Contract!cvars, Stages, Verdicts
<1>e. ASSUME NEW from, NEW to, StageOf(host[r]) = from, StageOf(host'[r]) = to
      PROVE  Contract!Move(r, from, to)
  BY <1>b, <1>c, <1>e DEF Contract!Move, Stages
<1>f. ASSUME VerdictOf(host'[r], res'[r]) = VerdictOf(host[r], res[r])
      PROVE  [q \in Runs |-> VerdictOf(host'[q], res'[q])]
                = [q \in Runs |-> VerdictOf(host[q], res[q])]
  BY <1>b, <1>c, <1>f DEF Verdicts
<1>1. CASE Launch(r)
  <2>1. host[r] = "idle" /\ host'[r] = "waiting" /\ UNCHANGED <<res, posts>>
    BY <1>1, <1>a DEF Launch
  <2>2. Contract!Begin(r)
    BY <1>e, <1>f, <2>1 DEF Contract!Begin, StageOf, VerdictOf
  <2>3. QED
    BY <2>2 DEF Contract!Next
<1>2. CASE Engine(r) \/ TimerFires(r) \/ CliKilled(r)
  <2>1. UNCHANGED <<host, res, posts>>
    BY <1>2 DEF Engine, StartContainer, EngineFails, ScriptStep, CliExits,
                TimerFires, CliKilled, hostVars
  <2>2. QED
    BY <1>d, <2>1
<1>3. CASE Crash(r)
  <2>1. /\ host[r] \notin {"idle", "returned", "rejected", "crashed"}
        /\ host'[r] = "crashed" /\ UNCHANGED <<res, posts>>
    BY <1>3, <1>a DEF Crash, Over
  <2>2. Contract!Lose(r)
    BY <1>e, <1>f, <2>1 DEF Contract!Lose, StageOf, VerdictOf
  <2>3. QED
    BY <2>2 DEF Contract!Next
<1>4. CASE Close(r)
  <2>1. host[r] = "waiting" /\ host'[r] = "closed" /\ UNCHANGED posts
    BY <1>4, <1>a DEF Close
  <2>2. Contract!Finish(r)
    BY <1>e, <1>f, <2>1 DEF Contract!Finish, StageOf, VerdictOf
  <2>3. QED
    BY <2>2 DEF Contract!Next
<1>5. CASE WriteManifest(r)
  <2>1. host[r] = "closed" /\ host'[r] \in {"settle", "rejected"} /\ UNCHANGED posts
    BY <1>5, <1>a DEF WriteManifest
  <2>2. CASE host'[r] = "settle"
    BY <1>d, <2>1, <2>2 DEF StageOf, VerdictOf
  <2>3. CASE host'[r] = "rejected"
    <3>1. Contract!Lose(r)
      BY <1>e, <1>f, <2>1, <2>3 DEF Contract!Lose, StageOf, VerdictOf
    <3>2. QED
      BY <3>1 DEF Contract!Next
  <2>4. QED
    BY <2>1, <2>2, <2>3
<1>6. CASE Settle(r) \/ SkipComment(r) \/ FindComment(r) \/ Classify(r)
  <2>1. /\ host[r] \in {"settle", "lookup", "classify"}
        /\ host'[r] \in {"lookup", "prove", "classify", "posting"}
        /\ UNCHANGED posts
    BY <1>6, <1>a DEF Settle, SkipComment, FindComment, Classify
  <2>2. QED
    BY <1>d, <2>1 DEF StageOf, VerdictOf
<1>7. CASE PostComment(r)
  <2> DEFINE mine == <<OwedComment(r), r>>
  <2>1. /\ host[r] = "posting" /\ host'[r] = "classify"
        /\ posts' \in {posts, posts \cup {mine}}
    BY <1>7, <1>a DEF PostComment
  <2>2. OwedComment(r) \in {"done", "block"}
    BY <2>1, OwedCommentType DEF IInv, PostingOwes, CanComment
  <2>3. \A kind \in {"done", "block"} : <<kind, r>> \notin posts
    BY <1>a, <2>1 DEF RunInv, PostInv
  <2>4. UNCHANGED <<Stages, Verdicts>>
    BY <1>b, <1>c, <2>1 DEF StageOf, VerdictOf
  <2>5. CASE posts' = posts
    BY <1>d, <2>1, <2>5 DEF StageOf, VerdictOf
  <2>6. CASE posts' = posts \cup {mine}
    <3>1. Stages[r] = "over"
      BY <1>c, <2>1 DEF StageOf
    <3>2. Contract!Comment(r, OwedComment(r))
      BY <2>3, <2>4, <2>6, <3>1 DEF Contract!Comment, Stages, Verdicts
    <3>3. QED
      BY <2>2, <3>2 DEF Contract!Next
  <2>7. QED
    BY <2>1, <2>5, <2>6
<1>8. CASE Prove(r)
  <2> DEFINE v == IF res[r].ok THEN "ok" ELSE "failed"
  <2>1. host[r] = "prove" /\ host'[r] = "returned" /\ UNCHANGED <<res, posts>>
    BY <1>8, <1>a DEF Prove
  <2>2. v = "ok" => <<"block", r>> \notin posts
    BY <1>a, <2>1 DEF RunInv, ResultInv, PostInv
  <2>3. Verdicts' = [Verdicts EXCEPT ![r] = v]
    BY <1>b, <2>1 DEF VerdictOf
  <2>4. Contract!Move(r, "over", "decided")
    BY <1>e, <2>1 DEF StageOf
  <2>5. Contract!Decide(r, v)
    BY <2>1, <2>2, <2>3, <2>4 DEF Contract!Decide, Verdicts
  <2>6. QED
    BY <2>5 DEF Contract!Next
<1>9. QED
  BY <1>1, <1>2, <1>3, <1>4, <1>5, <1>6, <1>7, <1>8 DEF Step, HostStep

(***************************************************************************)
(* The runs keep their contract: one verdict each, at most one comment by  *)
(* a run, after its engine ended and before its verdict, and no ok after a *)
(* Block.                                                                  *)
(***************************************************************************)
THEOREM Refinement == Spec => KeepsContract
<1>1. Init => Contract!Init
  BY DEF Init, Contract!Init, StageOf, VerdictOf
<1>2. IInv /\ [Next]_vars => [Contract!Next]_(Contract!cvars)
  <2>1. CASE UNCHANGED vars
    BY <2>1 DEF vars, hostVars, Contract!cvars
  <2>2. ASSUME IInv, NEW r \in Runs, Step(r)
        PROVE  Contract!Next \/ UNCHANGED Contract!cvars
    BY <2>2, StepKeepsContract
  <2>3. QED
    BY <2>1, <2>2 DEF Next
<1>3. QED
  BY <1>1, <1>2, Invariance, PTL DEF Spec, KeepsContract, Contract!Spec
=============================================================================
