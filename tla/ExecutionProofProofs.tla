------------------------ MODULE ExecutionProofProofs ------------------------
(***************************************************************************)
(* Proofs about ExecutionProof, for any tasks and templates, any outputs,  *)
(* exit codes and signals, and whatever drifts.                            *)
(***************************************************************************)
EXTENDS ExecutionProof, TLAPS

(* The result is that of how the CLI ended and what the evidence came to. *)
ResultInv ==
  phase \in {"ended", "proved"} =>
    \E end \in Endings : \E outcome \in GitHubOutcomes(end) :
      ran = end /\ result = Result(end, outcome)

(***************************************************************************)
(* What may drift is the digests and what is kept, never the chain of the  *)
(* proof that was built.                                                   *)
(***************************************************************************)
ChainInv ==
  phase = "proved" =>
    /\ DOMAIN proof = {"input", "expanded", "output", "chain", "ok", "outcome", "failure"}
    /\ \E expanded : proof.chain = <<Json(NormalizeTask(Expanded(task))), expanded, ran.out>>

ProofInv == task \in Tasks /\ ResultInv /\ ChainInv

-----------------------------------------------------------------------------
LEMMA ProofInductive == ProofInv /\ [Next]_proofVars => ProofInv'
<1> SUFFICES ASSUME ProofInv, [Next]_proofVars PROVE ProofInv'
  OBVIOUS
<1>a. task \in Tasks /\ ResultInv /\ ChainInv
  BY DEF ProofInv
<1>1. CASE Submit
  BY <1>a, <1>1 DEF Submit, ProofInv, ResultInv, ChainInv
<1>2. CASE End
  BY <1>a, <1>2 DEF End, ProofInv, ResultInv, ChainInv
<1>3. CASE Prove
  <2>1. result.out = ran.out
    BY <1>a, <1>3 DEF Prove, ResultInv, Result
  <2>2. ChainInv'
    BY <1>3, <2>1 DEF Prove, BuildProof, ChainInv
  <2>3. QED
    BY <1>a, <1>3, <2>2 DEF Prove, ProofInv, ResultInv
<1>4. ASSUME UNCHANGED <<task, phase, ran, result, proof>> PROVE ProofInv'
  BY <1>a, <1>4 DEF ProofInv, ResultInv, ChainInv
<1>5. CASE DriftDigests
  <2>1. /\ UNCHANGED <<task, phase, ran, result>> /\ phase = "proved"
        /\ proof'.chain = proof.chain /\ DOMAIN proof' = DOMAIN proof
    <3>1. phase = "proved" /\ "chain" \in DOMAIN proof
      BY <1>a, <1>5 DEF DriftDigests, MayDrift, ChainInv
    <3>2. \E x : \/ proof' = [proof EXCEPT !.output = x]
                 \/ proof' = [proof EXCEPT !.input = x]
                 \/ proof' = [proof EXCEPT !.expanded = x]
      BY <1>5 DEF DriftDigests
    <3>3. proof'.chain = proof.chain /\ DOMAIN proof' = DOMAIN proof
      BY <3>1, <3>2
    <3>4. QED
      BY <1>5, <3>1, <3>3 DEF DriftDigests
  <2>2. QED
    BY <1>a, <2>1 DEF ProofInv, ResultInv, ChainInv
<1>6. CASE UNCHANGED proofVars
  BY <1>a, <1>6 DEF proofVars, ProofInv, ResultInv, ChainInv
<1>7. QED
  BY <1>1, <1>2, <1>3, <1>4, <1>5, <1>6 DEF Next, DriftTask, DriftOutput

LEMMA ProofInvariance == Spec => []ProofInv
<1>1. Init => ProofInv
  BY DEF Init, ProofInv, ResultInv, ChainInv
<1>2. QED
  BY <1>1, ProofInductive, PTL DEF Spec

(***************************************************************************)
(* A proof that verifies is of what ran, for any tasks and outputs and     *)
(* however often a part of it or of what is kept drifts: its chain cannot. *)
(***************************************************************************)
THEOREM OnlyWhatRanVerifies == Spec => []VerifiedIsWhatRan
<1>1. ASSUME ProofInv, phase = "proved", Verifies(proof, kept)
      PROVE  LET norm == NormalizeTask(Expanded(task)) IN
             /\ kept.out = ran.out
             /\ kept.norm.template = norm.template /\ kept.norm.mode = norm.mode
             /\ kept.norm.commands = norm.commands /\ kept.norm.prompt = norm.prompt
  <2> DEFINE norm == NormalizeTask(Expanded(task))
  <2>1. PICK expanded : proof.chain = <<Json(norm), expanded, ran.out>>
    BY <1>1 DEF ProofInv, ChainInv
  <2>2. proof.chain = <<proof.input, proof.expanded, kept.out>> /\ Json(kept.norm) = proof.input
    BY <1>1 DEF Verifies
  <2>3. Json(kept.norm) = Json(norm) /\ kept.out = ran.out
    <3> HIDE DEF norm
    <3>1. QED
      BY <2>1, <2>2
  <2>4. Json(kept.norm).top = Json(norm).top
    BY <2>3
  <2>5. QED
    <3> HIDE DEF norm
    <3>1. <<kept.norm.template, kept.norm.mode, kept.norm.commands, kept.norm.prompt, kept.norm.repo>>
            = <<norm.template, norm.mode, norm.commands, norm.prompt, norm.repo>>
      BY <2>4 DEF Json
    <3>2. QED
      BY <2>3, <3>1 DEF norm
<1>2. ProofInv => VerifiedIsWhatRan
  BY <1>1 DEF VerifiedIsWhatRan
<1>3. QED
  BY <1>2, ProofInvariance, PTL

-----------------------------------------------------------------------------
(***************************************************************************)
(* How a CLI ends: it cannot be started, or it ends with a code or by a    *)
(* signal.                                                                 *)
(***************************************************************************)
LEMMA EndingFacts ==
  ASSUME NEW end \in Endings
  PROVE  /\ end.enoent \in BOOLEAN /\ end.timedOut \in BOOLEAN
         /\ end.code \in 0..255 \/ end.code = NoCode
         /\ end.timedOut => ~end.enoent
BY ProofAssumption DEF Endings, NoCode

(***************************************************************************)
(* The result of an ending and what the evidence came to; only a container *)
(* that failed leaves words of its own in the error.                       *)
(***************************************************************************)
LEMMA ResultFacts ==
  ASSUME NEW end \in Endings, NEW outcome \in GitHubOutcomes(end)
  PROVE  LET r == Result(end, outcome)
             failed == NoPatchCommand(end) \/ outcome = "missing_evidence"
         IN
         /\ r.ok <=> EndsOk(end) /\ ~failed
         /\ r.status = "timeout" <=> end.timedOut /\ ~failed
         /\ r.status = "timeout" => ~r.ok
         /\ EndsOk(end) \/ failed => r.error = {}
         /\ r.outcome = outcome /\ r.code = end.code
<1> DEFINE r == Result(end, outcome)
           failed == NoPatchCommand(end) \/ outcome = "missing_evidence"
<1>1. /\ r.ok <=> EndsOk(end) /\ ~failed
      /\ r.outcome = outcome /\ r.code = end.code
      /\ r.error = IF EndsOk(end) \/ failed THEN {} ELSE ActionableError(end)
  BY DEF Result
<1>2. r.status = IF failed THEN "failed"
                 ELSE IF end.timedOut THEN "timeout"
                 ELSE IF EndsOk(end) THEN "completed" ELSE "failed"
  BY DEF Result
<1>3. r.status = "timeout" <=> end.timedOut /\ ~failed
  BY <1>2
<1>4. end.timedOut => ~EndsOk(end)
  BY DEF EndsOk, Recovered
<1>5. QED
  BY <1>1, <1>3, <1>4

(***************************************************************************)
(* What the evidence of a GitHub run may come to: a result that failed and *)
(* whose outcome is left to the hints has a pull request, and its          *)
(* container timed out or was short of a patch command.                    *)
(***************************************************************************)
LEMMA OutcomeFacts ==
  ASSUME NEW end \in Endings, NEW outcome \in GitHubOutcomes(end), outcome # "none"
  PROVE  /\ outcome \in {"pr", "done", "block", "missing_evidence", "budget_limited", "timed_out",
                         "succeeded_no_changes_with_done_evidence",
                         "blocked_no_changes_with_evidence"}
         /\ outcome = "pr" => HasPr(end)
         /\ outcome = "done" => EndsOk(end) /\ ~NoPatchCommand(end)
         /\ outcome = "timed_out" => end.timedOut
         /\ HasPr(end) /\ ~EndsOk(end) => end.timedOut
<1>1. HasPr(end) /\ ~EndsOk(end) => end.timedOut
  BY EndingFacts DEF EndsOk, Recovered
<1>2. CASE HasPr(end)
  BY <1>1, <1>2 DEF GitHubOutcomes
<1>3. CASE ~HasPr(end)
  BY <1>1, <1>3 DEF GitHubOutcomes
<1>4. QED
  BY <1>2, <1>3

(***************************************************************************)
(* The category of the hints, case by case.                                *)
(***************************************************************************)
LEMMA HintFacts ==
  ASSUME NEW r
  PROVE  LET hint == HintCategory(r) IN
         /\ r.outcome = "succeeded_no_changes_with_done_evidence" => hint = "no_changes_allowed"
         /\ r.outcome \in {"blocked_no_changes_with_evidence", "block", "budget_limited",
                           "timed_out", "missing_evidence"} => hint = r.outcome
         /\ r.outcome \in {"pr", "done"} =>
              /\ r.status = "timeout" => hint = "timed_out"
              /\ hint = "timed_out" => r.status = "timeout"
              /\ r.ok /\ r.status # "timeout" =>
                   hint \in {"none", "budget_limited", "openclaw_cli_unavailable",
                             "openclaw_profile_unavailable", "openclaw_version_failed"}
              /\ ~r.ok => hint # "none"
              /\ hint \in {"exit_nonzero", "failed"} => r.code # 137
<1> DEFINE hint == HintCategory(r)
<1>1. CASE r.outcome = "succeeded_no_changes_with_done_evidence"
  BY <1>1 DEF HintCategory
<1>2. CASE r.outcome \in {"blocked_no_changes_with_evidence", "block", "budget_limited",
                          "timed_out", "missing_evidence"}
  BY <1>2 DEF HintCategory
<1>3. CASE r.outcome \in {"pr", "done"}
  BY <1>3 DEF HintCategory, ResourceLimited
<1>4. QED
  BY <1>1, <1>2, <1>3

LEMMA FailureFacts ==
  ASSUME NEW r
  PROVE  LET failure == ClassifyFailure(r) IN
         /\ r.ok => failure = "none"
         /\ ~r.ok /\ r.status = "timeout" => failure = "timeout_exceeded"
         /\ ~r.ok /\ r.status # "timeout" =>
              /\ r.code = 137 => failure = "oom"
              /\ r.code # 137 /\ r.error = {} => failure # "oom"
              /\ failure \notin {"none", "timeout_exceeded"}
<1> DEFINE failure == ClassifyFailure(r)
<1>1. CASE r.ok
  BY <1>1 DEF ClassifyFailure
<1>2. CASE ~r.ok /\ r.status = "timeout"
  BY <1>2 DEF ClassifyFailure
<1>3. CASE ~r.ok /\ r.status # "timeout"
  <2>1. failure =
       IF r.code = 137 \/ r.error \cap {"oom_end", "oom_mid"} # {} THEN "oom"
       ELSE IF "enoent" \in r.error THEN "engine_not_found"
       ELSE IF "pull_denied" \in r.error THEN "image_pull_failure"
       ELSE IF r.error \cap {"permission_denied", "no_daemon"} # {} THEN "engine_permission"
       ELSE IF r.error \cap {"name_in_use", "conflict"} # {} THEN "container_name_collision"
       ELSE IF r.error \cap {"budget_limited", "budget_mid"} # {} THEN "budget_limit"
       ELSE IF "bootstrap_guard" \in r.error THEN "bootstrap_guard_blocked"
       ELSE IF r.signal \in {"SIGKILL", "SIGTERM"} THEN r.signal
       ELSE IF r.code \notin {0, NoCode} THEN "exit" ELSE "unknown"
    BY <1>3 DEF ClassifyFailure
  <2>2. failure \notin {"none", "timeout_exceeded"}
    BY <2>1
  <2>3. r.code = 137 => failure = "oom"
    BY <2>1
  <2>4. r.code # 137 /\ r.error = {} => failure # "oom"
    BY <2>1
  <2>5. QED
    BY <1>3, <2>2, <2>3, <2>4
<1>4. QED
  BY <1>1, <1>2, <1>3

(***************************************************************************)
(* The two classifications of one result of a GitHub run do not contradict *)
(* each other.                                                             *)
(***************************************************************************)
LEMMA CategoriesAgree ==
  ASSUME NEW end \in Endings, NEW outcome \in GitHubOutcomes(end), outcome # "none",
         NEW r, r = Result(end, outcome)
  PROVE  LET hint == HintCategory(r)
             failure == ClassifyFailure(r)
         IN  /\ r.ok => /\ failure = "none"
                        /\ hint \notin {"timed_out", "missing_evidence", "resource_limited",
                                        "exit_nonzero", "failed"}
             /\ ~r.ok => failure # "none" /\ hint # "none"
             /\ hint = "timed_out" =>
                  end.timedOut /\ (failure = "timeout_exceeded" \/ NoPatchCommand(end))
             /\ failure = "timeout_exceeded" =>
                  hint \in {"timed_out", "budget_limited", "block", "no_changes_allowed",
                            "blocked_no_changes_with_evidence"}
             /\ failure = "oom" => hint \notin {"exit_nonzero", "failed"}
             /\ hint = "resource_limited" /\ r.code = 137 => failure = "oom"
             /\ hint \in {"resource_limited", "exit_nonzero", "failed"} =>
                  HasPr(end) /\ NoPatchCommand(end)
<1> DEFINE hint == HintCategory(r)
           failure == ClassifyFailure(r)
           failed == NoPatchCommand(end) \/ outcome = "missing_evidence"
           judged == {"block", "missing_evidence", "budget_limited", "timed_out",
                      "succeeded_no_changes_with_done_evidence",
                      "blocked_no_changes_with_evidence"}
<1>a. /\ r.ok <=> EndsOk(end) /\ ~failed
      /\ r.status = "timeout" <=> end.timedOut /\ ~failed
      /\ r.status = "timeout" => ~r.ok
      /\ EndsOk(end) \/ failed => r.error = {}
      /\ r.outcome = outcome /\ r.code = end.code
  BY ResultFacts
<1>b. /\ outcome \in judged \cup {"pr", "done"}
      /\ outcome = "pr" => HasPr(end)
      /\ outcome = "done" => EndsOk(end) /\ ~NoPatchCommand(end)
      /\ outcome = "timed_out" => end.timedOut
      /\ HasPr(end) /\ ~EndsOk(end) => end.timedOut
  BY OutcomeFacts
<1>c. /\ outcome = "succeeded_no_changes_with_done_evidence" => hint = "no_changes_allowed"
      /\ outcome \in judged \ {"succeeded_no_changes_with_done_evidence"} => hint = outcome
      /\ outcome \in {"pr", "done"} =>
           /\ r.status = "timeout" => hint = "timed_out"
           /\ hint = "timed_out" => r.status = "timeout"
           /\ r.ok /\ r.status # "timeout" =>
                hint \in {"none", "budget_limited", "openclaw_cli_unavailable",
                          "openclaw_profile_unavailable", "openclaw_version_failed"}
           /\ ~r.ok => hint # "none"
           /\ hint \in {"exit_nonzero", "failed"} => r.code # 137
  BY <1>a, HintFacts
<1>d. /\ r.ok => failure = "none"
      /\ ~r.ok /\ r.status = "timeout" => failure = "timeout_exceeded"
      /\ ~r.ok /\ r.status # "timeout" =>
           /\ r.code = 137 => failure = "oom"
           /\ r.code # 137 /\ r.error = {} => failure # "oom"
           /\ failure \notin {"none", "timeout_exceeded"}
  BY FailureFacts
<1>1. CASE outcome \in judged
  <2>1. hint \notin {"none", "resource_limited", "exit_nonzero", "failed"}
    BY <1>1, <1>c
  <2>2. hint = "timed_out" => outcome = "timed_out"
    BY <1>1, <1>c
  <2>3. hint = "missing_evidence" => outcome = "missing_evidence"
    BY <1>1, <1>c
  <2>4. r.ok => ~end.timedOut
    BY <1>a DEF EndsOk, Recovered
  <2>5. outcome = "missing_evidence" => ~r.ok /\ r.status # "timeout"
    BY <1>a
  <2>6. failure = "timeout_exceeded" =>
          hint \in {"timed_out", "budget_limited", "block", "no_changes_allowed",
                    "blocked_no_changes_with_evidence"}
    BY <1>1, <1>c, <1>d, <2>5
  <2>7. hint = "timed_out" =>
          end.timedOut /\ (failure = "timeout_exceeded" \/ NoPatchCommand(end))
    <3>1. SUFFICES ASSUME hint = "timed_out", ~NoPatchCommand(end)
                   PROVE  end.timedOut /\ failure = "timeout_exceeded"
      BY <1>b, <2>2
    <3>2. QED
      BY <1>a, <1>b, <1>d, <2>2, <3>1
  <2>8. QED
    BY <1>b, <1>d, <2>1, <2>2, <2>3, <2>4, <2>5, <2>6, <2>7
<1>2. CASE outcome \in {"pr", "done"}
  <2>1. CASE r.ok
    BY <1>a, <1>c, <1>d, <1>2, <2>1
  <2>2. CASE ~r.ok /\ r.status = "timeout"
    BY <1>a, <1>c, <1>d, <1>2, <2>2
  <2>3. CASE ~r.ok /\ r.status # "timeout"
    <3>1. failed /\ HasPr(end) /\ NoPatchCommand(end)
      BY <1>a, <1>b, <1>2, <2>3
    <3>2. hint \notin {"timed_out", "none"}
      BY <1>c, <1>2, <2>3
    <3>3. failure = "oom" => r.code = 137
      BY <1>a, <1>d, <2>3, <3>1
    <3>4. QED
      BY <1>c, <1>d, <1>2, <2>3, <3>1, <3>2, <3>3
  <2>4. QED
    BY <2>1, <2>2, <2>3
<1>3. QED
  BY <1>b, <1>1, <1>2

(***************************************************************************)
(* The hints of the manifest and the proof never tell two stories of one   *)
(* GitHub run, for any output, cut anywhere, any exit code and signal.     *)
(***************************************************************************)
THEOREM OneClassification == Spec => []ClassifiersAgree
<1>1. ProofInv => ClassifiersAgree
  <2> SUFFICES ASSUME ProofInv, phase \in {"ended", "proved"}, result.outcome # "none"
               PROVE  ClassifiersAgree
    BY DEF ClassifiersAgree
  <2>1. PICK end \in Endings : \E outcome \in GitHubOutcomes(end) :
          ran = end /\ result = Result(end, outcome)
    BY DEF ProofInv, ResultInv
  <2>2. PICK outcome \in GitHubOutcomes(end) : ran = end /\ result = Result(end, outcome)
    BY <2>1
  <2>3. outcome # "none"
    BY <2>2 DEF Result
  <2>4. QED
    BY <2>2, <2>3, CategoriesAgree DEF ClassifiersAgree
<1>2. QED
  BY <1>1, ProofInvariance, PTL


-----------------------------------------------------------------------------
(***************************************************************************)
(* Sequences: what a concatenation ends with.                              *)
(***************************************************************************)
LEMMA ReverseTyped ==
  ASSUME NEW S, NEW s \in Seq(S)
  PROVE  /\ Reverse(s) \in Seq(S) /\ Len(Reverse(s)) = Len(s)
         /\ \A i \in 1..Len(s) : Reverse(s)[i] = s[Len(s) - i + 1]
BY DEF Reverse

LEMMA ConcatEndsWith ==
  ASSUME NEW S, NEW u \in Seq(S), NEW s \in Seq(S)
  PROVE  IsSuffix(s, u \o s)
<1> DEFINE t == u \o s
<1>1. t \in Seq(S) /\ Len(t) = Len(u) + Len(s) /\ Len(u) \in Nat /\ Len(s) \in Nat
  OBVIOUS
<1>2. \A i \in 1..Len(s) : t[Len(u) + i] = s[i]
  OBVIOUS
<1> HIDE DEF t
<1>3. /\ Reverse(t) \in Seq(S) /\ Len(Reverse(t)) = Len(t)
      /\ Reverse(s) \in Seq(S) /\ Len(Reverse(s)) = Len(s)
  BY <1>1, ReverseTyped
<1>4. \A i \in 1..Len(s) : Reverse(t)[i] = Reverse(s)[i]
  <2> SUFFICES ASSUME NEW i \in 1..Len(s) PROVE Reverse(t)[i] = Reverse(s)[i]
    OBVIOUS
  <2>1. Reverse(s)[i] = s[Len(s) - i + 1] /\ Reverse(t)[i] = t[Len(t) - i + 1]
    BY <1>1, ReverseTyped
  <2>2. Len(s) - i + 1 \in 1..Len(s) /\ Len(t) - i + 1 = Len(u) + (Len(s) - i + 1)
    BY <1>1
  <2>3. QED
    BY <1>2, <2>1, <2>2
<1>5. SubSeq(Reverse(s), 1, Len(s)) = SubSeq(Reverse(t), 1, Len(s))
  BY <1>1, <1>3, <1>4
<1>6. QED
  BY <1>1, <1>3, <1>5 DEF IsSuffix, IsPrefix, t

LEMMA EmptyEnds ==
  ASSUME NEW S, NEW s \in Seq(S)
  PROVE  IsSuffix(<< >>, s)
<1>1. << >> \in Seq(S) /\ s \o << >> = s
  OBVIOUS
<1>2. IsSuffix(<< >>, s \o << >>)
  BY <1>1, ConcatEndsWith
<1>3. QED
  BY <1>1, <1>2

(***************************************************************************)
(* The commands of a template are a sequence, whichever it is.             *)
(***************************************************************************)
LEMMA TemplateCommands ==
  ASSUME NEW t, IsTask(t)
  PROVE  \E S : ResolveTemplate(t).commands \in Seq(S)
<1>1. \A template \in Registry : template.commands = << >>
  BY DEF Registry, TerminalBrief, Template
<1>2. NoTemplate.commands = << >>
  BY DEF NoTemplate, Template
<1>3. << >> \in Seq({})
  OBVIOUS
<1>4. \/ ResolveTemplate(t) \in Registry \/ ResolveTemplate(t) = NoTemplate
      \/ ResolveTemplate(t) = t.inline
  BY DEF ResolveTemplate
<1>5. QED
  BY <1>1, <1>2, <1>3, <1>4 DEF IsTask

(***************************************************************************)
(* What expansion leaves of a task, whatever the template is.              *)
(***************************************************************************)
LEMMA ExpansionFacts ==
  ASSUME NEW t, IsTask(t)
  PROVE  LET e == Expanded(t) IN
         /\ DOMAIN e = DOMAIN t
         /\ \E S : \E u \in Seq(S) : t.commands \in Seq(S) /\ e.commands = u \o t.commands
         /\ \A k \in DOMAIN t.env : e.env[k] = t.env[k]
         /\ t.prompt # NoText => e.prompt = t.prompt
         /\ t.mode # NoName => e.mode = t.mode
<1>a. t.commands \in Seq(Range(t.commands))
      /\ {"mode", "commands", "prompt", "repos", "env"} \subseteq DOMAIN t
  BY DEF IsTask
<1>1. CASE Expanded(t) = t
  <2>1. << >> \in Seq(Range(t.commands)) /\ t.commands = << >> \o t.commands
    BY <1>a
  <2>2. QED
    BY <1>1, <1>a, <2>1
<1>2. CASE Expanded(t) # t
  <2> DEFINE m == ResolveTemplate(t)
             C(c) == ExpandVars(c, t.vars)
             u == [i \in DOMAIN m.commands |-> C(m.commands[i])]
             e == [t EXCEPT
                     !.mode = IF @ = NoName THEN m.mode ELSE @,
                     !.commands = u \o @,
                     !.prompt = IF @ = NoText THEN ExpandVars(m.prompt, t.vars) ELSE @,
                     !.repos = MergeRepos(m.repos, @),
                     !.env = MergedEnv(t, m)]
  <2>1. Expanded(t) = e
    BY <1>2 DEF Expanded, ExpandTask
  <2>2. PICK M : m.commands \in Seq(M)
    BY TemplateCommands
  <2>3. PICK U : u \in Seq(U)
    <3> HIDE DEF m, C
    <3>1. u \in Seq({C(m.commands[i]) : i \in DOMAIN m.commands})
      BY <2>2
    <3>2. QED
      BY <3>1
  <2>4. \A k \in DOMAIN t.env : MergedEnv(t, m)[k] = t.env[k]
    BY DEF MergedEnv, Over
  <2> HIDE DEF u, m
  <2>5. /\ DOMAIN e = DOMAIN t /\ e.commands = u \o t.commands /\ e.env = MergedEnv(t, m)
        /\ t.prompt # NoText => e.prompt = t.prompt
        /\ t.mode # NoName => e.mode = t.mode
    BY <1>a
  <2>6. u \in Seq(U \cup Range(t.commands)) /\ t.commands \in Seq(U \cup Range(t.commands))
    BY <1>a, <2>3
  <2>7. QED
    BY <2>1, <2>4, <2>5, <2>6
<1>3. QED
  BY <1>1, <1>2

(***************************************************************************)
(* What a submitted task sets itself is what runs, whatever template it    *)
(* names or brings: no part of the template overrides it or comes after it.*)
(***************************************************************************)
THEOREM LastWord == Spec => []TaskHasTheLastWord
<1>1. ASSUME NEW t \in Tasks
      PROVE  LET norm == NormalizeTask(Expanded(t)) IN
             /\ IsSuffix(t.commands, norm.commands)
             /\ \A k \in DOMAIN t.env : norm.env[k] = t.env[k]
             /\ t.prompt # NoText => norm.prompt = t.prompt
             /\ t.mode # NoName => norm.mode = t.mode
  <2> DEFINE e == Expanded(t)
             norm == NormalizeTask(e)
  <2>1. IsTask(t)
    BY ProofAssumption
  <2>2. PICK S : \E u \in Seq(S) : t.commands \in Seq(S) /\ e.commands = u \o t.commands
    BY <2>1, ExpansionFacts
  <2>p. PICK u \in Seq(S) : t.commands \in Seq(S) /\ e.commands = u \o t.commands
    BY <2>2
  <2>3. /\ {"commands", "repos", "env", "prompt", "mode"} \subseteq DOMAIN e
        /\ \A k \in DOMAIN t.env : e.env[k] = t.env[k]
        /\ t.prompt # NoText => e.prompt = t.prompt
        /\ t.mode # NoName => e.mode = t.mode
    BY <2>1, ExpansionFacts DEF IsTask
  <2> HIDE DEF e
  <2>4. /\ norm.commands = (IF e.commands = << >> THEN DefaultCommands ELSE e.commands)
        /\ norm.env = e.env /\ norm.prompt = e.prompt /\ norm.mode = e.mode
    BY <2>3 DEF NormalizeTask
  <2>5. IsSuffix(t.commands, norm.commands)
    <3>1. CASE e.commands # << >>
      BY <2>p, <2>4, <3>1, ConcatEndsWith
    <3>2. CASE e.commands = << >>
      <4>1. t.commands = << >>
        <5>1. Len(u \o t.commands) = Len(u) + Len(t.commands)
          BY <2>p
        <5>2. Len(u) + Len(t.commands) = 0
          BY <2>p, <3>2, <5>1
        <5>3. Len(t.commands) = 0
          BY <2>p, <5>2
        <5>4. QED
          BY <2>p, <5>3
      <4>2. DefaultCommands \in Seq({Text("default", {})})
        BY DEF DefaultCommands
      <4>3. IsSuffix(<< >>, DefaultCommands)
        BY <4>2, EmptyEnds
      <4>4. QED
        BY <2>4, <3>2, <4>1, <4>3
    <3>3. QED
      BY <3>1, <3>2
  <2>6. QED
    BY <2>3, <2>4, <2>5 DEF e
<1>2. ProofInv => TaskHasTheLastWord
  BY <1>1 DEF ProofInv, TaskHasTheLastWord
<1>3. QED
  BY <1>2, ProofInvariance, PTL
=============================================================================
