------------------------ MODULE ApprovalChainProofs -------------------------
(***************************************************************************)
(* Proofs about the approval chain, for any gates, requests, options,      *)
(* histories and number of plans: what a packet tells it always tells of   *)
(* its own gates, so that a plan of it is earned; the files of a rehearsal *)
(* agree as far as they were written; and two capsules of one idempotency  *)
(* key have one verdict.                                                   *)
(***************************************************************************)
EXTENDS ApprovalGate, ExecutionPreflight, TLAPS

(***************************************************************************)
(* A packet says of its gates what computeDecision says of them.           *)
(***************************************************************************)
TruePacket(p) ==
  p.gates \in [Gates -> BOOLEAN] /\ p.decision = ComputeDecision(p.gates)

EarnedPlan(p) ==
  /\ p.passed => \A g \in Gates : p.packet.gates[g]
  /\ (\E g \in Gates : ~p.packet.gates[g]) => p.semantics = "abort_and_report"
  /\ p.ok <=> p.passed

\* What the job has written so far, it wrote of its own packet.
Written ==
  /\ job.at > 1 => files.summary = job.packet.decision
  /\ job.at > 2 => files.gates = job.packet.decision
  /\ job.at > 3 => files.manifest = job.packet.decision

(***************************************************************************)
(* The inductive invariant.  job.at = 5 is a rehearsal that was cut short. *)
(***************************************************************************)
JobInv ==
  /\ job = [at |-> job.at, packet |-> job.packet] /\ job.at \in 0..5
  /\ job.at \in 1..4 => TruePacket(job.packet) /\ Written
FilesInv ==
  /\ files = [summary |-> files.summary, gates |-> files.gates,
              manifest |-> files.manifest, packet |-> files.packet]
  /\ files.packet # NoPacket => TruePacket(files.packet)
PlansInv == \A p \in plans : EarnedPlan(p)

GateInv == JobInv /\ FilesInv /\ PlansInv /\ BundleAgrees

(***************************************************************************)
(* computeDecision gives one of three decisions; GO_CANDIDATE just when no *)
(* gate failed.                                                            *)
(***************************************************************************)
LEMMA GoMeansAll ==
  ASSUME NEW gates \in [Gates -> BOOLEAN]
  PROVE  ComputeDecision(gates) = "GO_CANDIDATE" <=> \A g \in Gates : gates[g]
BY DEF ComputeDecision, FailedGates

LEMMA PlanEarned ==
  ASSUME NEW p, TruePacket(p), NEW o
  PROVE  EarnedPlan(BuildPlan(p, o))
<1> DEFINE actions == PlannedActions(p, o)
           failed  == FailedChecks(actions, p)
           plan    == BuildPlan(p, o)
<1>1. CASE o.requireGoCandidate /\ p.decision # "GO_CANDIDATE"
  <2>1. plan = BlockedPlan(p, o)
    BY <1>1 DEF BuildPlan
  <2> QED
    BY <2>1 DEF BlockedPlan, EarnedPlan
<1>2. CASE ~(o.requireGoCandidate /\ p.decision # "GO_CANDIDATE")
  <2>1. /\ plan.packet = p /\ plan.passed = (failed = {})
        /\ plan.semantics = FailureSemantics(failed)
        /\ plan.ok = Simulate(actions, failed = {})
    BY <1>2 DEF BuildPlan
  <2>2. (\E g \in Gates : ~p.gates[g]) => "packet_is_go_candidate" \in failed
    BY GoMeansAll DEF TruePacket, FailedChecks
  <2>3. "packet_is_go_candidate" \in failed => FailureSemantics(failed) = "abort_and_report"
    BY DEF FailureSemantics
  <2>4. \A i \in DOMAIN actions : actions[i].status = "blocked"
    BY DEF PlannedActions, Action
  <2>5. Simulate(actions, failed = {}) <=> failed = {}
    BY <2>4 DEF Simulate
  <2>6. (plan.passed <=> failed = {}) /\ (plan.ok <=> failed = {})
    <3> HIDE DEF failed, actions, plan
    <3> QED BY <2>1, <2>5, Zenon
  <2>7. plan.passed => \A g \in Gates : plan.packet.gates[g]
    <3> HIDE DEF failed, actions, plan
    <3> QED BY <2>1, <2>2, <2>6
  <2>8. (\E g \in Gates : ~plan.packet.gates[g]) => plan.semantics = "abort_and_report"
    <3> HIDE DEF failed, actions, plan
    <3> QED BY <2>1, <2>2, <2>3
  <2> HIDE DEF failed, actions, plan
  <2> QED
    BY <2>6, <2>7, <2>8, Zenon DEF EarnedPlan, plan
<1> QED
  BY <1>1, <1>2

LEMMA GateInitial == GateInit => GateInv
BY DEF GateInit, GateInv, JobInv, FilesInv, PlansInv, BundleAgrees, Idle

LEMMA GateInductive == GateInv /\ [GateNext]_gateVars => GateInv'
<1> SUFFICES ASSUME GateInv, [GateNext]_gateVars PROVE GateInv'
  OBVIOUS
<1> USE DEF GateInv
<1>1. CASE WriteFile
  <2>1. UNCHANGED plans /\ job.at \in 1..4 /\ TruePacket(job.packet) /\ Written
    BY <1>1 DEF WriteFile, JobInv
  <2>2. CASE job.at = 4
    <3>1. files' = [files EXCEPT !.packet = job.packet] /\ job' = Idle
      BY <1>1, <2>2 DEF WriteFile
    <3>2. /\ files'.packet = job.packet /\ files'.summary = files.summary
          /\ files'.gates = files.gates /\ files'.manifest = files.manifest
          /\ files' = [summary |-> files'.summary, gates |-> files'.gates,
                       manifest |-> files'.manifest, packet |-> files'.packet]
      BY <3>1 DEF FilesInv
    <3>3. FilesInv'
      BY <3>2, <2>1 DEF FilesInv, TruePacket
    <3>4. JobInv'
      BY <3>1 DEF JobInv, Idle
    <3>5. BundleAgrees'
      BY <3>2, <2>1, <2>2 DEF BundleAgrees, Written
    <3> QED
      BY <2>1, <3>3, <3>4, <3>5 DEF PlansInv
  <2>3. CASE job.at \in 1..3
    <3>1. /\ files' = [files EXCEPT ![Files[job.at]] = job.packet.decision]
          /\ job' = [job EXCEPT !.at = @ + 1]
      BY <1>1, <2>3 DEF WriteFile
    <3>2. job'.at = job.at + 1 /\ job'.packet = job.packet
          /\ job' = [at |-> job'.at, packet |-> job'.packet]
      BY <3>1 DEF JobInv
    <3>3. /\ files' = [summary |-> files'.summary, gates |-> files'.gates,
                       manifest |-> files'.manifest, packet |-> files'.packet]
          /\ files'.packet = files.packet
          /\ files'.summary = IF job.at = 1 THEN job.packet.decision ELSE files.summary
          /\ files'.gates = IF job.at = 2 THEN job.packet.decision ELSE files.gates
          /\ files'.manifest = IF job.at = 3 THEN job.packet.decision ELSE files.manifest
      <4>1. /\ job.at = 1 => Files[job.at] = "summary"
            /\ job.at = 2 => Files[job.at] = "gates"
            /\ job.at = 3 => Files[job.at] = "manifest"
        BY DEF Files
      <4>2. CASE job.at = 1
        BY <3>1, <4>1, <4>2 DEF FilesInv
      <4>3. CASE job.at = 2
        BY <3>1, <4>1, <4>3 DEF FilesInv
      <4>4. CASE job.at = 3
        BY <3>1, <4>1, <4>4 DEF FilesInv
      <4> QED
        BY <2>3, <4>2, <4>3, <4>4
    <3>4. Written'
      BY <2>1, <2>3, <3>2, <3>3 DEF Written
    <3>5. JobInv'
      BY <2>1, <2>3, <3>2, <3>4 DEF JobInv, TruePacket
    <3>6. FilesInv' /\ BundleAgrees'
      BY <2>3, <3>2, <3>3 DEF FilesInv, TruePacket, BundleAgrees
    <3> QED
      BY <2>1, <3>5, <3>6 DEF PlansInv
  <2> QED
    BY <2>1, <2>2, <2>3
<1>2. CASE Crash
  <2>1. /\ job' = [job EXCEPT !.at = 5] /\ UNCHANGED <<files, plans>>
    BY <1>2 DEF Crash
  <2>2. job'.at = 5 /\ job' = [at |-> job'.at, packet |-> job'.packet]
    BY <2>1 DEF JobInv
  <2> QED
    BY <2>1, <2>2 DEF JobInv, FilesInv, PlansInv, TruePacket, BundleAgrees, EarnedPlan
<1>3. CASE BindScannerHistory
  BY <1>3 DEF BindScannerHistory, JobInv, FilesInv, PlansInv, TruePacket, BundleAgrees,
              Written, EarnedPlan
<1>4. ASSUME NEW g \in Gates, NEW verdict, Review(g, verdict) PROVE GateInv'
  BY <1>4 DEF Review, JobInv, FilesInv, PlansInv, TruePacket, BundleAgrees, Written, EarnedPlan
<1>5. ASSUME NEW q \in Requests, Rehearse(q) PROVE GateInv'
  <2>1. /\ job' = [at |-> 1, packet |-> Packet(q, SafetyGates(review))]
        /\ UNCHANGED <<files, plans>>
    BY <1>5 DEF Rehearse
  <2>2. TruePacket(job'.packet)
    BY <2>1 DEF TruePacket, Packet, SafetyGates
  <2>3. JobInv'
    BY <2>1, <2>2 DEF JobInv, Written, TruePacket
  <2> QED
    BY <2>1, <2>3 DEF FilesInv, PlansInv, TruePacket, BundleAgrees, EarnedPlan
<1>6. ASSUME NEW d, RunEnds(d) PROVE GateInv'
  BY <1>6 DEF RunEnds, JobInv, FilesInv, PlansInv, TruePacket, BundleAgrees, Written, EarnedPlan
<1>7. ASSUME NEW o \in Options, Plan(o) PROVE GateInv'
  <2>1. /\ files.packet # NoPacket
        /\ plans' = plans \cup {BuildPlan(files.packet, o)} /\ UNCHANGED <<job, files>>
    BY <1>7 DEF Plan
  <2>2. EarnedPlan(BuildPlan(files.packet, o))
    BY <2>1, PlanEarned DEF FilesInv
  <2>3. \A p \in plans' : EarnedPlan(p)
    BY <2>1, <2>2 DEF PlansInv
  <2>4. PlansInv'
    BY <2>3 DEF PlansInv, EarnedPlan
  <2> QED
    BY <2>1, <2>4 DEF JobInv, FilesInv, TruePacket, BundleAgrees, Written
<1>8. CASE UNCHANGED gateVars
  BY <1>8 DEF gateVars, JobInv, FilesInv, PlansInv, TruePacket, BundleAgrees, Written, EarnedPlan
<1> QED
  BY <1>1, <1>2, <1>3, <1>4, <1>5, <1>6, <1>7, <1>8 DEF GateNext

LEMMA GateInvariance == GateSpec => []GateInv
BY GateInitial, GateInductive, PTL DEF GateSpec

(***************************************************************************)
(* A plan is earned: it passes only on a packet all of whose gates passed, *)
(* and a failed gate is never left to an operator's override, whatever     *)
(* the gates, the options and the order of reviews, rehearsals and plans   *)
(* (execution-orchestrator.ts buildPlan).                                  *)
(***************************************************************************)
THEOREM PlanSafety == GateSpec => []PlanIsEarned
<1>1. GateInv => PlanIsEarned
  BY DEF GateInv, PlansInv, EarnedPlan, PlanIsEarned
<1> QED
  BY <1>1, GateInvariance, PTL

(***************************************************************************)
(* The bundle on disk tells one decision whenever no rehearsal is under    *)
(* way and the last one was not cut short, after any number of rehearsals  *)
(* into one directory (approval-rehearsal.ts runApprovalRehearsal).        *)
(***************************************************************************)
THEOREM BundleSafety == GateSpec => []BundleAgrees
BY GateInvariance, PTL DEF GateInv

-----------------------------------------------------------------------------
(***************************************************************************)
(* What a capsule says of its packet, its reasons and its key.             *)
(***************************************************************************)
PacketKeyed(p) == p.dedupeKey \in {GivenKey, DefaultKey(p.targetRepo, p.decision)}

CapsuleInv(c) ==
  /\ PacketKeyed(c.packet)
  /\ c.status = IF c.reasons = {} THEN "ready_for_operator_approval" ELSE "blocked"
  /\ c.reasons \subseteq {"not_go", "no_manifest", "no_history", "mismatch"}
  /\ "not_go" \in c.reasons <=> c.packet.decision # "GO_CANDIDATE"
  /\ \E m, h, mode :
       /\ c.idempotencyKey = <<c.packet.targetRepo, c.packet.dedupeKey, m, h, mode>>
       /\ "no_manifest" \in c.reasons <=> m = 0
       /\ "no_history" \in c.reasons <=> h = NoProfile

CapsulesInv == PacketKeyed(packet) /\ \A c \in capsules : CapsuleInv(c)

LEMMA CapsuleFacts ==
  ASSUME NEW mode, NEW form, PacketKeyed(packet)
  PROVE  CapsuleInv(Capsule(mode, form))
<1> DEFINE c == Capsule(mode, form)
<1>1. /\ c.packet = packet /\ c.reasons = Reasons(form)
      /\ c.idempotencyKey = PlanSeed(mode)
      /\ c.status = IF Reasons(form) = {} THEN "ready_for_operator_approval" ELSE "blocked"
  BY DEF Capsule
<1>2. /\ Reasons(form) \subseteq {"not_go", "no_manifest", "no_history", "mismatch"}
      /\ "not_go" \in Reasons(form) <=> packet.decision # "GO_CANDIDATE"
      /\ "no_manifest" \in Reasons(form) <=> manifest = 0
      /\ "no_history" \in Reasons(form) <=> profile = NoProfile
  BY DEF Reasons
<1>3. PlanSeed(mode) = <<packet.targetRepo, packet.dedupeKey, manifest, profile, mode>>
  BY DEF PlanSeed
<1> HIDE DEF c
<1>4. \E m, h, md :
        /\ c.idempotencyKey = <<c.packet.targetRepo, c.packet.dedupeKey, m, h, md>>
        /\ "no_manifest" \in c.reasons <=> m = 0
        /\ "no_history" \in c.reasons <=> h = NoProfile
  <2> WITNESS manifest, profile, mode
  <2> QED
    BY <1>1, <1>2, <1>3
<1>5. CapsuleInv(c)
  BY <1>1, <1>2, <1>4 DEF CapsuleInv
<1> QED
  BY <1>5 DEF c

LEMMA ApprovedIsKeyed ==
  ASSUME NEW repo, NEW decision, NEW given
  PROVE  PacketKeyed(ApprovalPacket(repo, decision, given))
BY DEF PacketKeyed, ApprovalPacket

LEMMA PreflightInductive == CapsulesInv /\ [PreflightNext]_preflightVars => CapsulesInv'
<1> SUFFICES ASSUME CapsulesInv, [PreflightNext]_preflightVars
             PROVE  CapsulesInv'
  OBVIOUS
<1>1. ASSUME NEW mode \in Modes, NEW form \in DigestForms, BuildPreflight(mode, form)
      PROVE  CapsulesInv'
  <2>1. capsules' = capsules \cup {Capsule(mode, form)} /\ packet' = packet
    BY <1>1 DEF BuildPreflight
  <2>2. CapsuleInv(Capsule(mode, form))
    BY CapsuleFacts DEF CapsulesInv
  <2> QED
    BY <2>1, <2>2 DEF CapsulesInv
<1>2. ASSUME NEW repo, NEW decision, NEW given, Approve(repo, decision, given)
      PROVE  CapsulesInv'
  <2>1. capsules' = capsules /\ packet' = ApprovalPacket(repo, decision, given)
    BY <1>2 DEF Approve
  <2> QED
    BY <2>1, ApprovedIsKeyed DEF CapsulesInv
<1>3. CASE UNCHANGED <<packet, capsules>>
  BY <1>3 DEF CapsulesInv
<1> QED
  BY <1>1, <1>2, <1>3 DEF PreflightNext, preflightVars, ReplaceManifest, HistoryGrows, Scan

(***************************************************************************)
(* Two capsules of one key bind the same packet key, manifest and history, *)
(* so that what is left to tell their verdicts apart is the digest that    *)
(* was expected, or the decision when it is not in the key.                *)
(***************************************************************************)
LEMMA OneKeyOneVerdict ==
  ASSUME NEW c, NEW d, CapsuleInv(c), CapsuleInv(d),
         c.idempotencyKey = d.idempotencyKey,
         "mismatch" \notin c.reasons, "mismatch" \notin d.reasons
  PROVE  \/ c.status = d.status
         \/ c.packet.dedupeKey = GivenKey /\ c.packet.decision # d.packet.decision
<1>1. PICK m, h, mode :
        /\ c.idempotencyKey = <<c.packet.targetRepo, c.packet.dedupeKey, m, h, mode>>
        /\ "no_manifest" \in c.reasons <=> m = 0
        /\ "no_history" \in c.reasons <=> h = NoProfile
  BY DEF CapsuleInv
<1>2. PICK n, k, md :
        /\ d.idempotencyKey = <<d.packet.targetRepo, d.packet.dedupeKey, n, k, md>>
        /\ "no_manifest" \in d.reasons <=> n = 0
        /\ "no_history" \in d.reasons <=> k = NoProfile
  BY DEF CapsuleInv
<1>3. c.packet.dedupeKey = d.packet.dedupeKey /\ m = n /\ h = k
  <2>1. <<c.packet.targetRepo, c.packet.dedupeKey, m, h, mode>>
          = <<d.packet.targetRepo, d.packet.dedupeKey, n, k, md>>
    BY <1>1, <1>2
  <2> QED
    BY <2>1
<1>4. CASE c.packet.decision = d.packet.decision
  <2>1. \A why \in {"not_go", "no_manifest", "no_history", "mismatch"} :
          why \in c.reasons <=> why \in d.reasons
    BY <1>1, <1>2, <1>3, <1>4 DEF CapsuleInv
  <2>2. c.reasons = d.reasons
    BY <2>1 DEF CapsuleInv
  <2> QED
    BY <2>2 DEF CapsuleInv
<1>5. CASE c.packet.decision # d.packet.decision
  <2>1. DefaultKey(c.packet.targetRepo, c.packet.decision)
          # DefaultKey(d.packet.targetRepo, d.packet.decision)
    BY <1>5 DEF DefaultKey
  <2>2. GivenKey # DefaultKey(d.packet.targetRepo, d.packet.decision)
    BY DEF GivenKey, DefaultKey
  <2> QED
    BY <1>3, <1>5, <2>1, <2>2 DEF CapsuleInv, PacketKeyed
<1> QED
  BY <1>4, <1>5

(***************************************************************************)
(* A replay keeps its verdict, for any number of manifests, runs, scans,   *)
(* approvals and capsules in any order (source-public-preflight.ts         *)
(* buildSourcePublicExecutionPreflight).                                   *)
(***************************************************************************)
THEOREM ReplaySafety == PreflightSpec => []ReplayKeepsVerdict
<1>1. PreflightInit => CapsulesInv
  <2> SUFFICES ASSUME PreflightInit PROVE CapsulesInv
    OBVIOUS
  <2>1. PacketKeyed(packet) /\ capsules = {}
    BY ApprovedIsKeyed DEF PreflightInit
  <2> QED
    BY <2>1 DEF CapsulesInv
<1>2. CapsulesInv => ReplayKeepsVerdict
  <2> SUFFICES ASSUME CapsulesInv, NEW c \in capsules, NEW d \in capsules,
                      c.idempotencyKey = d.idempotencyKey,
                      "mismatch" \notin c.reasons, "mismatch" \notin d.reasons
               PROVE  \/ c.status = d.status
                      \/ c.packet.dedupeKey = GivenKey /\ c.packet.decision # d.packet.decision
    BY DEF ReplayKeepsVerdict
  <2> QED
    BY OneKeyOneVerdict DEF CapsulesInv
<1> QED
  BY <1>1, <1>2, PreflightInductive, PTL DEF PreflightSpec
=============================================================================
