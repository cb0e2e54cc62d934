---------------------------- MODULE ApprovalGate ----------------------------
(***************************************************************************)
(* From a rehearsal to a plan.  A rehearsal (approval-rehearsal.ts) judges *)
(* the safety gates by the operator's review and writes an evidence bundle *)
(* and, last, a packet.  The orchestrator (execution-orchestrator.ts) makes *)
(* of the packet on disk a plan with a preflight and a simulation, bound   *)
(* to a snapshot of the history of runs, which goes on growing.  Nothing   *)
(* is ever executed: what counts is which plans say they passed.           *)
(***************************************************************************)
EXTENDS Naturals, Sequences, FiniteSets, SequencesExt

CONSTANTS
  SoftGates,   \* gates an operator may approve a failure of
  HardGates,   \* the gates computeDecision and P5 name
  Requests,    \* rehearsals asked for: run, trace, repo, branch (or "main")
  Options,     \* how plans are asked for
  NoPacket,
  MaxHistory,  \* bound: runs in the history
  MaxPlans     \* bound: plans made

Gates == SoftGates \cup HardGates

ASSUME GateAssumption ==
  /\ SoftGates \cap HardGates = {}
  /\ Requests \subseteq [run: STRING, trace: STRING, repo: STRING, branch: STRING]
  /\ Options \subseteq [run: STRING, trace: STRING, replay: Nat,
                        requireGoCandidate: BOOLEAN, bound: BOOLEAN, issueUrl: BOOLEAN]
  /\ {MaxHistory, MaxPlans} \subseteq Nat

VARIABLES
  review,   \* operatorGateResults: what the operator said of each gate
  job,      \* the rehearsal under way
  files,    \* the output directory: the decision each file tells, the packet
  history,  \* the decision in each run's manifest, oldest first
  binding,  \* the last scanner binding made
  plans     \* the plans made

gateVars == <<review, job, files, history, binding, plans>>

Decisions == {"GO_CANDIDATE", "NO_GO", "NEEDS_OPERATOR_APPROVAL"}
Files == <<"summary", "gates", "manifest", "packet">>

(***************************************************************************)
(* The rehearsal.  A gate the operator said nothing of passes.             *)
(***************************************************************************)
SafetyGates(said) == [g \in Gates |-> said[g] # "failed"]
FailedGates(gates) == {g \in Gates : ~gates[g]}

ComputeDecision(gates) ==
  IF FailedGates(gates) = {} THEN "GO_CANDIDATE"
  ELSE IF FailedGates(gates) \cap HardGates # {} THEN "NO_GO"
  ELSE "NEEDS_OPERATOR_APPROVAL"

\* Neither repository nor branch is part of the key.
DedupeKey(q) == <<q.run, q.trace>>

Packet(q, gates) ==
  [request |-> q, gates |-> gates, decision |-> ComputeDecision(gates),
   dedupeKey |-> DedupeKey(q)]

Idle == [at |-> 0, packet |-> NoPacket]

GateInit ==
  /\ review = [g \in Gates |-> "unset"]
  /\ job = Idle
  /\ files = [summary |-> "none", gates |-> "none", manifest |-> "none",
              packet |-> NoPacket]
  /\ history = <<>> /\ binding = <<>> /\ plans = {}

\* The operator reviews a gate, at any time.
Review(g, verdict) ==
  /\ review' = [review EXCEPT ![g] = verdict]
  /\ UNCHANGED <<job, files, history, binding, plans>>

\* A rehearsal that was cut short (5) may be followed by another.
Rehearse(q) ==
  /\ job.at \in {0, 5}
  /\ job' = [at |-> 1, packet |-> Packet(q, SafetyGates(review))]
  /\ UNCHANGED <<review, files, history, binding, plans>>

(***************************************************************************)
(* The files are written one after the other, the packet last.             *)
(***************************************************************************)
\* Mutant: a packet is only written for a decision that may go on.
Bug_NoPacketOfNoGo ==
  /\ job.at \in 1..4
  /\ files' = IF job.at < 4
              THEN [files EXCEPT ![Files[job.at]] = job.packet.decision]
              ELSE IF job.packet.decision = "NO_GO" THEN files
              ELSE [files EXCEPT !.packet = job.packet]
  /\ job' = IF job.at = 4 THEN Idle ELSE [job EXCEPT !.at = @ + 1]
  /\ UNCHANGED <<review, history, binding, plans>>

WriteFile ==
  /\ job.at \in 1..4
  /\ files' = IF job.at = 4 THEN [files EXCEPT !.packet = job.packet]
              ELSE [files EXCEPT ![Files[job.at]] = job.packet.decision]
  /\ job' = IF job.at = 4 THEN Idle ELSE [job EXCEPT !.at = @ + 1]
  /\ UNCHANGED <<review, history, binding, plans>>

\* The process dies, or a write fails.
Crash ==
  /\ job.at \in 1..4
  /\ job' = [job EXCEPT !.at = 5]
  /\ UNCHANGED <<review, files, history, binding, plans>>

(***************************************************************************)
(* The history and its binding.  A digest is what it is the digest of.     *)
(***************************************************************************)
RunEnds(decision) ==
  /\ Len(history) < MaxHistory
  /\ history' = Append(history, decision)
  /\ UNCHANGED <<review, job, files, binding, plans>>

BindScannerHistory ==
  /\ binding' = history
  /\ UNCHANGED <<review, job, files, history, plans>>

(***************************************************************************)
(* buildPlannedActions: what is planned, whether it is held back, and      *)
(* whether the action's own checks hold.                                   *)
(***************************************************************************)
Action(kind, checked) == [kind |-> kind, status |-> "blocked", checked |-> checked]

PlannedActions(packet, o) ==
  <<Action("scan_bind", o.bound), Action("artifact_write", TRUE)>>
  \o (IF packet.request.branch = "main" THEN <<>> ELSE <<Action("branch_create", TRUE)>>)
  \o <<Action("pr_create", TRUE), Action("comment_post", o.issueUrl)>>

(***************************************************************************)
(* runPreflight.  A missing binding was replaced by an empty one before,   *)
(* so that P4, and every action having checks (P6), always hold.           *)
(***************************************************************************)
AllGated(actions) ==
  \A i \in DOMAIN actions : actions[i].status \in {"blocked", "pending_operator_approval"}

\* Mutant: only the hard gates are looked at again.
Bug_HardOnly(actions, packet) ==
  {id \in {"plan_has_actions", "all_actions_gated", "no_hard_blockers"} :
     CASE id = "plan_has_actions" -> actions = <<>>
       [] id = "all_actions_gated" -> ~AllGated(actions)
       [] id = "no_hard_blockers" -> FailedGates(packet.gates) \cap HardGates # {}}

FailedChecks(actions, packet) ==
  {id \in {"plan_has_actions", "all_actions_gated", "packet_is_go_candidate",
           "all_safety_gates_passed", "no_hard_blockers"} :
     CASE id = "plan_has_actions"        -> actions = <<>>
       [] id = "all_actions_gated"       -> ~AllGated(actions)
       [] id = "packet_is_go_candidate"  -> packet.decision # "GO_CANDIDATE"
       [] id = "all_safety_gates_passed" -> FailedGates(packet.gates) # {}
       [] id = "no_hard_blockers" -> FailedGates(packet.gates) \cap HardGates # {}}

FailureSemantics(failed) ==
  IF failed \cap {"plan_has_actions", "all_actions_gated",
                  "packet_is_go_candidate", "no_hard_blockers"} # {}
  THEN "abort_and_report" ELSE "needs_operator_override"

Simulate(actions, passed) ==
  /\ passed
  /\ \A i \in DOMAIN actions : actions[i].status = "blocked"

PlanId(packet, o) == <<packet.request.run, packet.dedupeKey, o.run, o.replay>>
PlanKey(packet, o) == <<packet.dedupeKey, o.run, o.trace, o.replay>>

\* buildBlockedPlan: no actions, and one failed check.
BlockedPlan(packet, o) ==
  [planId |-> PlanId(packet, o), dedupeKey |-> PlanKey(packet, o),
   packet |-> packet, options |-> o, actions |-> <<>>, history |-> <<>>,
   passed |-> FALSE, semantics |-> "abort_and_report", ok |-> FALSE]

BuildPlan(packet, o) ==
  LET actions == PlannedActions(packet, o)
      failed  == FailedChecks(actions, packet)
  IN IF o.requireGoCandidate /\ packet.decision # "GO_CANDIDATE"
     THEN BlockedPlan(packet, o)
     ELSE [planId |-> PlanId(packet, o), dedupeKey |-> PlanKey(packet, o),
           packet |-> packet, options |-> o, actions |-> actions,
           history |-> IF o.bound THEN binding ELSE <<>>,
           passed |-> failed = {}, semantics |-> FailureSemantics(failed),
           ok |-> Simulate(actions, failed = {})]

Plan(o) ==
  /\ files.packet # NoPacket
  /\ Cardinality(plans) < MaxPlans
  /\ plans' = plans \cup {BuildPlan(files.packet, o)}
  /\ UNCHANGED <<review, job, files, history, binding>>

GateNext ==
  \/ WriteFile \/ Crash \/ BindScannerHistory
  \/ \E g \in Gates, verdict \in {"passed", "failed"} : Review(g, verdict)
  \/ \E q \in Requests : Rehearse(q)
  \/ \E d \in Decisions \cup {"none"} : RunEnds(d)
  \/ \E o \in Options : Plan(o)

GateSpec == GateInit /\ [][GateNext]_gateVars
-----------------------------------------------------------------------------
(***************************************************************************)
(* Properties.                                                             *)
(***************************************************************************)
\* A plan passes its preflight only on a packet all of whose gates passed,
\* and its simulation says ok just when it passed, whatever the options and
\* whenever the review changed; a failed gate can never be overridden: a
\* plan of such a packet aborts (execution-orchestrator.ts buildPlan).
PlanIsEarned ==
  \A p \in plans :
    /\ p.passed => \A g \in Gates : p.packet.gates[g]
    /\ (\E g \in Gates : ~p.packet.gates[g]) => p.semantics = "abort_and_report"
    /\ p.ok <=> p.passed

\* When no rehearsal is under way and the last one was not cut short, the
\* packet and the evidence beside it tell one decision, also after many
\* rehearsals into one directory (approval-rehearsal.ts runApprovalRehearsal).
BundleAgrees ==
  job.at = 0 /\ files.packet # NoPacket =>
    \A f \in {"summary", "gates", "manifest"} : files[f] = files.packet.decision
=============================================================================
