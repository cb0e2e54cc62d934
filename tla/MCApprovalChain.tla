-------------------------- MODULE MCApprovalChain ---------------------------
(* ApprovalGate and ExecutionPreflight for TLC.  The two ways from an      *)
(* approval to a plan share no state, and each property speaks of one of   *)
(* them, so that it is enough to let one of them move in a behaviour.      *)
EXTENDS ApprovalGate, ExecutionPreflight

VARIABLE part  \* the module whose steps this behaviour takes

mcVars == <<part, gateVars, preflightVars>>

MCInit == part \in {"gate", "preflight"} /\ GateInit /\ PreflightInit

GateMoves      == part = "gate" /\ GateNext /\ UNCHANGED <<part, preflightVars>>
PreflightMoves == part = "preflight" /\ PreflightNext /\ UNCHANGED <<part, gateVars>>

MCNext == GateMoves \/ PreflightMoves

MCSpec == MCInit /\ [][MCNext]_mcVars

Soft == {"no_production_deploy"}
Hard == {"no_approval_execution"}
OneRequest == {[run |-> "run1", trace |-> "", repo |-> "o/a", branch |-> "topic"]}

Option(go, bound, issue, replay) ==
  [run |-> "plan1", trace |-> "", replay |-> replay,
   requireGoCandidate |-> go, bound |-> bound, issueUrl |-> issue]
SomeOptions == {Option(TRUE, TRUE, TRUE, 0), Option(FALSE, TRUE, TRUE, 0),
                Option(FALSE, FALSE, FALSE, 1)}

OneRepo == {"o/a"}
=============================================================================
