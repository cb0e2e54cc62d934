------------------------- MODULE ExecutionPreflight -------------------------
(***************************************************************************)
(* The preflight capsule (source-public-preflight.ts).  A packet is        *)
(* approved beside a manifest (runner.ts, buildSourcePublicApproval-       *)
(* Rehearsal); the manifest may be rewritten, put back or cleaned away,    *)
(* and runs go on, before a capsule is built from the packet, the manifest *)
(* that is there then, a scan profile, and perhaps the digest of the       *)
(* manifest the operator saw.  Each capsule has an idempotency key, by     *)
(* which a consumer takes two of them for one.  A digest stands for what   *)
(* it is the digest of, and a key for what it is made from.                *)
(***************************************************************************)
EXTENDS Naturals, FiniteSets

CONSTANTS
  Repos,
  MaxManifest,  \* bound: the manifests there may be, 1 to MaxManifest
  MaxRuns,      \* bound: runs that end
  MaxCapsules   \* bound: capsules built

ASSUME PreflightAssumption == {MaxManifest, MaxRuns, MaxCapsules} \subseteq Nat

VARIABLES
  packet,     \* the approved packet
  approved,   \* the manifest the operator saw with it; 0 is none
  manifest,   \* the manifest that is there; 0 is none
  runs,       \* how many runs there have been
  profile,    \* the scan profile at hand, by the runs in it; NoProfile is none
  capsules    \* the capsules built

preflightVars == <<packet, approved, manifest, runs, profile, capsules>>

PacketDecisions == {"GO_CANDIDATE", "NO_GO", "NEEDS_OPERATOR_APPROVAL"}
Modes == {"dry_run", "simulate"}
NoProfile == MaxRuns + 1

\* expectedManifestDigest: as it should be, not 64 lower-case hexadecimal
\* digits (safeDigest drops it), or left out.
DigestForms == {"given", "malformed", "absent"}

(***************************************************************************)
(* buildSourcePublicApprovalRehearsal without a packetId.  The dedupe key  *)
(* may be given; by default it names the decision, too.                    *)
(***************************************************************************)
GivenKey == <<"given">>

DefaultKey(repo, decision) == <<repo, decision>>

ApprovalPacket(repo, decision, given) ==
  [targetRepo |-> repo, decision |-> decision,
   dedupeKey |-> IF given THEN GivenKey ELSE DefaultKey(repo, decision)]

PreflightInit ==
  /\ packet \in {ApprovalPacket(repo, "NEEDS_OPERATOR_APPROVAL", FALSE) : repo \in Repos}
  /\ approved = 0 /\ manifest = 0
  /\ runs = 0 /\ profile = NoProfile /\ capsules = {}

Approve(repo, decision, given) ==
  /\ packet' = ApprovalPacket(repo, decision, given) /\ approved' = manifest
  /\ UNCHANGED <<manifest, runs, profile, capsules>>

\* A manifest is written, or one that was there before is put back; 0: it
\* is cleaned away.
ReplaceManifest ==
  /\ manifest' \in (0..MaxManifest) \ {manifest}
  /\ UNCHANGED <<packet, approved, runs, profile, capsules>>

HistoryGrows ==
  /\ runs < MaxRuns /\ runs' = runs + 1
  /\ UNCHANGED <<packet, approved, manifest, profile, capsules>>

Scan ==
  /\ profile' = runs
  /\ UNCHANGED <<packet, approved, manifest, runs, capsules>>

(***************************************************************************)
(* buildSourcePublicExecutionPreflight.  An expected digest counts only    *)
(* when the operator saw a manifest and it is well-formed.                 *)
(***************************************************************************)
Expected(form) == form = "given" /\ approved # 0

Reasons(form) ==
  {why \in {"not_go", "no_manifest", "no_history", "mismatch"} :
     CASE why = "not_go"      -> packet.decision # "GO_CANDIDATE"
       [] why = "no_manifest" -> manifest = 0
       [] why = "no_history"  -> profile = NoProfile
       [] why = "mismatch"    -> Expected(form) /\ manifest # approved}

\* Mutant: the scan profile is left out of the key.
Bug_KeyWithoutHistory(mode) ==
  <<packet.targetRepo, packet.dedupeKey, manifest, 0, mode>>

\* What the fingerprint, and so the idempotency key, is made from: neither
\* the decision nor the digest the operator expects is part of it.
PlanSeed(mode) ==
  <<packet.targetRepo, packet.dedupeKey, manifest, profile, mode>>

Capsule(mode, form) ==
  [packet |-> packet, reasons |-> Reasons(form),
   status |-> IF Reasons(form) = {} THEN "ready_for_operator_approval" ELSE "blocked",
   idempotencyKey |-> PlanSeed(mode)]

\* A capsule passes its own sanitizer: it is ready just when it has no reason.
BuildPreflight(mode, form) ==
  /\ Cardinality(capsules) < MaxCapsules
  /\ capsules' = capsules \cup {Capsule(mode, form)}
  /\ UNCHANGED <<packet, approved, manifest, runs, profile>>

PreflightNext ==
  \/ ReplaceManifest \/ HistoryGrows \/ Scan
  \/ \E repo \in Repos, d \in PacketDecisions, given \in BOOLEAN : Approve(repo, d, given)
  \/ \E mode \in Modes, form \in DigestForms : BuildPreflight(mode, form)

PreflightSpec == PreflightInit /\ [][PreflightNext]_preflightVars
-----------------------------------------------------------------------------
(***************************************************************************)
(* Properties.                                                             *)
(***************************************************************************)
\* A replay keeps its verdict: two capsules a consumer takes for one by their
\* idempotency key are both ready or both blocked, however packet, manifest
\* and history moved on between them.  Two things the key leaves out make the
\* exceptions: the digest the operator expected, and the decision of packets
\* whose dedupe key was given (source-public-preflight.ts planSeed).
ReplayKeepsVerdict ==
  \A c, d \in capsules : c.idempotencyKey = d.idempotencyKey =>
    \/ c.status = d.status
    \/ "mismatch" \in c.reasons \cup d.reasons
    \/ c.packet.dedupeKey = GivenKey /\ c.packet.decision # d.packet.decision
=============================================================================
