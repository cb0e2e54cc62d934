-------------------------- MODULE DeployedRevision --------------------------
(***************************************************************************)
(* The deployed revision of the runner checkout: checkDeployedRevision     *)
(* (ops.ts).  It runs git several times, each call with a timeout, while a *)
(* deploy, an edit or a push to main may come in between.                  *)
(***************************************************************************)
EXTENDS Naturals

CONSTANT MaxCommits  \* bound: commits of upstream main

ASSUME RevisionAssumption == MaxCommits \in Nat \ {0}

VARIABLES
  deployed,  \* the checkout: HEAD, branch, files git status names, origin/main as last fetched
  main,      \* the last commit of upstream main
  online,    \* does the remote answer
  slow,      \* does git status exceed its timeout
  doctor,    \* what checkDeployedRevision has read so far
  verdict    \* its last verdict

revisionVars == <<deployed, main, online, slow, doctor, verdict>>

\* The commits of main are numbered; one more was made locally.
Local == MaxCommits + 1
NoCommit == 0

\* Porcelain lines: .deploy-source-sha and any other file.
Files == {"marker", "source"}
Branches == {"main", "feature", "detached"}

NoDoctor == [pc |-> "idle", head |-> NoCommit, branch |-> "detached", dirty |-> FALSE]
NoVerdict == [status |-> "none", head |-> NoCommit, branch |-> "detached"]

----------------------------------------------------------------------------
(* The checkout and its upstream.                                          *)

Push ==
  /\ main < MaxCommits /\ main' = main + 1
  /\ UNCHANGED <<deployed, online, slow, doctor, verdict>>

Fetch ==
  /\ online /\ deployed' = [deployed EXCEPT !.tracking = main]
  /\ UNCHANGED <<main, online, slow, doctor, verdict>>

Deploy ==
  /\ deployed.tracking # NoCommit
  /\ deployed' = [deployed EXCEPT !.head = deployed.tracking, !.branch = "main", !.files = {"marker"}]
  /\ UNCHANGED <<main, online, slow, doctor, verdict>>

CommitLocally ==
  /\ \E branch \in Branches :
       deployed' = [deployed EXCEPT !.head = Local, !.branch = branch, !.files = @ \ {"source"}]
  /\ UNCHANGED <<main, online, slow, doctor, verdict>>

Edit ==
  /\ deployed' = [deployed EXCEPT !.files = @ \cup {"source"}]
  /\ UNCHANGED <<main, online, slow, doctor, verdict>>

Weather ==
  /\ online' \in BOOLEAN /\ slow' \in BOOLEAN /\ <<online, slow>>' # <<online, slow>>
  /\ UNCHANGED <<deployed, main, doctor, verdict>>

----------------------------------------------------------------------------
(* checkDeployedRevision, one git call at a time.                          *)

ReadHead ==
  /\ doctor.pc = "idle"
  /\ doctor' = [NoDoctor EXCEPT !.pc = "branch", !.head = deployed.head]
  /\ UNCHANGED <<deployed, main, online, slow, verdict>>

ReadBranch ==
  /\ doctor.pc = "branch"
  /\ doctor' = [doctor EXCEPT !.pc = "status", !.branch = deployed.branch]
  /\ UNCHANGED <<deployed, main, online, slow, verdict>>

\* A git status that timed out printed nothing.
Porcelain == IF slow THEN {} ELSE deployed.files

ReadStatus ==
  /\ doctor.pc = "status"
  /\ doctor' = [doctor EXCEPT !.pc = "upstream", !.dirty = Porcelain \ {"marker"} # {}]
  /\ UNCHANGED <<deployed, main, online, slow, verdict>>

\* resolveUpstreamMainSha: git ls-remote, else what was last fetched.
UpstreamMain == IF online THEN main ELSE deployed.tracking

Bug_UpstreamIsOptional(head, branch, dirty, upstream) ==
  dirty \/ branch # "main" \/ (upstream # NoCommit /\ upstream # head)
NeedsReview(head, branch, dirty, upstream) ==
  dirty \/ branch # "main" \/ upstream = NoCommit \/ upstream # head

Judge ==
  /\ doctor.pc = "upstream"
  /\ verdict' = [status |-> IF NeedsReview(doctor.head, doctor.branch, doctor.dirty, UpstreamMain)
                             THEN "warn" ELSE "ok",
                head |-> doctor.head, branch |-> doctor.branch]
  /\ doctor' = NoDoctor
  /\ UNCHANGED <<deployed, main, online, slow>>

RevisionInit ==
  /\ deployed = [head |-> 1, branch |-> "main", files |-> {}, tracking |-> NoCommit]
  /\ main = 1 /\ online \in BOOLEAN /\ slow = FALSE
  /\ doctor = NoDoctor /\ verdict = NoVerdict

RevisionNext ==
  \/ Push \/ Fetch \/ Deploy \/ CommitLocally \/ Edit \/ Weather
  \/ ReadHead \/ ReadBranch \/ ReadStatus \/ Judge

RevisionSpec == RevisionInit /\ [][RevisionNext]_revisionVars
-----------------------------------------------------------------------------
(***************************************************************************)
(* Properties.                                                             *)
(***************************************************************************)
(* An ok revision was upstream's: whatever happened between the git calls  *)
(* of the doctor and whether or not the remote answered, the head it       *)
(* reports is a commit of upstream main, never one made locally.           *)
OkWasUpstream ==
  verdict.status = "ok" => verdict.head \in 1..main /\ verdict.branch = "main"
=============================================================================
