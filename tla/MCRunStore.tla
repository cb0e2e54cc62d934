----------------------------- MODULE MCRunStore -----------------------------
(* RunStore for TLC: cleanup with two runs of two tasks or of one, the     *)
(* scan with one run.                                                      *)
EXTENDS RunStore, TLC

CONSTANTS r1, r2

BothRuns == {r1, r2}
OneEach == {f \in [BothRuns -> {"t1", "t2"}] : f[r1] # f[r2]}
SameTask == {[r \in BothRuns |-> "t1"]}

Cleaned == [task : OneEach \cup SameTask, runs : {BothRuns}, calls : {{"cleanup"}}]
Scanned == [task : SameTask, runs : {{r1}, {r2}}, calls : {{"scan"}}]
EverySetting == Cleaned \cup Scanned
Symmetry == Permutations(BothRuns)
=============================================================================
