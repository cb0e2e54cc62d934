----------------------------- MODULE HistoryScan -----------------------------
(***************************************************************************)
(* What is made of the history of runs (scanner.ts): the scan profile, the *)
(* readiness report and, from it, the cleanup plan an operator approves.   *)
(* Between two of them runs come, end, age and go.  RunStore looks inside  *)
(* one walk of the directory, here a walk is a step.                       *)
(***************************************************************************)
EXTENDS Naturals, FiniteSets, Sequences, SequencesExt

CONSTANTS
  Tasks,       \* the names of task directories, in their order
  Tokens,      \* run tokens, in their order, which is that of time
  Limits,      \* the limits given; 0 is none
  DefaultLimit,
  MaxOld       \* bound: the age of a run, in steps of the thresholds

ASSUME ScanAssumption ==
  /\ {Tasks, Tokens, Limits, {DefaultLimit, MaxOld}} \subseteq SUBSET Nat
  /\ 0 \notin Tasks /\ {0, 1} \cap Tokens = {}

VARIABLES
  runs,      \* the run directories
  roots,     \* the task directories
  sealed,    \* those of them that cannot be listed
  profile,   \* the scan profile that was just printed
  plans      \* the cleanup plan that was, if one was

scanVars == <<runs, roots, sealed, profile, plans>>

Statuses == {"done", "failed", "budget_limited"}

\* json: whether run.json is there and can be read; manifest: its status, or
\* "none" when it cannot be read; old: 0 is younger than the stale threshold, 2 is older than
\* seven days.
RunRecords == [task : Tasks, token : Tokens, json : BOOLEAN,
               manifest : Statuses \cup {"none"}, old : 0..MaxOld]

NoProfile == [total |-> 0, runs |-> << >>]

\* A limit that is not positive is the default one.
Limited(limit) == IF limit > 0 THEN limit ELSE DefaultLimit

Cut(seq, n) == SubSeq(seq, 1, IF n < Len(seq) THEN n ELSE Len(seq))

\* The members of a set, in an order of theirs.
Sorted(S, Before(_, _)) ==
  CHOOSE seq \in [1..Cardinality(S) -> S] :
    \A i, j \in DOMAIN seq : i < j => Before(seq[i], seq[j])

\* Task directories in order, and in each its runs.
WalkOrder(a, b) ==
  \/ a.task < b.task
  \/ a.task = b.task /\ a.token < b.token

\* A stable sort by the run token.
ByToken(seq) ==
  LET token == [i \in DOMAIN seq |-> seq[i].token]
      Earlier(i, j) == token[i] < token[j] \/ (token[i] = token[j] /\ i < j)
      order == Sorted(DOMAIN seq, Earlier)
  IN  [i \in DOMAIN seq |-> seq[order[i]]]

\* The runs a walk comes to.
Listed == {r \in runs : r.task \notin sealed}

(***************************************************************************)
(* scanHistory and buildScanRunEntry: the first entries of the walk that   *)
(* are old enough, sorted afterwards.  run.json holds neither an exit code *)
(* nor a timeout, so a status can only come from the manifest.             *)
(***************************************************************************)
ScanStatus(r) == IF r.manifest = "none" THEN "unknown" ELSE r.manifest

ScanEntry(r) ==
  [task |-> r.task, token |-> r.token, dated |-> r.json, status |-> ScanStatus(r)]

\* Mutant: a run that is too young uses up the limit.
Bug_CutFirst(limit, minOld) ==
  LET walked == Cut(Sorted(Listed, WalkOrder), Limited(limit))
      kept == SelectSeq(walked, LAMBDA r : r.old >= minOld)
  IN  [total |-> Cardinality(Listed),
       runs |-> ByToken([i \in DOMAIN kept |-> ScanEntry(kept[i])])]

ScanHistory(limit, minOld) ==
  LET walked == Sorted({r \in Listed : r.old >= minOld}, WalkOrder)
      kept == Cut(walked, Limited(limit))
  IN  [total |-> Cardinality(Listed),
       runs |-> ByToken([i \in DOMAIN kept |-> ScanEntry(kept[i])])]

(***************************************************************************)
(* readinessScan.  A task directory without runs, or one that cannot be    *)
(* listed, is an entry of its own.                                         *)
(* Beyond the limit runs are no longer looked at, and not counted as stale *)
(* or malformed; orphans are.                                              *)
(***************************************************************************)
TerminalStatus(m) == m \in {"done", "failed"}

ReadinessStatus(r) ==
  IF ~r.json \/ r.manifest = "none" THEN "malformed"
  ELSE IF ~TerminalStatus(r.manifest) /\ r.old > 0 THEN "stale" ELSE "ok"

Orphans == {t \in roots : \A r \in Listed : r.task # t}

RunEntry(r) ==
  [task |-> r.task, token |-> r.token, old |-> r.old, status |-> ReadinessStatus(r),
   terminal |-> TerminalStatus(r.manifest)]

\* "<no-runs>" sorts before "<unreadable>", and that before every token.
OrphanEntry(t) ==
  [task |-> t, token |-> IF t \in sealed THEN 1 ELSE 0, old |-> 0, status |-> "orphan",
   terminal |-> FALSE]

\* Mutant: every run is looked at, whatever the limit.
Bug_CountAll(limit) ==
  LET all == Sorted({RunEntry(r) : r \in Listed} \cup {OrphanEntry(t) : t \in Orphans},
                    WalkOrder)
      Count(status) == Cardinality({i \in DOMAIN all : all[i].status = status})
  IN  [orphans |-> Cardinality(Orphans), stale |-> Count("stale"),
       malformed |-> Count("malformed"), entries |-> ByToken(Cut(all, Limited(limit)))]

ReadinessScan(limit) ==
  LET all == Sorted({RunEntry(r) : r \in Listed} \cup {OrphanEntry(t) : t \in Orphans},
                    WalkOrder)
      kept == Cut(all, Limited(limit))
      Count(status) == Cardinality({i \in DOMAIN kept : kept[i].status = status})
  IN  [orphans |-> Cardinality(Orphans), stale |-> Count("stale"),
       malformed |-> Count("malformed"), entries |-> ByToken(kept)]

(***************************************************************************)
(* buildCleanupDryRunPlan.  In an id the task's name is cut: names that    *)
(* are long and alike are the same in it (here, 2k and 2k + 1).            *)
(***************************************************************************)
ClassifyRisk(e) ==
  CASE e.status = "orphan"    -> "low"
    [] e.status = "stale"     -> IF e.old > 1 THEN "high" ELSE "medium"
    [] e.status = "malformed" -> IF e.terminal THEN "low" ELSE "medium"

ShortName(task) == task \div 2

CandidateId(e, i) == <<ShortName(e.task), e.token, i>>

IdOrder(p, q) ==
  \/ p.id[1] < q.id[1]
  \/ p.id[1] = q.id[1] /\ p.id[2] < q.id[2]
  \/ p.id[1] = q.id[1] /\ p.id[2] = q.id[2] /\ p.id[3] < q.id[3]

\* A candidate's id ends in its place among the candidates, so none is another's.
PlanEntries(rep) ==
  LET candidates == {i \in DOMAIN rep.entries : rep.entries[i].status # "ok"}
      Place(i) == Cardinality({j \in candidates : j <= i})
  IN  {[id |-> CandidateId(rep.entries[i], Place(i)), entry |-> rep.entries[i],
        risk |-> ClassifyRisk(rep.entries[i])] : i \in candidates}

PlanId(rep) == <<rep.stale, rep.malformed, rep.orphans>>

BuildCleanupDryRunPlan(rep, limit) ==
  [id |-> PlanId(rep), report |-> rep,
   entries |-> Cut(Sorted(PlanEntries(rep), IdOrder), Limited(limit))]

-----------------------------------------------------------------------------
Init == runs = {} /\ roots = {} /\ sealed = {} /\ profile = NoProfile /\ plans = {}

\* What was printed is looked at at once: a step of a run drops it.
Dropped == profile' = NoProfile /\ plans' = {}

\* A run makes its task's directory and its own, then writes run.json; without
\* it, it crashed before that or the file is damaged.
StartRun(t, k, json) ==
  /\ t \notin sealed /\ \A r \in runs : r.token # k
  /\ runs' = runs \cup {[task |-> t, token |-> k, json |-> json, manifest |-> "none",
                         old |-> 0]}
  /\ roots' = roots \cup {t}
  /\ UNCHANGED sealed /\ Dropped

\* A run may also stop between the two directories.
MakeTaskRoot(t) ==
  /\ roots' = roots \cup {t}
  /\ UNCHANGED <<runs, sealed>> /\ Dropped

\* The permissions of a task directory change.
Seal(t) ==
  /\ t \in roots
  /\ sealed' = IF t \in sealed THEN sealed \ {t} ELSE sealed \cup {t}
  /\ UNCHANGED <<runs, roots>> /\ Dropped

\* A run writes its manifest; run.json is what it was.
EndRun(r, status) ==
  /\ r \in runs /\ r.manifest = "none"
  /\ runs' = (runs \ {r}) \cup {[r EXCEPT !.manifest = status]}
  /\ UNCHANGED <<roots, sealed>> /\ Dropped

Grow(r) ==
  /\ r \in runs /\ r.old < MaxOld
  /\ runs' = (runs \ {r}) \cup {[r EXCEPT !.old = @ + 1]}
  /\ UNCHANGED <<roots, sealed>> /\ Dropped

RemoveRun(r) ==
  /\ r \in runs
  /\ runs' = runs \ {r}
  /\ UNCHANGED <<roots, sealed>> /\ Dropped

ScanProfile(limit, minOld) ==
  /\ profile' = ScanHistory(limit, minOld) /\ plans' = {}
  /\ UNCHANGED <<runs, roots, sealed>>

PlanCleanup(seen, limit) ==
  /\ plans' = {BuildCleanupDryRunPlan(ReadinessScan(seen), limit)} /\ profile' = NoProfile
  /\ UNCHANGED <<runs, roots, sealed>>

Next ==
  \/ \E t \in Tasks : MakeTaskRoot(t) \/ Seal(t)
  \/ \E t \in Tasks, k \in Tokens, json \in BOOLEAN : StartRun(t, k, json)
  \/ \E r \in runs : Grow(r) \/ RemoveRun(r)
  \/ \E r \in runs, s \in Statuses : EndRun(r, s)
  \/ \E seen, n \in Limits : PlanCleanup(seen, n)
  \/ \E n \in Limits, old \in {0, 1} : ScanProfile(n, old)

Spec == Init /\ [][Next]_scanVars
-----------------------------------------------------------------------------
(***************************************************************************)
(* Properties.                                                             *)
(***************************************************************************)
\* A plan adds up: it lists every stale, malformed or orphaned entry of its
\* report, unless its limit cuts it, and none of them twice; the report counts
\* the stale and malformed runs it has entries for and no others (scanner.ts
\* readinessScan and buildCleanupDryRunPlan).
AddsUp(p) ==
  LET listed == p.entries
      entered == p.report.entries
      candidates == {i \in DOMAIN entered : entered[i].status # "ok"}
      Planned(status) == Cardinality({i \in DOMAIN listed : listed[i].entry.status = status})
      Entered(status) == Cardinality({i \in DOMAIN entered : entered[i].status = status})
  IN  /\ p.report.stale = Entered("stale") /\ p.report.malformed = Entered("malformed")
      /\ Entered("orphan") <= p.report.orphans
      /\ \A status \in {"stale", "malformed", "orphan"} : Planned(status) <= Entered(status)
      /\ \E n \in Limits : Len(listed) = Min({Limited(n), Cardinality(candidates)})
      /\ \A i, j \in DOMAIN listed : listed[i].id = listed[j].id => i = j

\* So does every plan an operator is given (scanner.ts
\* buildCleanupDryRunPlan).
PlanAddsUp == \A p \in plans : AddsUp(p)

\* A profile is as long as its limit and the runs that are old enough allow:
\* a run that is too young takes no place of another, and a limit that
\* reaches all of them leaves none out (scanner.ts scanHistory).
ProfileIsFull ==
  [][\A n \in Limits, old \in {0, 1} : ScanProfile(n, old) =>
       LET eligible == {r \in Listed : r.old >= old} IN
       /\ Len(profile'.runs) = Min({Limited(n), Cardinality(eligible)})
       /\ \A e \in Range(profile'.runs) :
            \E r \in eligible : r.token = e.token /\ r.task = e.task
       /\ Cardinality({e.token : e \in Range(profile'.runs)}) = Len(profile'.runs)]_scanVars
=============================================================================
